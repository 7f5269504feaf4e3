-------------------------------- MODULE A2ATask --------------------------------
(***************************************************************************)
(* A task of the A2A server (a2a-server/src/agent): messages of the client *)
(* arrive as executions.  The first one runs the agent's loop: stream,     *)
(* schedule the tools it asked for, wait until none is pending, send their *)
(* results.  Those that come meanwhile only deliver their message; most    *)
(* of them answer a confirmation.  Cancelling the task and the end of the  *)
(* client's connection reach the loop through what it waits for.           *)
(*                                                                         *)
(* The server starts with the task in its store only, as after a restart:  *)
(* an execution that does not find the task in memory builds a Task object *)
(* of its own.  The tool scheduler is the one of CoreToolScheduler, here   *)
(* reduced to: one call at a time, confirmed or not, reported as a batch.  *)
(***************************************************************************)
EXTENDS Naturals, Sequences, SequencesExt

CONSTANTS Executions,  \* calls of execute, numbered; each may build a Task object
          A2ACalls     \* ids of tool calls, in the order the model uses them

ASSUME A2AAssumption == Executions \subseteq Nat \ {0} /\ A2ACalls \subseteq Nat

VARIABLES a2aExec,       \* a2aExec[e]: the call of execute
          a2aTask,       \* a2aTask[t]: the Task object that execution t built
          a2aTasks,      \* this.tasks: the object found for the task's id, or 0
          executingTask, \* this.executingTasks has the task's id
          workingLate    \* history: since the last loop, a message that had
                         \* joined one has set the task to "working"

a2aVars == <<a2aExec, a2aTask, a2aTasks, executingTask, workingLate>>

\* "done" is a success or an error.
CallStatus == {"none", "queued", "awaiting", "executing", "done", "cancelled"}
ToolDone == {"done", "cancelled"}
FinalState == {"canceled", "failed"}
Promise == {"open", "resolved", "rejected"}

NewTask == [state |-> "input-required", pending |-> {}, promise |-> "resolved",
            waiter |-> "none", batch |-> <<>>, owner |-> 0, done |-> {}, next |-> <<>>,
            nextOwner |-> 0, status |-> [c \in A2ACalls |-> "none"], completed |-> {}]

A2ATypeOK ==
    /\ a2aExec \in [Executions -> [at: {"new", "loading", "answering", "confirming",
                                        "stream", "scheduling", "waiting",
                                        "joining", "second", "rested", "ended"},
                                   task: Executions \cup {0}, aborted: BOOLEAN]]
    /\ a2aTask \in [Executions -> [
           state: {"input-required", "working"} \cup FinalState, \* taskState
           pending: SUBSET A2ACalls,     \* pendingToolCalls
           promise: Promise,             \* toolCompletionPromise
           waiter: Promise \cup {"none", "current"}, \* the promise the loop awaits
           batch: Seq(A2ACalls), owner: Executions \cup {0}, done: SUBSET A2ACalls,
           next: Seq(A2ACalls), nextOwner: Executions \cup {0}, \* the scheduler
           status: [A2ACalls -> CallStatus],
           completed: SUBSET A2ACalls]]  \* completedToolCalls
    /\ a2aTasks \in Executions \cup {0}
    /\ executingTask \in BOOLEAN /\ workingLate \in BOOLEAN

A2AInit ==
    /\ a2aExec = [e \in Executions |-> [at |-> "new", task |-> 0, aborted |-> FALSE]]
    /\ a2aTask = [t \in Executions |-> NewTask]
    /\ a2aTasks = 0
    /\ executingTask = FALSE /\ workingLate = FALSE

-------------------------------------------------------------------------------
(* Task: the pending tools and the promise of their completion *)

settlePromise(o, how) == IF o.promise = "open" THEN [o EXCEPT !.promise = how] ELSE o

\* A new promise; who awaits the old one keeps it.
resetPromise(o) ==
    [o EXCEPT !.waiter = IF @ = "current" THEN o.promise ELSE @,
              !.promise = IF o.pending = {} THEN "resolved" ELSE "open"]

cancelPendingTools(o) == resetPromise([settlePromise(o, "rejected") EXCEPT !.pending = {}])

registered_resets(o, live) ==
    LET p == [o EXCEPT !.pending = live,
                       !.state = IF \E c \in live : o.status[c] = "awaiting"
                                   THEN "input-required" ELSE @]
    IN  IF live # {} THEN resetPromise(p)
        ELSE IF o.pending # {} THEN settlePromise(p, "resolved")
        ELSE p

\* _schedulerToolCallsUpdate: unfinished calls are registered, finished ones
\* resolved, and a confirmation that is awaited is reported to the client.
registered(o, live) ==
    LET p == [o EXCEPT !.pending = live,
                       !.state = IF \E c \in live : o.status[c] = "awaiting"
                                   THEN "input-required" ELSE @]
    IN  IF o.pending = {} /\ live # {} THEN resetPromise(p)
        ELSE IF o.pending # {} /\ live = {} THEN settlePromise(p, "resolved")
        ELSE p

toolCallsUpdate_activeOnly(o) ==
    registered(o, {c \in ToSet(o.batch) : o.status[c] \notin ToolDone \cup {"queued"}})

toolCallsUpdate(o) == registered(o, {c \in ToSet(o.batch) : o.status[c] \notin ToolDone})

-------------------------------------------------------------------------------
(* The scheduler *)

begun(o, calls, e) ==
    toolCallsUpdate([o EXCEPT !.batch = calls, !.owner = e,
        !.status = [c \in A2ACalls |-> IF c \in ToSet(calls) THEN "queued" ELSE @[c]]])

\* The batch is complete: its results go to the task, the next batch starts.
reported(o) ==
    LET p == toolCallsUpdate([o EXCEPT !.completed = @ \cup o.done, !.done = {}, !.owner = 0])
    IN  IF p.next = <<>> THEN p
        ELSE begun([p EXCEPT !.next = <<>>, !.nextOwner = 0], p.next, p.nextOwner)

\* The active call ends; a cancelled one takes the rest of the batch with it.
headEnds(o, how) ==
    LET all == how = "cancelled" \/ a2aExec[o.owner].aborted
        over == IF all THEN ToSet(o.batch) ELSE {Head(o.batch)}
        p == [o EXCEPT !.status = [c \in A2ACalls |->
                           IF c = Head(o.batch) THEN how
                           ELSE IF c \in over THEN "cancelled" ELSE @[c]],
                       !.done = @ \cup over,
                       !.batch = IF all THEN <<>> ELSE Tail(@)]
    IN  IF p.batch = <<>> THEN reported(p) ELSE toolCallsUpdate(p)

\* The active call is checked by the policy; an aborted batch is cancelled.
ToolChecked(t, how) ==
    LET o == a2aTask[t] IN
    /\ o.batch # <<>> /\ o.status[Head(o.batch)] = "queued"
    /\ a2aTask' = [a2aTask EXCEPT ![t] =
           IF a2aExec[o.owner].aborted THEN headEnds(o, "cancelled")
           ELSE IF how = "done" THEN headEnds(o, how)
           ELSE toolCallsUpdate([o EXCEPT !.status[Head(o.batch)] = how])]
    /\ UNCHANGED <<a2aExec, a2aTasks, executingTask, workingLate>>

ToolEnds(t, how) ==
    LET o == a2aTask[t] IN
    /\ o.batch # <<>> /\ o.status[Head(o.batch)] = "executing"
    /\ how = "cancelled" => a2aExec[o.owner].aborted
    /\ a2aTask' = [a2aTask EXCEPT ![t] = headEnds(o, how)]
    /\ UNCHANGED <<a2aExec, a2aTasks, executingTask, workingLate>>

\* onConfirm of the awaited call; under an aborted signal it cancels.
confirmed(o, proceeds) ==
    IF proceeds /\ ~a2aExec[o.owner].aborted
      THEN toolCallsUpdate([o EXCEPT !.status[Head(o.batch)] = "executing"])
      ELSE headEnds(o, "cancelled")

awaitsAnswer(o) == o.batch # <<>> /\ o.status[Head(o.batch)] = "awaiting"

\* schedule() or onConfirm() returns when its chain has nothing left to do.
chainReturned(o) == o.next = <<>> /\ (o.batch = <<>> \/ awaitsAnswer(o))

-------------------------------------------------------------------------------
(* CoderAgentExecutor *)

\* The loop ends: by itself, or by an error.
loopEnds(e, o, at) ==
    /\ a2aTask' = [a2aTask EXCEPT ![a2aExec[e].task] = [o EXCEPT !.waiter = "none"]]
    /\ a2aExec' = [a2aExec EXCEPT ![e].at = at]
    /\ executingTask' = FALSE

loopCatches_keepsState(e, o) ==
    loopEnds(e, IF a2aExec[e].aborted THEN cancelPendingTools(o)
                ELSE [cancelPendingTools(o) EXCEPT !.state = "failed"], "ended")

loopCatches(e, o) ==
    loopEnds(e, [cancelPendingTools(o) EXCEPT !.state =
        IF ~a2aExec[e].aborted THEN "failed"
        ELSE IF @ \in FinalState THEN @ ELSE "input-required"], "ended")

\* A message is a text, the answer to the call that waits for one, or both.
UserMessages == {"text", "answer", "both"}

\* What a message does at once: an answer comes before the text.
takenIn(o, message, proceeds) ==
    IF message = "text" THEN [o EXCEPT !.state = "working"] ELSE confirmed(o, proceeds)

\* Where it goes on: in the loop that it starts, or beside the one that runs.
runsAt(message) ==
    CASE message = "text" -> "stream" [] message = "answer" -> "answering"
      [] message = "both" -> "confirming"
joinsAt(message) ==
    CASE message = "text" -> "second" [] message = "answer" -> "ended"
      [] message = "both" -> "joining"

enter_always(e, t, message, proceeds) ==
    /\ message = "text" \/ awaitsAnswer(a2aTask[t])
    /\ a2aExec' = [a2aExec EXCEPT ![e].at = runsAt(message), ![e].task = t]
    /\ a2aTask' = [a2aTask EXCEPT ![t] = takenIn(@, message, proceeds)]
    /\ executingTask' = TRUE /\ workingLate' = FALSE

\* After the load, without an await: refuse, join the running loop, or run it.
enter(e, t, message, proceeds) ==
    IF a2aTask[t].state \in FinalState
      THEN /\ a2aExec' = [a2aExec EXCEPT ![e].at = "ended", ![e].task = t]
           /\ UNCHANGED <<a2aTask, executingTask, workingLate>>
      ELSE /\ message = "text" \/ awaitsAnswer(a2aTask[t])
           /\ a2aExec' = [a2aExec EXCEPT
                  ![e].at = IF executingTask THEN joinsAt(message) ELSE runsAt(message),
                  ![e].task = t]
           /\ a2aTask' = [a2aTask EXCEPT ![t] = takenIn(@, message, proceeds)]
           /\ executingTask' = TRUE /\ workingLate' = FALSE

\* Messages are numbered as they arrive.
arrives(e) == \A d \in Executions : a2aExec[d].at = "new" <=> d >= e

Execute(e, message, proceeds) ==
    /\ arrives(e) /\ a2aTasks # 0
    /\ enter(e, a2aTasks, message, proceeds)
    /\ UNCHANGED a2aTasks

\* Not in memory: reconstruct awaits the configuration and the client.
Load(e) ==
    /\ arrives(e) /\ a2aTasks = 0
    /\ a2aExec' = [a2aExec EXCEPT ![e].at = "loading"]
    /\ UNCHANGED <<a2aTask, a2aTasks, executingTask, workingLate>>

Loaded(e) ==
    /\ a2aExec[e].at = "loading"
    /\ a2aTasks' = e
    /\ enter(e, e, "text", FALSE)

LoadFails(e) ==
    /\ a2aExec[e].at = "loading"
    /\ a2aExec' = [a2aExec EXCEPT ![e].at = "ended"]
    /\ UNCHANGED <<a2aTask, a2aTasks, executingTask, workingLate>>

\* A further message, or a further part of one, that answers a confirmation
\* while the loop runs.
Answer(proceeds) ==
    /\ a2aTasks # 0 /\ executingTask
    /\ a2aTask[a2aTasks].state \notin FinalState /\ awaitsAnswer(a2aTask[a2aTasks])
    /\ a2aTask' = [a2aTask EXCEPT ![a2aTasks] = confirmed(@, proceeds)]
    /\ UNCHANGED <<a2aExec, a2aTasks, executingTask, workingLate>>

\* The answer of a message has taken effect; its text goes to the model.
MessageGoesOn(e) ==
    LET t == a2aExec[e].task IN
    /\ a2aExec[e].at \in {"confirming", "joining"} /\ chainReturned(a2aTask[t])
    /\ a2aTask' = [a2aTask EXCEPT ![t].state = "working"]
    /\ IF a2aExec[e].at = "confirming"
         THEN a2aExec' = [a2aExec EXCEPT ![e].at = "stream"] /\ UNCHANGED workingLate
         ELSE /\ a2aExec' = [a2aExec EXCEPT ![e].at = "second"]
              /\ workingLate' = (workingLate \/ ~executingTask)
    /\ UNCHANGED <<a2aTasks, executingTask>>

\* An error event, or the one of a cancelled stream, cancels what is pending.
StreamEvent(e, event) ==
    LET t == a2aExec[e].task IN
    /\ a2aExec[e].at = "stream" /\ ~a2aExec[e].aborted
    /\ a2aTask' = [a2aTask EXCEPT ![t] =
           IF event = "Error" THEN cancelPendingTools(@)
           ELSE [cancelPendingTools(@) EXCEPT !.state = "input-required"]]
    /\ UNCHANGED <<a2aExec, a2aTasks, executingTask, workingLate>>

\* The model's stream ends: its calls are scheduled, as a batch.
StreamEnds(e, calls) ==
    LET o == a2aTask[a2aExec[e].task] IN
    /\ a2aExec[e].at = "stream" /\ ~a2aExec[e].aborted
    /\ \A c \in ToSet(calls) : o.status[c] = "none"
    /\ \A c \in A2ACalls, d \in ToSet(calls) : c < d => c \in ToSet(calls) \/ o.status[c] # "none"
    /\ a2aExec' = [a2aExec EXCEPT ![e].at = "scheduling"]
    /\ a2aTask' = [a2aTask EXCEPT ![a2aExec[e].task] =
           IF calls = <<>> THEN o
           ELSE IF o.batch = <<>> THEN begun([o EXCEPT !.state = "working"], calls, e)
           ELSE [o EXCEPT !.state = "working", !.next = calls, !.nextOwner = e]]
    /\ UNCHANGED <<a2aTasks, executingTask, workingLate>>

\* The stream fails, or the signal is aborted before its next event.
StreamFails(e) ==
    /\ a2aExec[e].at = "stream"
    /\ loopCatches(e, a2aTask[a2aExec[e].task])
    /\ UNCHANGED <<a2aTasks, workingLate>>

\* A secondary execution reads its stream and drops the events.
SecondEnds(e) ==
    /\ a2aExec[e].at = "second"
    /\ a2aExec' = [a2aExec EXCEPT ![e].at = "ended"]
    /\ UNCHANGED <<a2aTask, a2aTasks, executingTask, workingLate>>

\* Nothing is pending any more: the results go to the model, or, when there
\* are none but cancelled ones, the turn ends.
afterWait(e, o) ==
    LET cleared == [o EXCEPT !.completed = {},
            !.status = [c \in A2ACalls |-> IF c \in o.completed THEN "done" ELSE @[c]]]
    IN  IF a2aExec[e].aborted THEN loopCatches(e, o)
        ELSE IF \A c \in o.completed : o.status[c] = "cancelled"
          THEN loopEnds(e, [cleared EXCEPT !.state = "input-required"], "rested")
          ELSE /\ a2aTask' = [a2aTask EXCEPT ![a2aExec[e].task] =
                                [cleared EXCEPT !.state = "working", !.waiter = "none"]]
               /\ a2aExec' = [a2aExec EXCEPT ![e].at = "stream"]
               /\ UNCHANGED executingTask

\* An aborted signal is seen before the loop waits, unless it has scheduled.
WaitForTools(e) ==
    LET o == a2aTask[a2aExec[e].task] IN
    /\ a2aExec[e].at \in {"answering", "scheduling"} /\ chainReturned(o)
    /\ IF a2aExec[e].at = "answering" /\ a2aExec[e].aborted THEN loopCatches(e, o)
       ELSE IF o.pending = {} THEN afterWait(e, o)
       ELSE /\ a2aExec' = [a2aExec EXCEPT ![e].at = "waiting"]
            /\ a2aTask' = [a2aTask EXCEPT ![a2aExec[e].task].waiter = "current"]
            /\ UNCHANGED executingTask
    /\ UNCHANGED <<a2aTasks, workingLate>>

\* A batch that waits in the scheduler is removed when its signal is aborted.
QueuedBatchAborted(e) ==
    LET o == a2aTask[a2aExec[e].task] IN
    /\ a2aExec[e].at = "scheduling" /\ a2aExec[e].aborted
    /\ o.nextOwner = e
    /\ loopCatches(e, [o EXCEPT !.next = <<>>, !.nextOwner = 0])
    /\ UNCHANGED <<a2aTasks, workingLate>>

\* The awaited promise is settled.
WaitEnds(e) ==
    LET o == a2aTask[a2aExec[e].task]
        awaited == IF o.waiter = "current" THEN o.promise ELSE o.waiter
    IN
    /\ a2aExec[e].at = "waiting" /\ awaited # "open"
    /\ IF awaited = "rejected" THEN loopCatches(e, o) ELSE afterWait(e, o)
    /\ UNCHANGED <<a2aTasks, workingLate>>

\* Chains of promises run before the next request or signal is handled.
chainsAtRest ==
    \A e \in Executions : a2aExec[e].at \in {"answering", "confirming", "joining", "scheduling"} =>
        ~chainReturned(a2aTask[a2aExec[e].task])

CancelTask ==
    /\ a2aTasks # 0 /\ chainsAtRest
    /\ a2aTask[a2aTasks].state \notin FinalState
    /\ a2aTask' = [a2aTask EXCEPT ![a2aTasks] =
                      [cancelPendingTools(@) EXCEPT !.state = "canceled"]]
    /\ UNCHANGED <<a2aExec, a2aTasks, executingTask, workingLate>>

Loops == {e \in Executions :
    a2aExec[e].at \in {"answering", "confirming", "stream", "scheduling", "waiting"}}

\* The client's end of the connection is closed.
ClientEnds(e) ==
    /\ e \in Loops
    /\ ~a2aExec[e].aborted /\ chainsAtRest
    /\ a2aExec' = [a2aExec EXCEPT ![e].aborted = TRUE]
    /\ UNCHANGED <<a2aTask, a2aTasks, executingTask, workingLate>>

\* At most two calls at once, in the order of their ids.
CallBatches == {<<>>} \cup {<<c>> : c \in A2ACalls}
                 \cup {<<p[1], p[2]>> : p \in {q \in A2ACalls \X A2ACalls : q[1] < q[2]}}

A2AStep(e) ==
    \/ Loaded(e) \/ StreamFails(e) \/ SecondEnds(e) \/ WaitForTools(e)
    \/ QueuedBatchAborted(e) \/ WaitEnds(e) \/ MessageGoesOn(e)
    \/ \E how \in {"awaiting", "executing", "done"} : ToolChecked(e, how)
    \/ \E how \in ToolDone : ToolEnds(e, how)

A2ANext ==
    \/ \E e \in Executions :
         \/ A2AStep(e) \/ Load(e) \/ LoadFails(e) \/ ClientEnds(e)
         \/ \E message \in UserMessages, proceeds \in BOOLEAN : Execute(e, message, proceeds)
         \/ \E event \in {"Error", "UserCancelled"} : StreamEvent(e, event)
         \/ \E calls \in CallBatches : StreamEnds(e, calls)
    \/ \E proceeds \in BOOLEAN : Answer(proceeds)
    \/ CancelTask

A2ASpec == A2AInit /\ [][A2ANext]_a2aVars

-------------------------------------------------------------------------------

\* One execution runs the agent's loop of a task, also when several load it at
\* once: the test of executingTasks follows the awaits (executor.ts:441).
OneLoop == \A d, e \in Loops : d = e

\* The loop goes on to the model, or ends its turn, only when its batch is
\* reported: whatever is confirmed, cancelled or queued meanwhile, it never
\* leaves its wait between two results (task.ts:183, executor.ts:502).
ResultsWhole ==
    \A e \in Executions :
        a2aExec[e].at \in {"stream", "rested"} =>
            e \notin {a2aTask[a2aExec[e].task].owner, a2aTask[a2aExec[e].task].nextOwner}

\* Two executions found the task in the store only and built an object each.
LoadedTwice == \E d, e \in Executions : d # e /\ a2aExec[d].task = d /\ a2aExec[e].task = e

\* The loop's wait ends, although the promise it awaits may have been replaced
\* by then, provided that confirmations are answered; those of a task that was
\* loaded twice cannot be (task.ts:156, :189, executor.ts:564).
LoopsEnd ==
    []<>(LoadedTwice \/ \A e \in Executions : a2aExec[e].at # "waiting")

\* No task is left working when nobody works on it, unless two executions
\* loaded it, or the text of a message followed its answer when the loop that
\* was to take it had ended (executor.ts:569, :589, task.ts:963).
LeftAtRest ==
    a2aTasks # 0 /\ ~executingTask =>
        a2aTask[a2aTasks].state # "working" \/ LoadedTwice \/ workingLate
===============================================================================
