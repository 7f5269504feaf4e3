------------------------------ MODULE SessionProofs ------------------------------
(***************************************************************************)
(* Theorems about what runs in the sessions of the CLI and its servers: a  *)
(* task of the A2A server, a session of the Agent Client Protocol, the     *)
(* approval of tool calls, and the queue of usage events.                  *)
(***************************************************************************)
EXTENDS A2ATask, AcpSession, ToolApproval, TelemetryQueue, SequenceTheorems, TLAPS

(* A2ATask: one execution runs the agent's loop. *)

ExecRecord == [at: {"new", "loading", "answering", "confirming", "stream", "scheduling",
                    "waiting", "joining", "second", "rested", "ended"},
               task: Executions \cup {0}, aborted: BOOLEAN]

LoopAt == {"answering", "confirming", "stream", "scheduling", "waiting"}

\* executingTasks has the task as long as a loop runs, so it is what keeps a
\* second one out.
OInv ==
    /\ a2aExec \in [Executions -> ExecRecord] /\ a2aTasks \in Executions \cup {0}
    /\ \A d, e \in Executions : a2aExec[d].at \in LoopAt /\ a2aExec[e].at \in LoopAt => d = e
    /\ \A e \in Executions : a2aExec[e].at \in LoopAt => executingTask

ExecAt == {"new", "loading", "joining", "second", "rested", "ended"} \cup LoopAt

\* Where the message of an execution that enters goes on.
EnterAt == {"ended", "second", "joining", "stream", "answering", "confirming"}

\* The place of one execution is set.
LEMMA ExecPlaced ==
  ASSUME OInv, NEW e \in Executions, NEW at \in ExecAt, a2aExec' = [a2aExec EXCEPT ![e].at = at]
  PROVE  /\ a2aExec' \in [Executions -> ExecRecord]
         /\ \A d \in Executions : a2aExec'[d].at = IF d = e THEN at ELSE a2aExec[d].at
  BY DEF OInv, ExecRecord, ExecAt, LoopAt

\* The loop goes on.
LEMMA LoopGoesOn ==
  ASSUME OInv, NEW e \in Executions, a2aExec[e].at \in LoopAt, NEW at \in LoopAt,
         a2aExec' = [a2aExec EXCEPT ![e].at = at],
         executingTask' = executingTask, a2aTasks' = a2aTasks
  PROVE  OInv'
<1>1. /\ a2aExec' \in [Executions -> ExecRecord]
      /\ \A d \in Executions : a2aExec'[d].at = IF d = e THEN at ELSE a2aExec[d].at
  BY ExecPlaced DEF ExecAt
<1>2. \A d \in Executions : a2aExec'[d].at \in LoopAt => d = e
  BY <1>1 DEF OInv
<1>3. executingTask
  BY DEF OInv
<1> QED BY <1>1, <1>2, <1>3 DEF OInv

\* The loop ends, and with it the entry of executingTasks.
LEMMA LoopOver ==
  ASSUME OInv, NEW e \in Executions, a2aExec[e].at \in LoopAt, NEW at \in {"ended", "rested"},
         a2aExec' = [a2aExec EXCEPT ![e].at = at], a2aTasks' = a2aTasks
  PROVE  OInv'
<1>1. /\ a2aExec' \in [Executions -> ExecRecord]
      /\ \A d \in Executions : a2aExec'[d].at = IF d = e THEN at ELSE a2aExec[d].at
  BY ExecPlaced DEF ExecAt
<1>2. \A d \in Executions : a2aExec'[d].at \notin LoopAt
  BY <1>1 DEF OInv, LoopAt
<1> QED BY <1>1, <1>2 DEF OInv

\* An execution outside the loop moves, or ends.
LEMMA OutsideMoves ==
  ASSUME OInv, NEW e \in Executions, NEW at \in ExecAt \ LoopAt,
         a2aExec[e].at \notin LoopAt,
         a2aExec' = [a2aExec EXCEPT ![e].at = at],
         executingTask' = executingTask, a2aTasks' = a2aTasks
  PROVE  OInv'
<1>1. /\ a2aExec' \in [Executions -> ExecRecord]
      /\ \A d \in Executions : a2aExec'[d].at = IF d = e THEN at ELSE a2aExec[d].at
  BY ExecPlaced
<1>2. \A d \in Executions : a2aExec'[d].at \in LoopAt => a2aExec[d].at \in LoopAt
  BY <1>1
<1> QED BY <1>1, <1>2 DEF OInv

\* An execution enters: it runs the loop only if no other one does.
LEMMA EnterKeeps ==
  ASSUME OInv, NEW e \in Executions, NEW t \in Executions, NEW message \in UserMessages,
         NEW proceeds \in BOOLEAN, enter(e, t, message, proceeds),
         a2aExec[e].at \notin LoopAt, a2aTasks' \in Executions \cup {0}
  PROVE  OInv'
<1>1. PICK at \in EnterAt :
        /\ a2aExec' = [a2aExec EXCEPT ![e].at = at, ![e].task = t]
        /\ \/ executingTask' = executingTask /\ at = "ended"
           \/ executingTask' /\ (executingTask => at \in {"second", "ended", "joining"})
  <2>1. CASE a2aTask[t].state \in FinalState
    <3>1. /\ a2aExec' = [a2aExec EXCEPT ![e].at = "ended", ![e].task = t]
          /\ executingTask' = executingTask
      BY <2>1 DEF enter
    <3> QED BY <3>1 DEF EnterAt
  <2>2. CASE a2aTask[t].state \notin FinalState
    <3> DEFINE at == IF executingTask THEN joinsAt(message) ELSE runsAt(message)
    <3>1. a2aExec' = [a2aExec EXCEPT ![e].at = at, ![e].task = t] /\ executingTask' = TRUE
      BY <2>2 DEF enter
    <3>2. at \in EnterAt
      BY DEF EnterAt, joinsAt, runsAt, UserMessages
    <3>3. executingTask => at \in {"second", "ended", "joining"}
      BY DEF joinsAt, UserMessages
    <3> HIDE DEF at
    <3> QED BY <3>1, <3>2, <3>3
  <2> QED BY <2>1, <2>2
<1> DEFINE f == [a2aExec EXCEPT ![e].at = at]
<1>2. /\ f \in [Executions -> ExecRecord]
      /\ \A d \in Executions : f[d].at = IF d = e THEN at ELSE a2aExec[d].at
  BY DEF OInv, ExecRecord, EnterAt
<1>3. a2aExec' = [f EXCEPT ![e].task = t]
  BY <1>1
<1> HIDE DEF f
<1>4. /\ a2aExec' \in [Executions -> ExecRecord]
      /\ \A d \in Executions : a2aExec'[d].at = IF d = e THEN at ELSE a2aExec[d].at
  BY <1>2, <1>3 DEF ExecRecord
<1>5. CASE executingTask
  <2>1. executingTask' /\ at \notin LoopAt
    BY <1>1, <1>5 DEF LoopAt
  <2>2. \A d \in Executions : a2aExec'[d].at \in LoopAt => a2aExec[d].at \in LoopAt
    BY <1>4, <2>1
  <2> QED BY <1>4, <2>1, <2>2 DEF OInv
<1>6. CASE ~executingTask
  <2>1. \A d \in Executions : a2aExec[d].at \notin LoopAt
    BY <1>6 DEF OInv
  <2>2. \A d \in Executions : a2aExec'[d].at \in LoopAt => d = e /\ at \in LoopAt
    BY <1>4, <2>1
  <2>3. at \in LoopAt => executingTask'
    BY <1>1 DEF LoopAt
  <2> QED BY <1>4, <2>2, <2>3 DEF OInv
<1> QED BY <1>5, <1>6

\* Whatever the loop finds when its wait is over.
LEMMA AfterWaitKeeps ==
  ASSUME OInv, NEW e \in Executions, a2aExec[e].at \in LoopAt, NEW o, afterWait(e, o),
         a2aTasks' = a2aTasks
  PROVE  OInv'
<1>1. \/ /\ a2aExec' = [a2aExec EXCEPT ![e].at = "stream"] /\ executingTask' = executingTask
      \/ \E at \in {"ended", "rested"} : a2aExec' = [a2aExec EXCEPT ![e].at = at]
  BY DEF afterWait, loopCatches, loopEnds
<1> QED BY <1>1, LoopGoesOn, LoopOver DEF LoopAt

LEMMA OStep == ASSUME OInv, [A2ANext]_a2aVars PROVE OInv'
<1>0. a2aTasks \in Executions \cup {0} /\ 0 \notin Executions
  BY A2AAssumption DEF OInv
<1>1. ASSUME UNCHANGED <<a2aExec, a2aTasks, executingTask>> PROVE OInv'
  BY <1>1 DEF OInv
<1>2. ASSUME NEW e \in Executions, Loaded(e) PROVE OInv'
  <2>1. enter(e, e, "text", FALSE) /\ a2aExec[e].at \notin LoopAt /\ a2aTasks' = e
    BY <1>2 DEF Loaded, LoopAt
  <2> QED BY <2>1, EnterKeeps DEF UserMessages
<1>3. ASSUME NEW e \in Executions, NEW message \in UserMessages, NEW proceeds \in BOOLEAN,
             Execute(e, message, proceeds)
      PROVE  OInv'
  <2>1. /\ enter(e, a2aTasks, message, proceeds) /\ a2aTasks' = a2aTasks /\ a2aTasks # 0
        /\ a2aExec[e].at = "new" \/ ~(e >= e)
    BY <1>3 DEF Execute, arrives
  <2>2. a2aExec[e].at \notin LoopAt
    BY <2>1, A2AAssumption DEF LoopAt
  <2>3. a2aTasks \in Executions
    BY <1>0, <2>1
  <2> QED BY <2>1, <2>2, <2>3, EnterKeeps
<1>4. ASSUME NEW e \in Executions, Load(e) \/ LoadFails(e) \/ SecondEnds(e) PROVE OInv'
  <2>1. e >= e
    BY A2AAssumption
  <2>2. /\ a2aExec[e].at \notin LoopAt
        /\ \E at \in {"loading", "ended"} : a2aExec' = [a2aExec EXCEPT ![e].at = at]
        /\ executingTask' = executingTask /\ a2aTasks' = a2aTasks
    BY <1>4, <2>1 DEF Load, LoadFails, SecondEnds, arrives, LoopAt
  <2>3. {"loading", "ended"} \subseteq ExecAt \ LoopAt
    BY DEF ExecAt, LoopAt
  <2> QED BY <2>2, <2>3, OutsideMoves
<1>5. ASSUME NEW e \in Executions, StreamFails(e) \/ QueuedBatchAborted(e) PROVE OInv'
  <2>1. /\ a2aExec[e].at \in LoopAt /\ a2aTasks' = a2aTasks
        /\ a2aExec' = [a2aExec EXCEPT ![e].at = "ended"]
    BY <1>5 DEF StreamFails, QueuedBatchAborted, loopCatches, loopEnds, LoopAt
  <2> QED BY <2>1, LoopOver
<1>6. ASSUME NEW e \in Executions, WaitForTools(e) PROVE OInv'
  <2>1. a2aExec[e].at \in LoopAt /\ a2aTasks' = a2aTasks
    BY <1>6 DEF WaitForTools, LoopAt
  <2>2. \/ \E o : afterWait(e, o)
        \/ a2aExec' = [a2aExec EXCEPT ![e].at = "waiting"] /\ executingTask' = executingTask
        \/ a2aExec' = [a2aExec EXCEPT ![e].at = "ended"]
    BY <1>6 DEF WaitForTools, loopCatches, loopEnds
  <2>3. CASE a2aExec' = [a2aExec EXCEPT ![e].at = "ended"]
    BY <2>1, <2>3, LoopOver
  <2> QED BY <2>1, <2>2, <2>3, AfterWaitKeeps, LoopGoesOn DEF LoopAt
<1>7. ASSUME NEW e \in Executions, WaitEnds(e) PROVE OInv'
  <2>1. a2aExec[e].at \in LoopAt /\ a2aTasks' = a2aTasks
    BY <1>7 DEF WaitEnds, LoopAt
  <2>2. (\E o : afterWait(e, o)) \/ a2aExec' = [a2aExec EXCEPT ![e].at = "ended"]
    BY <1>7 DEF WaitEnds, loopCatches, loopEnds
  <2> QED BY <2>1, <2>2, AfterWaitKeeps, LoopOver
<1>8. ASSUME NEW e \in Executions, NEW calls, StreamEnds(e, calls) PROVE OInv'
  <2>1. /\ a2aExec[e].at \in LoopAt /\ a2aTasks' = a2aTasks /\ executingTask' = executingTask
        /\ a2aExec' = [a2aExec EXCEPT ![e].at = "scheduling"]
    BY <1>8 DEF StreamEnds, LoopAt
  <2> QED BY <2>1, LoopGoesOn DEF LoopAt
<1>9. ASSUME NEW e \in Executions, ClientEnds(e) PROVE OInv'
  <2>1. /\ a2aExec' = [a2aExec EXCEPT ![e].aborted = TRUE]
        /\ executingTask' = executingTask /\ a2aTasks' = a2aTasks
    BY <1>9 DEF ClientEnds
  <2>2. /\ a2aExec' \in [Executions -> ExecRecord]
        /\ \A d \in Executions : a2aExec'[d].at = a2aExec[d].at
    BY <2>1 DEF OInv, ExecRecord
  <2> QED BY <2>1, <2>2 DEF OInv
<1>10. ASSUME NEW e \in Executions, A2AStep(e) PROVE OInv'
  <2>1. ASSUME \/ \E how \in {"awaiting", "executing", "done"} : ToolChecked(e, how)
               \/ \E how \in ToolDone : ToolEnds(e, how)
        PROVE  OInv'
    BY <1>1, <2>1 DEF ToolChecked, ToolEnds
  <2>2. ASSUME MessageGoesOn(e) PROVE OInv'
    <3>1. executingTask' = executingTask /\ a2aTasks' = a2aTasks
      BY <2>2 DEF MessageGoesOn
    <3>2. CASE a2aExec[e].at = "confirming"
      <4>1. a2aExec' = [a2aExec EXCEPT ![e].at = "stream"]
        BY <2>2, <3>2 DEF MessageGoesOn
      <4> QED BY <3>1, <3>2, <4>1, LoopGoesOn DEF LoopAt
    <3>3. CASE a2aExec[e].at = "joining"
      <4>1. a2aExec' = [a2aExec EXCEPT ![e].at = "second"]
        BY <2>2, <3>3 DEF MessageGoesOn
      <4>2. a2aExec[e].at \notin LoopAt /\ "second" \in ExecAt \ LoopAt
        BY <3>3 DEF LoopAt, ExecAt
      <4> QED BY <3>1, <4>1, <4>2, OutsideMoves
    <3> QED BY <2>2, <3>2, <3>3 DEF MessageGoesOn
  <2> QED BY <1>2, <1>4, <1>5, <1>6, <1>7, <1>10, <2>1, <2>2 DEF A2AStep
<1>11. CASE \/ CancelTask \/ \E proceeds \in BOOLEAN : Answer(proceeds)
            \/ \E e \in Executions, event \in {"Error", "UserCancelled"} : StreamEvent(e, event)
  BY <1>1, <1>11 DEF CancelTask, Answer, StreamEvent
<1>12. CASE UNCHANGED a2aVars
  BY <1>1, <1>12 DEF a2aVars
<1> QED BY <1>3, <1>4, <1>8, <1>9, <1>10, <1>11, <1>12 DEF A2ANext

-------------------------------------------------------------------------------

\* At most one execution runs the agent's loop of a task, for any number of
\* messages, also when several of them load the task (executor.ts:453).
THEOREM OneLoopRuns == A2ASpec => []OneLoop
<1>1. A2AInit => OInv
  BY DEF A2AInit, OInv, ExecRecord, LoopAt
<1>2. OInv /\ [A2ANext]_a2aVars => OInv'
  BY OStep
<1>3. OInv => OneLoop
  BY DEF OInv, OneLoop, Loops, LoopAt
<1> QED BY <1>1, <1>2, <1>3, PTL DEF A2ASpec

-------------------------------------------------------------------------------
(* A2ATask: what becomes of the calls, and of the state of a task *)

TaskRecord == [
    state: {"input-required", "working"} \cup FinalState, pending: SUBSET A2ACalls,
    promise: Promise, waiter: Promise \cup {"none", "current"},
    batch: Seq(A2ACalls), owner: Executions \cup {0}, done: SUBSET A2ACalls,
    next: Seq(A2ACalls), nextOwner: Executions \cup {0},
    status: [A2ACalls -> CallStatus], completed: SUBSET A2ACalls]

OpenCall == {"queued", "awaiting", "executing"}

\* The calls in the scheduler are open, those in the next batch new, those
\* reported done; and a promise is open as long as calls are pending.
CallsKept(o) ==
    /\ IsInjective(o.batch) /\ IsInjective(o.next)
    /\ \A c \in ToSet(o.batch) : o.status[c] \in OpenCall
    /\ \A c \in ToSet(o.next) : o.status[c] = "none"
    /\ \A c \in o.completed \cup o.done : o.status[c] \in ToolDone
    /\ o.pending # {} => o.promise = "open"

BatchFits(o) ==
    /\ CallsKept(o)
    /\ o.owner # 0 <=> o.batch # <<>>
    /\ o.nextOwner # 0 <=> o.next # <<>>
    /\ o.next # <<>> => o.batch # <<>>

\* The loop's wait is not over, or ends with an error.
Held(o) == \/ o.waiter \in {"open", "rejected"}
           \/ o.waiter = "current" /\ o.promise # "resolved"

\* What an operation of the scheduler does: the batch goes on, or it is
\* reported and the next one, if there is one, takes its place.
BatchGoesOn(o, p) ==
    /\ p.owner = o.owner /\ p.nextOwner = o.nextOwner
    /\ p.pending # {} /\ (Held(o) => Held(p))
BatchReported(o, p) ==
    /\ p.owner = o.nextOwner /\ p.nextOwner = 0
    /\ o.nextOwner # 0 => p.pending # {} /\ p.next = <<>>
SchedulerRan(o, p) ==
    /\ p \in TaskRecord /\ BatchFits(p) /\ p.state \in {o.state, "input-required"}
    /\ BatchGoesOn(o, p) \/ BatchReported(o, p)

SameBatch(o, u) ==
    /\ u.batch = o.batch /\ u.owner = o.owner /\ u.done = o.done
    /\ u.next = o.next /\ u.nextOwner = o.nextOwner
    /\ u.status = o.status /\ u.completed = o.completed

LEMMA CallsRegistered ==
  ASSUME NEW o \in TaskRecord, NEW live \in SUBSET A2ACalls, NEW u, u = registered(o, live),
         o.pending # {} => o.promise = "open"
  PROVE  /\ u \in TaskRecord /\ SameBatch(o, u)
         /\ u.pending = live /\ u.state \in {o.state, "input-required"}
         /\ live # {} => u.promise = "open" /\ (Held(o) => Held(u))
<1> DEFINE p == [o EXCEPT !.pending = live,
                          !.state = IF \E c \in live : o.status[c] = "awaiting"
                                      THEN "input-required" ELSE @]
<1>1. /\ p \in TaskRecord /\ SameBatch(o, p) /\ p.pending = live
      /\ p.state \in {o.state, "input-required"} /\ p.promise = o.promise /\ p.waiter = o.waiter
  BY DEF TaskRecord, SameBatch
<1>2. u = IF o.pending = {} /\ live # {} THEN resetPromise(p)
          ELSE IF o.pending # {} /\ live = {} THEN settlePromise(p, "resolved")
          ELSE p
  BY DEF registered
<1> HIDE DEF p
<1>3. CASE o.pending = {} /\ live # {}
  <2>1. u = [p EXCEPT !.waiter = IF @ = "current" THEN p.promise ELSE @, !.promise = "open"]
    BY <1>1, <1>2, <1>3 DEF resetPromise
  <2>2. /\ u \in TaskRecord /\ SameBatch(p, u) /\ u.pending = live /\ u.state = p.state
    BY <1>1, <2>1 DEF TaskRecord, SameBatch, Promise
  <2>3. u.promise = "open" /\ u.waiter = IF o.waiter = "current" THEN o.promise ELSE o.waiter
    BY <1>1, <2>1 DEF TaskRecord
  <2>4. Held(o) => Held(u)
    BY <2>3 DEF Held, TaskRecord, Promise
  <2> QED BY <1>1, <2>2, <2>3, <2>4 DEF SameBatch
<1>4. CASE o.pending # {} /\ live = {}
  <2>1. u = settlePromise(p, "resolved")
    BY <1>2, <1>4
  <2>2. u = p \/ u = [p EXCEPT !.promise = "resolved"]
    BY <2>1 DEF settlePromise
  <2>3. u \in TaskRecord /\ SameBatch(p, u) /\ u.pending = live /\ u.state = p.state
    BY <1>1, <2>2 DEF TaskRecord, SameBatch, Promise
  <2> QED BY <1>1, <1>4, <2>3 DEF SameBatch
<1>5. CASE ~(o.pending = {} /\ live # {}) /\ ~(o.pending # {} /\ live = {})
  <2>1. u = p
    BY <1>2, <1>5
  <2> QED BY <1>1, <1>5, <2>1 DEF Held
<1> QED BY <1>3, <1>4, <1>5

\* While calls of the batch are open, some are pending.
LEMMA Updated ==
  ASSUME NEW o \in TaskRecord, NEW u, u = toolCallsUpdate(o), CallsKept(o)
  PROVE  /\ u \in TaskRecord /\ SameBatch(o, u) /\ CallsKept(u)
         /\ u.state \in {o.state, "input-required"}
         /\ o.batch # <<>> => u.pending # {} /\ (Held(o) => Held(u))
<1> DEFINE live == {c \in ToSet(o.batch) : o.status[c] \notin ToolDone}
<1>1. ToSet(o.batch) \subseteq A2ACalls
  BY DEF TaskRecord, ToSet
<1>2. live \in SUBSET A2ACalls /\ u = registered(o, live)
  BY <1>1 DEF toolCallsUpdate
<1>3. o.batch # <<>> => live # {}
  <2>1. o.batch # <<>> => o.batch[1] \in ToSet(o.batch)
    BY DEF TaskRecord, ToSet
  <2> QED BY <2>1 DEF CallsKept, OpenCall, ToolDone
<1> HIDE DEF live
<1>4. o.pending # {} => o.promise = "open"
  BY DEF CallsKept
<1>5. /\ u \in TaskRecord /\ SameBatch(o, u)
      /\ u.pending = live /\ u.state \in {o.state, "input-required"}
      /\ live # {} => u.promise = "open" /\ (Held(o) => Held(u))
  BY <1>2, <1>4, CallsRegistered
<1>6. CallsKept(u)
  BY <1>5 DEF CallsKept, SameBatch
<1> QED BY <1>3, <1>5, <1>6

LEMMA BatchBegun ==
  ASSUME NEW o \in TaskRecord, CallsKept(o), o.batch = <<>>, o.next = <<>>, o.nextOwner = 0,
         NEW calls \in Seq(A2ACalls), calls # <<>>, IsInjective(calls),
         \A c \in ToSet(calls) : o.status[c] = "none",
         NEW e \in Executions, NEW b, b = begun(o, calls, e)
  PROVE  /\ b \in TaskRecord /\ BatchFits(b) /\ b.state \in {o.state, "input-required"}
         /\ b.owner = e /\ b.nextOwner = 0 /\ b.next = <<>> /\ b.pending # {}
<1> DEFINE p == [o EXCEPT !.batch = calls, !.owner = e,
        !.status = [c \in A2ACalls |-> IF c \in ToSet(calls) THEN "queued" ELSE @[c]]]
<1>1. b = toolCallsUpdate(p)
  BY DEF begun
<1>2. /\ p \in TaskRecord /\ p.batch = calls /\ p.owner = e /\ p.next = <<>> /\ p.nextOwner = 0
      /\ p.state = o.state /\ p.pending = o.pending /\ p.promise = o.promise
      /\ p.completed = o.completed /\ p.done = o.done
      /\ \A c \in A2ACalls : p.status[c] = IF c \in ToSet(calls) THEN "queued" ELSE o.status[c]
  BY DEF TaskRecord, CallStatus
<1> HIDE DEF p
<1>3. ToSet(calls) \subseteq A2ACalls /\ ToSet(p.next) = {}
  BY <1>2 DEF ToSet
<1>4. CallsKept(p)
  <2>1. \A c \in ToSet(p.batch) : p.status[c] \in OpenCall
    BY <1>2, <1>3 DEF OpenCall
  <2>2. \A c \in p.completed \cup p.done : p.status[c] \in ToolDone
    BY <1>2 DEF CallsKept, ToolDone, TaskRecord
  <2> QED BY <1>2, <1>3, <2>1, <2>2 DEF CallsKept, IsInjective
<1>5. /\ b \in TaskRecord /\ SameBatch(p, b) /\ CallsKept(b)
      /\ b.state \in {p.state, "input-required"}
      /\ p.batch # <<>> => b.pending # {}
  BY <1>1, <1>2, <1>4, Updated
<1>6. e # 0
  BY A2AAssumption
<1> QED BY <1>2, <1>5, <1>6 DEF BatchFits, SameBatch

LEMMA Reported ==
  ASSUME NEW o \in TaskRecord, CallsKept(o), o.batch = <<>>,
         o.nextOwner # 0 <=> o.next # <<>>,
         NEW p, p = reported(o)
  PROVE  /\ p \in TaskRecord /\ BatchFits(p) /\ p.state \in {o.state, "input-required"}
         /\ BatchReported(o, p)
<1> DEFINE q == [o EXCEPT !.completed = @ \cup o.done, !.done = {}, !.owner = 0]
           u == toolCallsUpdate(q)
           v == [u EXCEPT !.next = <<>>, !.nextOwner = 0]
<1>1. /\ q \in TaskRecord /\ CallsKept(q) /\ q.batch = <<>> /\ q.owner = 0 /\ q.state = o.state
      /\ q.next = o.next /\ q.nextOwner = o.nextOwner
  BY A2AAssumption DEF TaskRecord, CallsKept
<1>2. p = IF u.next = <<>> THEN u ELSE begun(v, u.next, u.nextOwner)
  BY DEF reported
<1> HIDE DEF q
<1>3. /\ u \in TaskRecord /\ SameBatch(q, u) /\ CallsKept(u) /\ u.state \in {q.state, "input-required"}
  BY <1>1, Updated
<1> HIDE DEF u
<1>4. CASE o.next = <<>>
  <2>1. p = u /\ o.nextOwner = 0
    BY <1>1, <1>2, <1>3, <1>4 DEF SameBatch
  <2> QED BY <1>1, <1>3, <1>4, <2>1 DEF BatchFits, BatchReported, SameBatch
<1>5. CASE o.next # <<>>
  <2>1. p = begun(v, u.next, u.nextOwner) /\ u.next = o.next /\ u.nextOwner = o.nextOwner
    BY <1>1, <1>2, <1>3, <1>5 DEF SameBatch
  <2>2. /\ v \in TaskRecord /\ v.batch = <<>> /\ v.next = <<>> /\ v.nextOwner = 0
        /\ v.state = u.state /\ v.status = u.status /\ v.pending = u.pending
        /\ v.promise = u.promise /\ v.completed = u.completed /\ v.done = u.done
    BY <1>1, <1>3 DEF TaskRecord, SameBatch
  <2> HIDE DEF v
  <2>3. CallsKept(v)
    BY <1>3, <2>2 DEF CallsKept, IsInjective, ToSet
  <2>4. /\ u.next \in Seq(A2ACalls) /\ u.next # <<>> /\ IsInjective(u.next)
        /\ u.nextOwner \in Executions
    BY <1>3, <1>5, <2>1 DEF TaskRecord, CallsKept
  <2>5. \A c \in ToSet(u.next) : v.status[c] = "none"
    BY <1>3, <2>2 DEF CallsKept
  <2>6. /\ p \in TaskRecord /\ BatchFits(p) /\ p.state \in {v.state, "input-required"}
        /\ p.owner = u.nextOwner /\ p.nextOwner = 0 /\ p.next = <<>> /\ p.pending # {}
    BY <2>1, <2>2, <2>3, <2>4, <2>5, BatchBegun
  <2> QED BY <1>1, <1>3, <2>1, <2>2, <2>6 DEF BatchReported
<1> QED BY <1>4, <1>5

\* The head of a batch and its other calls.
LEMMA BatchTail ==
  ASSUME NEW o \in TaskRecord, CallsKept(o), o.batch # <<>>
  PROVE  /\ Head(o.batch) \in A2ACalls /\ Head(o.batch) \in ToSet(o.batch)
         /\ Tail(o.batch) \in Seq(A2ACalls) /\ IsInjective(Tail(o.batch))
         /\ ToSet(Tail(o.batch)) \subseteq ToSet(o.batch) \ {Head(o.batch)}
         /\ ToSet(o.batch) \subseteq A2ACalls /\ ToSet(o.next) \subseteq A2ACalls
         /\ ToSet(o.next) \cap ToSet(o.batch) = {}
<1>1. o.batch \in Seq(A2ACalls) /\ o.next \in Seq(A2ACalls)
  BY DEF TaskRecord
<1>2. /\ Head(o.batch) = o.batch[1] /\ Tail(o.batch) \in Seq(A2ACalls)
      /\ Len(Tail(o.batch)) = Len(o.batch) - 1 /\ Len(o.batch) >= 1
      /\ \A i \in 1 .. Len(Tail(o.batch)) : Tail(o.batch)[i] = o.batch[i + 1]
  BY <1>1, HeadTailProperties
<1>3. ToSet(o.batch) \subseteq A2ACalls /\ ToSet(o.next) \subseteq A2ACalls
  BY <1>1 DEF ToSet
<1>4. Head(o.batch) \in ToSet(o.batch)
  BY <1>1, <1>2 DEF ToSet
<1>5. \A i \in DOMAIN Tail(o.batch) :
        i \in 1 .. Len(Tail(o.batch)) /\ i + 1 \in DOMAIN o.batch /\ i + 1 # 1
  BY <1>1, <1>2
<1>6. IsInjective(Tail(o.batch))
  <2>1. \A i, j \in DOMAIN o.batch : o.batch[i] = o.batch[j] => i = j
    BY DEF CallsKept, IsInjective
  <2> SUFFICES ASSUME NEW i \in DOMAIN Tail(o.batch), NEW j \in DOMAIN Tail(o.batch),
                      Tail(o.batch)[i] = Tail(o.batch)[j]
               PROVE  i = j
    BY DEF IsInjective
  <2>2. i + 1 = j + 1
    BY <1>2, <1>5, <2>1
  <2> QED BY <1>2, <1>5, <2>2
<1>7. ToSet(Tail(o.batch)) \subseteq ToSet(o.batch) \ {Head(o.batch)}
  <2> SUFFICES ASSUME NEW i \in DOMAIN Tail(o.batch)
               PROVE  Tail(o.batch)[i] \in ToSet(o.batch) \ {Head(o.batch)}
    BY DEF ToSet
  <2>1. Tail(o.batch)[i] = o.batch[i + 1] /\ i + 1 \in DOMAIN o.batch /\ i + 1 # 1
    BY <1>2, <1>5
  <2>2. 1 \in DOMAIN o.batch
    BY <1>1, <1>2
  <2>3. o.batch[i + 1] # o.batch[1]
    BY <2>1, <2>2 DEF CallsKept, IsInjective
  <2> QED BY <1>2, <2>1, <2>3 DEF ToSet
<1>8. ToSet(o.next) \cap ToSet(o.batch) = {}
  BY DEF CallsKept, OpenCall
<1> QED BY <1>2, <1>3, <1>4, <1>6, <1>7, <1>8

LEMMA HeadEnded ==
  ASSUME NEW o \in TaskRecord, BatchFits(o), o.batch # <<>>, NEW how \in ToolDone,
         NEW h, h = headEnds(o, how)
  PROVE  SchedulerRan(o, h)
<1>1. /\ CallsKept(o) /\ (o.nextOwner # 0 <=> o.next # <<>>) /\ o.owner # 0
  BY DEF BatchFits
<1>2. /\ Head(o.batch) \in A2ACalls /\ Head(o.batch) \in ToSet(o.batch)
      /\ Tail(o.batch) \in Seq(A2ACalls) /\ IsInjective(Tail(o.batch))
      /\ ToSet(Tail(o.batch)) \subseteq ToSet(o.batch) \ {Head(o.batch)}
      /\ ToSet(o.batch) \subseteq A2ACalls /\ ToSet(o.next) \subseteq A2ACalls
      /\ ToSet(o.next) \cap ToSet(o.batch) = {}
  BY <1>1, BatchTail
<1> DEFINE ends(over, rest) ==
      [o EXCEPT !.status = [c \in A2ACalls |->
                    IF c = Head(o.batch) THEN how
                    ELSE IF c \in over THEN "cancelled" ELSE @[c]],
                !.done = @ \cup over, !.batch = rest]
<1>3. PICK over \in SUBSET ToSet(o.batch), rest \in Seq(A2ACalls) :
        /\ h = IF rest = <<>> THEN reported(ends(over, rest)) ELSE toolCallsUpdate(ends(over, rest))
        /\ Head(o.batch) \in over /\ IsInjective(rest)
        /\ ToSet(rest) \subseteq ToSet(o.batch) \ over
  <2> DEFINE all == how = "cancelled" \/ a2aExec[o.owner].aborted
             some == IF all THEN ToSet(o.batch) ELSE {Head(o.batch)}
             left == IF all THEN <<>> ELSE Tail(o.batch)
  <2>0. h = IF left = <<>> THEN reported(ends(some, left)) ELSE toolCallsUpdate(ends(some, left))
    <3>1. ends(some, left).batch = left
      BY DEF TaskRecord
    <3>2. h = IF ends(some, left).batch = <<>> THEN reported(ends(some, left))
              ELSE toolCallsUpdate(ends(some, left))
      BY DEF headEnds
    <3> HIDE DEF ends, left, some
    <3> QED BY <3>1, <3>2
  <2>1. CASE all
    <3>1. h = IF <<>> = <<>> THEN reported(ends(ToSet(o.batch), <<>>))
              ELSE toolCallsUpdate(ends(ToSet(o.batch), <<>>))
      <4>1. some = ToSet(o.batch) /\ left = <<>>
        BY <2>1
      <4> HIDE DEF ends, some, left
      <4> QED BY <2>0, <4>1
    <3>2. <<>> \in Seq(A2ACalls) /\ IsInjective(<<>>) /\ ToSet(<<>>) = {}
      BY DEF IsInjective, ToSet
    <3> HIDE DEF ends
    <3> QED BY <1>2, <3>1, <3>2
  <2>2. CASE ~all
    <3> DEFINE tail == Tail(o.batch)
    <3>1. h = IF tail = <<>> THEN reported(ends({Head(o.batch)}, tail))
              ELSE toolCallsUpdate(ends({Head(o.batch)}, tail))
      <4>1. some = {Head(o.batch)} /\ left = tail
        BY <2>2
      <4> HIDE DEF ends, some, left, tail
      <4> QED BY <2>0, <4>1
    <3> HIDE DEF ends
    <3> QED BY <1>2, <3>1
  <2> QED BY <2>1, <2>2
<1> DEFINE p == ends(over, rest)
<1>4. /\ p \in TaskRecord /\ p.batch = rest /\ p.next = o.next /\ p.nextOwner = o.nextOwner
      /\ p.owner = o.owner /\ p.state = o.state /\ p.pending = o.pending
      /\ p.promise = o.promise /\ p.waiter = o.waiter /\ p.completed = o.completed
      /\ p.done = o.done \cup over
      /\ \A c \in A2ACalls : p.status[c] = IF c = Head(o.batch) THEN how
                                ELSE IF c \in over THEN "cancelled" ELSE o.status[c]
  BY <1>2, <1>3 DEF TaskRecord, CallStatus, ToolDone
<1>5. h = IF rest = <<>> THEN reported(p) ELSE toolCallsUpdate(p)
  BY <1>3
<1> HIDE DEF p
<1>6. CallsKept(p)
  <2>1. \A c \in ToSet(rest) : p.status[c] \in OpenCall
    BY <1>1, <1>2, <1>3, <1>4 DEF CallsKept
  <2>2. \A c \in ToSet(o.next) : p.status[c] = "none"
    BY <1>1, <1>2, <1>3, <1>4 DEF CallsKept
  <2>3. \A c \in p.completed \cup p.done : p.status[c] \in ToolDone
    BY <1>1, <1>2, <1>3, <1>4 DEF CallsKept, ToolDone, TaskRecord
  <2> QED BY <1>1, <1>3, <1>4, <2>1, <2>2, <2>3 DEF CallsKept
<1>7. CASE rest = <<>>
  <2>1. h = reported(p) /\ p.batch = <<>> /\ (p.nextOwner # 0 <=> p.next # <<>>)
    BY <1>1, <1>4, <1>5, <1>7
  <2>2. /\ h \in TaskRecord /\ BatchFits(h) /\ h.state \in {p.state, "input-required"}
        /\ BatchReported(p, h)
    BY <1>4, <1>6, <2>1, Reported
  <2> QED BY <1>4, <2>2 DEF SchedulerRan, BatchReported
<1>8. CASE rest # <<>>
  <2>1. /\ h \in TaskRecord /\ SameBatch(p, h) /\ CallsKept(h)
        /\ h.state \in {p.state, "input-required"}
        /\ h.pending # {} /\ (Held(p) => Held(h))
    BY <1>4, <1>5, <1>6, <1>8, Updated
  <2>2. BatchFits(h)
    BY <1>1, <1>4, <1>8, <2>1 DEF BatchFits, SameBatch
  <2>3. BatchGoesOn(o, h)
    BY <1>4, <2>1 DEF BatchGoesOn, SameBatch, Held
  <2> QED BY <1>4, <2>1, <2>2, <2>3 DEF SchedulerRan
<1> QED BY <1>7, <1>8

\* The head of the batch gets another status.
LEMMA HeadSet ==
  ASSUME NEW o \in TaskRecord, BatchFits(o), o.batch # <<>>, NEW how \in OpenCall,
         NEW u, u = toolCallsUpdate([o EXCEPT !.status[Head(o.batch)] = how])
  PROVE  SchedulerRan(o, u)
<1> DEFINE p == [o EXCEPT !.status[Head(o.batch)] = how]
<1>1. CallsKept(o) /\ o.owner # 0
  BY DEF BatchFits
<1>2. /\ Head(o.batch) \in A2ACalls /\ Head(o.batch) \in ToSet(o.batch)
      /\ ToSet(o.batch) \subseteq A2ACalls /\ ToSet(o.next) \subseteq A2ACalls
      /\ ToSet(o.next) \cap ToSet(o.batch) = {}
  BY <1>1, BatchTail
<1>3. /\ p \in TaskRecord /\ SameBatch([o EXCEPT !.status = p.status], p)
      /\ p.state = o.state /\ p.pending = o.pending /\ p.promise = o.promise /\ p.waiter = o.waiter
      /\ p.batch = o.batch /\ p.owner = o.owner /\ p.next = o.next /\ p.nextOwner = o.nextOwner
      /\ p.completed = o.completed /\ p.done = o.done
      /\ \A c \in A2ACalls : p.status[c] = IF c = Head(o.batch) THEN how ELSE o.status[c]
  BY <1>2 DEF TaskRecord, CallStatus, OpenCall, SameBatch
<1>4. u = toolCallsUpdate(p)
  OBVIOUS
<1> HIDE DEF p
<1>5. CallsKept(p)
  <2>1. \A c \in ToSet(p.batch) : p.status[c] \in OpenCall
    BY <1>1, <1>2, <1>3 DEF CallsKept
  <2>2. \A c \in ToSet(p.next) : p.status[c] = "none"
    BY <1>1, <1>2, <1>3 DEF CallsKept
  <2>3. o.status[Head(o.batch)] \notin ToolDone
    BY <1>1, <1>2 DEF CallsKept, OpenCall, ToolDone
  <2>4. \A c \in p.completed \cup p.done : p.status[c] \in ToolDone
    BY <1>1, <1>3, <2>3 DEF CallsKept, TaskRecord
  <2> QED BY <1>1, <1>3, <2>1, <2>2, <2>4 DEF CallsKept
<1>6. /\ u \in TaskRecord /\ SameBatch(p, u) /\ CallsKept(u)
      /\ u.state \in {p.state, "input-required"}
      /\ u.pending # {} /\ (Held(p) => Held(u))
  BY <1>3, <1>4, <1>5, Updated
<1>7. BatchFits(u) /\ BatchGoesOn(o, u)
  BY <1>1, <1>3, <1>6 DEF BatchFits, BatchGoesOn, SameBatch, Held
<1> QED BY <1>3, <1>6, <1>7 DEF SchedulerRan

LEMMA ConfirmedRan ==
  ASSUME NEW o \in TaskRecord, BatchFits(o), awaitsAnswer(o), NEW proceeds
  PROVE  SchedulerRan(o, confirmed(o, proceeds))
<1>1. o.batch # <<>>
  BY DEF awaitsAnswer
<1>2. CASE proceeds /\ ~a2aExec[o.owner].aborted
  BY <1>1, <1>2, HeadSet DEF confirmed, OpenCall
<1>3. CASE ~(proceeds /\ ~a2aExec[o.owner].aborted)
  BY <1>1, <1>3, HeadEnded DEF confirmed, ToolDone
<1> QED BY <1>2, <1>3

-------------------------------------------------------------------------------

\* The loop that scheduled the batch still works on it or has crashed; while it
\* waits, or its chain has returned, calls are pending; and the loop whose calls
\* wait behind the batch is still in schedule().
OwnerWaits(o, at) ==
    /\ at \in {"scheduling", "waiting", "ended"}
    /\ at = "scheduling" /\ chainReturned(o) => o.pending # {}
    /\ at = "waiting" => Held(o)
Owned(t) ==
    LET o == a2aTask[t] IN
    /\ o.owner # 0 => a2aExec[o.owner].task = t /\ OwnerWaits(o, a2aExec[o.owner].at)
    /\ o.nextOwner # 0 => a2aExec[o.nextOwner].task = t /\ a2aExec[o.nextOwner].at = "scheduling"

HasTask == LoopAt \cup {"joining", "rested"}

BInv ==
    /\ a2aTask \in [Executions -> TaskRecord]
    /\ \A e \in Executions : a2aExec[e].at \in HasTask => a2aExec[e].task \in Executions
    /\ \A t \in Executions : BatchFits(a2aTask[t]) /\ Owned(t)

\* The executions that task t names stay where they are.
OwnersStay(t) ==
    \A d \in {a2aTask[t].owner, a2aTask[t].nextOwner} \ {0} :
        a2aExec'[d].at = a2aExec[d].at /\ a2aExec'[d].task = a2aExec[d].task

LEMMA OwnedSame ==
  ASSUME NEW t \in Executions, Owned(t), OwnersStay(t), NEW p, a2aTask'[t] = p,
         p.owner = a2aTask[t].owner, p.nextOwner = a2aTask[t].nextOwner,
         p.pending = a2aTask[t].pending, p.waiter = a2aTask[t].waiter,
         p.promise = a2aTask[t].promise, p.batch = a2aTask[t].batch,
         p.status = a2aTask[t].status, p.next = a2aTask[t].next
  PROVE  Owned(t)'
BY DEF Owned, OwnersStay, OwnerWaits, Held, chainReturned, awaitsAnswer

LEMMA OwnedRan ==
  ASSUME BInv, NEW t \in Executions, OwnersStay(t), NEW p, a2aTask'[t] = p,
         SchedulerRan(a2aTask[t], p)
  PROVE  Owned(t)'
<1> DEFINE o == a2aTask[t]
<1>1. Owned(t)
  BY DEF BInv
<1>2. p.owner # 0 => a2aExec'[p.owner].task = t /\ OwnerWaits(p, a2aExec'[p.owner].at)
  <2>1. CASE BatchGoesOn(o, p)
    BY <1>1, <2>1 DEF BatchGoesOn, Owned, OwnersStay, OwnerWaits
  <2>2. CASE BatchReported(o, p)
    <3>1. p.owner = o.nextOwner /\ (p.owner # 0 => p.pending # {})
      BY <2>2 DEF BatchReported
    <3> QED BY <1>1, <3>1 DEF Owned, OwnersStay, OwnerWaits
  <2> QED BY <2>1, <2>2 DEF SchedulerRan
<1>3. p.nextOwner # 0 => a2aExec'[p.nextOwner].task = t /\ a2aExec'[p.nextOwner].at = "scheduling"
  BY <1>1 DEF SchedulerRan, BatchGoesOn, BatchReported, Owned, OwnersStay
<1> QED BY <1>2, <1>3 DEF Owned

\* One task is set, by a step that no batch's owner takes.
LEMMA TaskSet ==
  ASSUME BInv, NEW t \in Executions, NEW p \in TaskRecord, BatchFits(p),
         a2aTask' = [a2aTask EXCEPT ![t] = p], Owned(t)',
         \A s \in Executions : OwnersStay(s),
         \A d \in Executions : a2aExec'[d].at \in HasTask => a2aExec'[d].task \in Executions
  PROVE  BInv'
<1>1. a2aTask' \in [Executions -> TaskRecord] /\ a2aTask'[t] = p
  BY DEF BInv
<1>2. ASSUME NEW s \in Executions, s # t PROVE BatchFits(a2aTask'[s]) /\ Owned(s)'
  <2>1. a2aTask'[s] = a2aTask[s]
    BY <1>2 DEF BInv
  <2>2. Owned(s) /\ BatchFits(a2aTask[s])
    BY DEF BInv
  <2>3. Owned(s)'
    BY <2>1, <2>2, OwnedSame
  <2> QED BY <2>1, <2>2, <2>3
<1> QED BY <1>1, <1>2 DEF BInv

\* The loop takes a step to `at', and its task is set to p.
LoopMoves(e, p, at) ==
    /\ a2aTask' = [a2aTask EXCEPT ![a2aExec[e].task] = p] /\ p \in TaskRecord /\ BatchFits(p)
    /\ a2aExec' = [a2aExec EXCEPT ![e].at = at] /\ at \in ExecAt
    /\ p.nextOwner = 0 \/ (p.nextOwner = e /\ at = "scheduling")
    /\ p.owner \in {a2aTask[a2aExec[e].task].owner, e}
    /\ p.owner = e => OwnerWaits(p, at)

LEMMA LoopSteps ==
  ASSUME OInv, BInv, NEW e \in Executions, a2aExec[e].at \in LoopAt,
         NEW p, NEW at, LoopMoves(e, p, at)
  PROVE  BInv'
<1>0. PICK t \in Executions :
        /\ t = a2aExec[e].task
        /\ a2aTask' = [a2aTask EXCEPT ![t] = p] /\ p \in TaskRecord /\ BatchFits(p)
        /\ a2aExec' = [a2aExec EXCEPT ![e].at = at] /\ at \in ExecAt
        /\ p.nextOwner = 0 \/ (p.nextOwner = e /\ at = "scheduling")
        /\ p.owner \in {a2aTask[t].owner, e}
        /\ p.owner = e => OwnerWaits(p, at)
  BY DEF BInv, LoopMoves, HasTask
<1>1. /\ \A d \in Executions : a2aExec'[d].at = IF d = e THEN at ELSE a2aExec[d].at
      /\ \A d \in Executions : a2aExec'[d].task = a2aExec[d].task
  BY <1>0 DEF OInv, ExecRecord
<1>2. a2aTask' \in [Executions -> TaskRecord] /\ a2aTask'[t] = p
  BY <1>0 DEF BInv
<1>3. 0 \notin Executions /\ p.owner \in Executions \cup {0}
  BY <1>0, A2AAssumption DEF TaskRecord
<1>4. p.owner # 0 => a2aExec'[p.owner].task = t /\ OwnerWaits(p, a2aExec'[p.owner].at)
  <2>1. CASE p.owner = e
    BY <1>0, <1>1, <2>1
  <2>2. CASE p.owner # e /\ p.owner # 0
    <3>1. p.owner = a2aTask[t].owner /\ p.owner \in Executions
      BY <1>0, <1>3, <2>2
    <3>2. a2aExec[p.owner].task = t /\ a2aExec[p.owner].at \in {"scheduling", "waiting", "ended"}
      BY <2>2, <3>1 DEF BInv, Owned, OwnerWaits
    <3>3. a2aExec[p.owner].at = "ended"
      BY <2>2, <3>1, <3>2 DEF OInv, LoopAt
    <3> QED BY <1>1, <2>2, <3>1, <3>2, <3>3 DEF OwnerWaits
  <2> QED BY <2>1, <2>2
<1>5. Owned(t)'
  BY <1>0, <1>1, <1>2, <1>3, <1>4 DEF Owned
<1>6. ASSUME NEW s \in Executions, s # t PROVE BatchFits(a2aTask'[s]) /\ Owned(s)'
  <2>1. a2aTask'[s] = a2aTask[s] /\ a2aTask[s] \in TaskRecord
    BY <1>0, <1>6 DEF BInv
  <2>2. Owned(s) /\ BatchFits(a2aTask[s])
    BY DEF BInv
  <2>3. a2aTask[s].owner \in Executions \cup {0} /\ a2aTask[s].nextOwner \in Executions \cup {0}
    BY <2>1 DEF TaskRecord
  <2>4. OwnersStay(s)
    BY <1>0, <1>1, <1>6, <2>2, <2>3 DEF Owned, OwnersStay
  <2>5. Owned(s)'
    BY <2>1, <2>2, <2>4, OwnedSame
  <2> QED BY <2>1, <2>2, <2>5
<1>7. \A d \in Executions : a2aExec'[d].at \in HasTask => a2aExec'[d].task \in Executions
  BY <1>0, <1>1 DEF BInv
<1> QED BY <1>0, <1>2, <1>5, <1>6, <1>7 DEF BInv

\* What the loop finds.
LEMMA LoopFinds ==
  ASSUME OInv, BInv, NEW e \in Executions, a2aExec[e].at \in LoopAt
  PROVE  /\ a2aExec[e].task \in Executions /\ a2aTask[a2aExec[e].task] \in TaskRecord
         /\ BatchFits(a2aTask[a2aExec[e].task])
         /\ a2aExec[e].at # "scheduling" => /\ a2aTask[a2aExec[e].task].next = <<>>
                                            /\ a2aTask[a2aExec[e].task].nextOwner = 0
         /\ a2aTask[a2aExec[e].task].nextOwner \in {0, e}
         /\ a2aTask[a2aExec[e].task].owner = e
              => OwnerWaits(a2aTask[a2aExec[e].task], a2aExec[e].at)
<1>1. PICK t : t = a2aExec[e].task
  OBVIOUS
<1>2. t \in Executions /\ a2aTask[t] \in TaskRecord /\ BatchFits(a2aTask[t]) /\ Owned(t)
  BY <1>1 DEF BInv, HasTask
<1>3. a2aTask[t].nextOwner \in {0, e} /\ (a2aExec[e].at # "scheduling" => a2aTask[t].nextOwner = 0)
  <2>1. a2aTask[t].nextOwner \in Executions \cup {0}
    BY <1>2 DEF TaskRecord
  <2>2. a2aTask[t].nextOwner # 0 => a2aExec[a2aTask[t].nextOwner].at \in LoopAt
    BY <1>2 DEF Owned, LoopAt
  <2>3. a2aTask[t].nextOwner # 0 => a2aTask[t].nextOwner = e
    BY <2>1, <2>2 DEF OInv
  <2> QED BY <1>2, <2>3 DEF Owned
<1>4. 0 \notin Executions
  BY A2AAssumption
<1> QED BY <1>1, <1>2, <1>3, <1>4 DEF BatchFits, Owned

\* The loop crashes or is aborted; the scheduler goes on with its batch.
LEMMA CatchKeepsBatch ==
  ASSUME OInv, BInv, NEW e \in Executions, a2aExec[e].at \in LoopAt,
         NEW o \in TaskRecord, BatchFits(o), loopCatches(e, o), o.nextOwner = 0,
         o.owner = a2aTask[a2aExec[e].task].owner
  PROVE  BInv'
<1> DEFINE c == cancelPendingTools(o)
           final == IF ~a2aExec[e].aborted THEN "failed"
                    ELSE IF c.state \in FinalState THEN c.state ELSE "input-required"
           p == [[c EXCEPT !.state = final] EXCEPT !.waiter = "none"]
<1>1. /\ a2aTask' = [a2aTask EXCEPT ![a2aExec[e].task] = p]
      /\ a2aExec' = [a2aExec EXCEPT ![e].at = "ended"]
  BY DEF loopCatches, loopEnds
<1> DEFINE q == settlePromise(o, "rejected")
<1>2. q \in TaskRecord /\ SameBatch(o, q) /\ q.state = o.state
  <2>1. q = o \/ q = [o EXCEPT !.promise = "rejected"]
    BY DEF settlePromise
  <2> QED BY <2>1 DEF TaskRecord, SameBatch, Promise
<1>3. c = resetPromise([q EXCEPT !.pending = {}])
  BY DEF cancelPendingTools
<1> HIDE DEF q
<1>4. c \in TaskRecord /\ SameBatch(q, c) /\ c.state = q.state /\ c.pending = {}
  BY <1>2, <1>3 DEF resetPromise, TaskRecord, SameBatch, Promise
<1> HIDE DEF c
<1>5. final \in {"input-required"} \cup FinalState
  BY DEF FinalState
<1> HIDE DEF final
<1>6. p \in TaskRecord /\ SameBatch(o, p) /\ p.pending = {}
  BY <1>2, <1>4, <1>5 DEF TaskRecord, SameBatch
<1> HIDE DEF p
<1>7. BatchFits(p)
  BY <1>6 DEF BatchFits, CallsKept, SameBatch
<1>8. p.owner = e => OwnerWaits(p, "ended")
  BY DEF OwnerWaits
<1>9. a2aExec[e].task \in Executions
  BY DEF BInv, HasTask
<1>10. /\ p.nextOwner = 0 /\ p.owner \in {a2aTask[a2aExec[e].task].owner, e}
       /\ "ended" \in ExecAt
  BY <1>6 DEF ExecAt, SameBatch
<1>11. LoopMoves(e, p, "ended")
  BY <1>1, <1>6, <1>7, <1>8, <1>10 DEF LoopMoves
<1>12. PICK r : LoopMoves(e, r, "ended")
  BY <1>11
<1> QED BY <1>12, LoopSteps

\* The loop goes on with the results of all its calls.
LEMMA AfterWaitKeepsBatch ==
  ASSUME OInv, BInv, NEW e \in Executions, a2aExec[e].at \in LoopAt,
         NEW o, o = a2aTask[a2aExec[e].task], afterWait(e, o),
         o.nextOwner = 0, a2aExec[e].aborted \/ o.owner # e
  PROVE  BInv'
<1>1. o \in TaskRecord /\ BatchFits(o) /\ a2aExec[e].task \in Executions
  BY LoopFinds
<1>2. CASE a2aExec[e].aborted
  <2>1. loopCatches(e, o)
    BY <1>2 DEF afterWait
  <2> QED BY <1>1, <2>1, CatchKeepsBatch
<1>3. CASE ~a2aExec[e].aborted
  <2> DEFINE status == [c \in A2ACalls |-> IF c \in o.completed THEN "done" ELSE o.status[c]]
             cleared == [o EXCEPT !.completed = {}, !.status = status]
  <2>1. PICK at \in {"rested", "stream"}, state \in {"input-required", "working"} :
          /\ a2aTask' = [a2aTask EXCEPT ![a2aExec[e].task] =
                           [cleared EXCEPT !.state = state, !.waiter = "none"]]
          /\ a2aExec' = [a2aExec EXCEPT ![e].at = at]
    <3>1. [o EXCEPT !.completed = {},
              !.status = [c \in A2ACalls |-> IF c \in o.completed THEN "done" ELSE @[c]]] = cleared
      BY <1>1 DEF TaskRecord
    <3>2. [[cleared EXCEPT !.state = "input-required"] EXCEPT !.waiter = "none"]
            = [cleared EXCEPT !.state = "input-required", !.waiter = "none"]
      OBVIOUS
    <3>3. \/ loopEnds(e, [cleared EXCEPT !.state = "input-required"], "rested")
          \/ /\ a2aTask' = [a2aTask EXCEPT ![a2aExec[e].task] =
                                [cleared EXCEPT !.state = "working", !.waiter = "none"]]
             /\ a2aExec' = [a2aExec EXCEPT ![e].at = "stream"]
      BY <1>3, <3>1 DEF afterWait
    <3> HIDE DEF cleared
    <3> QED BY <3>2, <3>3 DEF loopEnds
  <2> DEFINE p == [cleared EXCEPT !.state = state, !.waiter = "none"]
  <2>2. /\ p \in TaskRecord /\ p.batch = o.batch /\ p.next = o.next /\ p.owner = o.owner
        /\ p.nextOwner = 0 /\ p.completed = {} /\ p.done = o.done
        /\ p.pending = o.pending /\ p.promise = o.promise
        /\ \A c \in A2ACalls : p.status[c] = IF c \in o.completed THEN "done" ELSE o.status[c]
    BY <1>1 DEF TaskRecord, CallStatus
  <2> HIDE DEF p
  <2>3. ToSet(o.batch) \subseteq A2ACalls /\ o.next = <<>> /\ o.done \subseteq A2ACalls
    BY <1>1 DEF TaskRecord, ToSet, BatchFits
  <2>4. BatchFits(p)
    <3>1. \A c \in ToSet(p.batch) : p.status[c] \in OpenCall
      BY <1>1, <2>2, <2>3 DEF BatchFits, CallsKept, OpenCall, ToolDone
    <3>2. \A c \in p.completed \cup p.done : p.status[c] \in ToolDone
      BY <1>1, <2>2, <2>3 DEF BatchFits, CallsKept, ToolDone
    <3>3. \A c \in ToSet(p.next) : FALSE
      BY <2>2, <2>3 DEF ToSet
    <3> QED BY <1>1, <2>2, <3>1, <3>2, <3>3 DEF BatchFits, CallsKept
  <2>5. p.owner # e
    BY <1>3, <2>2
  <2>6. at \in ExecAt
    BY <2>1 DEF ExecAt, LoopAt
  <2>7. /\ a2aTask' = [a2aTask EXCEPT ![a2aExec[e].task] = p]
        /\ p.owner \in {a2aTask[a2aExec[e].task].owner, e}
    BY <2>1, <2>2 DEF p
  <2>8. p.owner = e => OwnerWaits(p, at)
    BY <2>5
  <2>9. LoopMoves(e, p, at)
    BY <2>1, <2>2, <2>4, <2>6, <2>7, <2>8 DEF LoopMoves
  <2>10. PICK r : LoopMoves(e, r, at)
    BY <2>9
  <2> QED BY <2>10, LoopSteps
<1> QED BY <1>2, <1>3

LEMMA WaitKeepsBatch ==
  ASSUME OInv, BInv, NEW e \in Executions, WaitForTools(e) \/ WaitEnds(e)
  PROVE  BInv'
<1> DEFINE o == a2aTask[a2aExec[e].task]
<1>0. a2aExec[e].at \in LoopAt
  BY DEF WaitForTools, WaitEnds, LoopAt
<1>1. /\ o \in TaskRecord /\ BatchFits(o) /\ a2aExec[e].task \in Executions
      /\ o.nextOwner \in {0, e} /\ (a2aExec[e].at # "scheduling" => o.nextOwner = 0)
      /\ o.owner = e => OwnerWaits(o, a2aExec[e].at)
  BY <1>0, LoopFinds
<1>2. CASE WaitForTools(e)
  <2>1. a2aExec[e].at \in {"answering", "scheduling"} /\ chainReturned(o)
    BY <1>2 DEF WaitForTools
  <2>2. o.nextOwner = 0
    BY <1>1, <2>1 DEF chainReturned, BatchFits
  <2> DEFINE leaves == a2aExec[e].at = "answering" /\ a2aExec[e].aborted
  <2>5. CASE leaves
    <3>1. loopCatches(e, o)
      BY <1>2, <2>5 DEF WaitForTools
    <3> QED BY <1>0, <1>1, <2>2, <3>1, CatchKeepsBatch
  <2>3. CASE ~leaves /\ o.pending = {}
    <3>1. afterWait(e, o) /\ o.owner # e
      BY <1>1, <1>2, <2>1, <2>3 DEF WaitForTools, OwnerWaits
    <3> QED BY <1>0, <2>2, <3>1, AfterWaitKeepsBatch
  <2>4. CASE ~leaves /\ o.pending # {}
    <3> DEFINE p == [o EXCEPT !.waiter = "current"]
    <3>1. a2aExec' = [a2aExec EXCEPT ![e].at = "waiting"]
      BY <1>2, <2>4 DEF WaitForTools
    <3>2. a2aTask' = [a2aTask EXCEPT ![a2aExec[e].task] = p]
      BY <1>1, <1>2, <2>4 DEF WaitForTools, BInv
    <3>3. /\ p \in TaskRecord /\ SameBatch(o, p) /\ p.pending = o.pending /\ p.promise = o.promise
          /\ p.waiter = "current"
      BY <1>1 DEF TaskRecord, SameBatch
    <3> HIDE DEF p
    <3>4. BatchFits(p) /\ p.promise = "open"
      BY <1>1, <2>4, <3>3 DEF BatchFits, CallsKept, SameBatch
    <3>5. OwnerWaits(p, "waiting")
      BY <3>3, <3>4 DEF OwnerWaits, Held
    <3>6. p.nextOwner = 0 /\ p.owner = o.owner
      BY <2>2, <3>3 DEF SameBatch
    <3>7. "waiting" \in ExecAt
      BY DEF ExecAt, LoopAt
    <3>8. p.owner \in {a2aTask[a2aExec[e].task].owner, e}
      BY <3>6
    <3> HIDE DEF o
    <3>9. LoopMoves(e, p, "waiting")
      BY <3>1, <3>2, <3>3, <3>4, <3>5, <3>6, <3>7, <3>8 DEF LoopMoves
    <3>10. PICK r : LoopMoves(e, r, "waiting")
      BY <3>9
    <3> QED BY <1>0, <3>10, LoopSteps
  <2> QED BY <2>3, <2>4, <2>5
<1>3. CASE WaitEnds(e)
  <2>1. a2aExec[e].at = "waiting" /\ o.nextOwner = 0
    BY <1>1, <1>3 DEF WaitEnds
  <2>2. CASE loopCatches(e, o)
    BY <1>0, <1>1, <2>1, <2>2, CatchKeepsBatch
  <2>3. CASE afterWait(e, o) /\ o.owner # e
    BY <1>0, <2>1, <2>3, AfterWaitKeepsBatch
  <2>4. o.owner = e => Held(o)
    BY <1>1, <2>1 DEF OwnerWaits
  <2>5. loopCatches(e, o) \/ (afterWait(e, o) /\ o.owner # e)
    <3>1. PICK awaited : /\ awaited = IF o.waiter = "current" THEN o.promise ELSE o.waiter
                         /\ awaited # "open"
                         /\ IF awaited = "rejected" THEN loopCatches(e, o) ELSE afterWait(e, o)
      BY <1>3 DEF WaitEnds
    <3>2. o.promise \in {"open", "resolved", "rejected"}
      BY <1>1 DEF TaskRecord, Promise
    <3>3. Held(o) => awaited = "rejected"
      BY <3>1, <3>2 DEF Held
    <3> HIDE DEF o
    <3> QED BY <2>4, <3>1, <3>3
  <2> QED BY <2>2, <2>3, <2>5
<1> QED BY <1>2, <1>3

LEMMA StreamKeepsBatch ==
  ASSUME OInv, BInv, NEW e \in Executions, NEW calls \in CallBatches, StreamEnds(e, calls)
  PROVE  BInv'
<1> DEFINE o == a2aTask[a2aExec[e].task]
<1>0. a2aExec[e].at = "stream" /\ a2aExec[e].at \in LoopAt
  BY DEF StreamEnds, LoopAt
<1>1. /\ o \in TaskRecord /\ BatchFits(o) /\ a2aExec[e].task \in Executions
      /\ o.nextOwner = 0 /\ o.next = <<>>
      /\ o.owner = e => OwnerWaits(o, a2aExec[e].at)
  BY <1>0, LoopFinds
<1>2. o.owner # e
  BY <1>0, <1>1 DEF OwnerWaits
<1>3. /\ calls \in Seq(A2ACalls) /\ IsInjective(calls)
      /\ \A c \in ToSet(calls) : o.status[c] = "none"
  <2>1. ASSUME calls = <<>> \/ \E c \in A2ACalls : calls = <<c>>
        PROVE  calls \in Seq(A2ACalls) /\ IsInjective(calls)
    <3>1. CASE calls = <<>>
      BY <3>1 DEF IsInjective
    <3>2. ASSUME NEW c \in A2ACalls, calls = <<c>> PROVE calls \in Seq(A2ACalls) /\ IsInjective(calls)
      <4>1. DOMAIN calls = {1}
        BY <3>2
      <4>2. IsInjective(calls)
        BY <4>1 DEF IsInjective
      <4> QED BY <3>2, <4>2
    <3> QED BY <2>1, <3>1, <3>2
  <2>2. ASSUME \E c, d \in A2ACalls : calls = <<c, d>> /\ c < d
        PROVE  calls \in Seq(A2ACalls) /\ IsInjective(calls)
    <3>1. PICK c \in A2ACalls, d \in A2ACalls : calls = <<c, d>> /\ c < d
      BY <2>2
    <3>2. c # d
      BY <3>1, A2AAssumption
    <3>3. calls \in Seq(A2ACalls) /\ calls[1] = c /\ calls[2] = d /\ DOMAIN calls = {1, 2}
      BY <3>1
    <3>4. IsInjective(calls)
      BY <3>2, <3>3 DEF IsInjective
    <3> QED BY <3>3, <3>4
  <2>3. calls \in Seq(A2ACalls) /\ IsInjective(calls)
    <3>1. calls = <<>> \/ (\E c \in A2ACalls : calls = <<c>>)
          \/ \E c, d \in A2ACalls : calls = <<c, d>> /\ c < d
      BY DEF CallBatches
    <3> QED BY <2>1, <2>2, <3>1
  <2> QED BY <2>3 DEF StreamEnds
<1>4. a2aExec' = [a2aExec EXCEPT ![e].at = "scheduling"]
  BY DEF StreamEnds
<1> DEFINE w == [o EXCEPT !.state = "working"]
<1>5. PICK p : /\ a2aTask' = [a2aTask EXCEPT ![a2aExec[e].task] = p]
               /\ \/ calls = <<>> /\ p = o
                  \/ calls # <<>> /\ o.batch = <<>> /\ p = begun(w, calls, e)
                  \/ /\ calls # <<>> /\ o.batch # <<>>
                     /\ p = [o EXCEPT !.state = "working", !.next = calls, !.nextOwner = e]
  BY DEF StreamEnds
<1>6. /\ p \in TaskRecord /\ BatchFits(p)
      /\ p.nextOwner \in {0, e} /\ p.owner \in {o.owner, e}
      /\ p.owner = e => OwnerWaits(p, "scheduling")
  <2>1. CASE calls = <<>>
    BY <1>1, <1>2, <1>5, <2>1
  <2>2. CASE calls # <<>> /\ o.batch = <<>>
    <3>1. /\ w \in TaskRecord /\ SameBatch(o, w) /\ w.pending = o.pending /\ w.promise = o.promise
      BY <1>1 DEF TaskRecord, SameBatch
    <3> HIDE DEF w
    <3>2. CallsKept(w)
      BY <1>1, <3>1 DEF BatchFits, CallsKept, SameBatch
    <3>3. \A c \in ToSet(calls) : w.status[c] = "none"
      BY <1>3, <3>1 DEF SameBatch
    <3>4. w.batch = <<>> /\ w.next = <<>> /\ w.nextOwner = 0
      BY <1>1, <2>2, <3>1 DEF SameBatch
    <3>5. p = begun(w, calls, e)
      BY <1>5, <2>2
    <3>6. p \in TaskRecord /\ BatchFits(p) /\ p.owner = e /\ p.nextOwner = 0 /\ p.pending # {}
      BY <1>3, <2>2, <3>1, <3>2, <3>3, <3>4, <3>5, BatchBegun
    <3> QED BY <3>6 DEF OwnerWaits
  <2>3. CASE calls # <<>> /\ o.batch # <<>>
    <3>1. /\ p \in TaskRecord /\ p.batch = o.batch /\ p.next = calls /\ p.nextOwner = e
          /\ p.owner = o.owner /\ p.status = o.status /\ p.completed = o.completed
          /\ p.done = o.done /\ p.pending = o.pending /\ p.promise = o.promise
      BY <1>1, <1>3, <1>5, <2>3 DEF TaskRecord
    <3>2. BatchFits(p)
      BY <1>1, <1>3, <2>3, <3>1, A2AAssumption DEF BatchFits, CallsKept
    <3> QED BY <1>2, <3>1, <3>2
  <2> QED BY <2>1, <2>2, <2>3
<1>7. "scheduling" \in ExecAt
  BY DEF ExecAt, LoopAt
<1>8. LoopMoves(e, p, "scheduling")
  BY <1>4, <1>5, <1>6, <1>7 DEF LoopMoves
<1> QED BY <1>0, <1>8, LoopSteps

\* The scheduler takes a step, or the client answers.
LEMMA SchedulerKeepsBatch ==
  ASSUME OInv, BInv, NEW t \in Executions, NEW p, SchedulerRan(a2aTask[t], p),
         a2aTask' = [a2aTask EXCEPT ![t] = p], a2aExec' = a2aExec
  PROVE  BInv'
<1>1. \A s \in Executions : OwnersStay(s)
  BY DEF OwnersStay
<1>2. a2aTask'[t] = p
  BY DEF BInv
<1>3. Owned(t)'
  BY <1>1, <1>2, OwnedRan
<1>4. p \in TaskRecord /\ BatchFits(p)
  BY DEF SchedulerRan
<1>5. \A d \in Executions : a2aExec'[d].at \in HasTask => a2aExec'[d].task \in Executions
  BY DEF BInv
<1> QED BY <1>1, <1>3, <1>4, <1>5, TaskSet

LEMMA ToolRan ==
  ASSUME BInv, NEW t \in Executions,
         \/ \E how \in {"awaiting", "executing", "done"} : ToolChecked(t, how)
         \/ \E how \in ToolDone : ToolEnds(t, how)
         \/ t = a2aTasks /\ \E proceeds \in BOOLEAN : Answer(proceeds)
  PROVE  \E p : /\ SchedulerRan(a2aTask[t], p) /\ a2aTask' = [a2aTask EXCEPT ![t] = p]
                /\ UNCHANGED <<a2aExec, a2aTasks, executingTask, workingLate>>
<1>1. PICK o : o = a2aTask[t]
  OBVIOUS
<1>2. o \in TaskRecord /\ BatchFits(o)
  BY <1>1 DEF BInv
<1>3. ASSUME NEW how \in {"awaiting", "executing", "done"}, ToolChecked(t, how)
      PROVE  \E p : /\ SchedulerRan(o, p) /\ a2aTask' = [a2aTask EXCEPT ![t] = p]
                    /\ UNCHANGED <<a2aExec, a2aTasks, executingTask, workingLate>>
  <2>1. /\ o.batch # <<>> /\ UNCHANGED <<a2aExec, a2aTasks, executingTask, workingLate>>
        /\ a2aTask' = [a2aTask EXCEPT ![t] =
             IF a2aExec[o.owner].aborted THEN headEnds(o, "cancelled")
             ELSE IF how = "done" THEN headEnds(o, how)
             ELSE toolCallsUpdate([o EXCEPT !.status[Head(o.batch)] = how])]
    BY <1>1, <1>3 DEF ToolChecked
  <2>2. "cancelled" \in ToolDone /\ "done" \in ToolDone
    BY DEF ToolDone
  <2>3. SchedulerRan(o, headEnds(o, "cancelled")) /\ SchedulerRan(o, headEnds(o, "done"))
    BY <1>2, <2>1, <2>2, HeadEnded
  <2>4. how # "done" => SchedulerRan(o, toolCallsUpdate([o EXCEPT !.status[Head(o.batch)] = how]))
    <3>1. how # "done" => how \in OpenCall
      BY DEF OpenCall
    <3> QED BY <1>2, <2>1, <3>1, HeadSet
  <2> QED BY <2>1, <2>3, <2>4
<1>4. ASSUME NEW how \in ToolDone, ToolEnds(t, how)
      PROVE  \E p : /\ SchedulerRan(o, p) /\ a2aTask' = [a2aTask EXCEPT ![t] = p]
                    /\ UNCHANGED <<a2aExec, a2aTasks, executingTask, workingLate>>
  <2>1. /\ o.batch # <<>> /\ UNCHANGED <<a2aExec, a2aTasks, executingTask, workingLate>>
        /\ a2aTask' = [a2aTask EXCEPT ![t] = headEnds(o, how)]
    BY <1>1, <1>4 DEF ToolEnds
  <2>2. SchedulerRan(o, headEnds(o, how))
    BY <1>2, <2>1, HeadEnded
  <2> QED BY <2>1, <2>2
<1>5. ASSUME NEW proceeds \in BOOLEAN, t = a2aTasks, Answer(proceeds)
      PROVE  \E p : /\ SchedulerRan(o, p) /\ a2aTask' = [a2aTask EXCEPT ![t] = p]
                    /\ UNCHANGED <<a2aExec, a2aTasks, executingTask, workingLate>>
  <2>1. /\ awaitsAnswer(o) /\ UNCHANGED <<a2aExec, a2aTasks, executingTask, workingLate>>
        /\ a2aTask' = [a2aTask EXCEPT ![t] = confirmed(o, proceeds)]
    BY <1>1, <1>5 DEF Answer, BInv
  <2>2. SchedulerRan(o, confirmed(o, proceeds))
    BY <1>2, <2>1, ConfirmedRan
  <2> QED BY <2>1, <2>2
<1> QED BY <1>1, <1>3, <1>4, <1>5

\* Execution e enters, to go on at `at': task t takes its message and is p.
Enters(e, t, at, p) ==
    /\ a2aExec' = [a2aExec EXCEPT ![e].at = at, ![e].task = t]
    /\ a2aTask' = [a2aTask EXCEPT ![t] = p]
    /\ \/ p = a2aTask[t] /\ at = "ended" /\ executingTask' = executingTask
          /\ p.state \in FinalState
       \/ p = [a2aTask[t] EXCEPT !.state = "working"] /\ executingTask'
       \/ SchedulerRan(a2aTask[t], p) /\ executingTask'

LEMMA EnterMoves ==
  ASSUME OInv, BInv, NEW e \in Executions, NEW t \in Executions, NEW message \in UserMessages,
         NEW proceeds \in BOOLEAN, enter(e, t, message, proceeds)
  PROVE  \E at \in EnterAt, p \in TaskRecord : Enters(e, t, at, p)
<1>1. PICK o \in TaskRecord : o = a2aTask[t] /\ BatchFits(o)
  BY DEF BInv
<1>2. CASE o.state \in FinalState
  <2>1. /\ a2aExec' = [a2aExec EXCEPT ![e].at = "ended", ![e].task = t]
        /\ a2aTask' = a2aTask /\ executingTask' = executingTask
    BY <1>1, <1>2 DEF enter
  <2>2. a2aTask' = [a2aTask EXCEPT ![t] = o]
    BY <1>1, <2>1 DEF BInv
  <2>3. Enters(e, t, "ended", o)
    BY <1>1, <1>2, <2>1, <2>2 DEF Enters
  <2> QED BY <2>3 DEF EnterAt
<1>3. CASE o.state \notin FinalState
  <2> DEFINE at == IF executingTask THEN joinsAt(message) ELSE runsAt(message)
             p == takenIn(o, message, proceeds)
  <2>1. /\ message = "text" \/ awaitsAnswer(o)
        /\ a2aExec' = [a2aExec EXCEPT ![e].at = at, ![e].task = t]
        /\ a2aTask' = [a2aTask EXCEPT ![t] = p] /\ executingTask' = TRUE
    BY <1>1, <1>3 DEF enter
  <2>2. at \in EnterAt
    BY DEF EnterAt, joinsAt, runsAt, UserMessages
  <2>3. [o EXCEPT !.state = "working"] \in TaskRecord
    BY DEF TaskRecord
  <2>4. message # "text" =>
          SchedulerRan(o, confirmed(o, proceeds)) /\ confirmed(o, proceeds) \in TaskRecord
    BY <1>1, <2>1, ConfirmedRan DEF SchedulerRan
  <2> HIDE DEF at
  <2>5. p = IF message = "text" THEN [o EXCEPT !.state = "working"] ELSE confirmed(o, proceeds)
    BY DEF takenIn
  <2> HIDE DEF p
  <2>6. p \in TaskRecord /\ Enters(e, t, at, p)
    BY <1>1, <2>1, <2>3, <2>4, <2>5 DEF Enters
  <2> QED BY <2>2, <2>6
<1> QED BY <1>2, <1>3

LEMMA EnterKeepsBatch ==
  ASSUME OInv, BInv, NEW e \in Executions, NEW t \in Executions, NEW message \in UserMessages,
         NEW proceeds \in BOOLEAN, enter(e, t, message, proceeds),
         a2aExec[e].at \in {"new", "loading"}
  PROVE  BInv'
<1>0. PICK at \in EnterAt, p \in TaskRecord : Enters(e, t, at, p)
  BY EnterMoves
<1>1. /\ a2aExec' = [a2aExec EXCEPT ![e].at = at, ![e].task = t]
      /\ a2aTask' = [a2aTask EXCEPT ![t] = p]
      /\ \/ p = a2aTask[t] \/ p = [a2aTask[t] EXCEPT !.state = "working"]
         \/ SchedulerRan(a2aTask[t], p)
  BY <1>0 DEF Enters
<1>2. \A d \in Executions : IF d = e THEN a2aExec'[d].at = at /\ a2aExec'[d].task = t
                            ELSE a2aExec'[d] = a2aExec[d]
  BY <1>1 DEF OInv, ExecRecord
<1>3. ASSUME NEW s \in Executions PROVE OwnersStay(s)
  <2>1. Owned(s) /\ a2aTask[s] \in TaskRecord
    BY DEF BInv
  <2>2. a2aTask[s].owner \in Executions \cup {0} /\ a2aTask[s].nextOwner \in Executions \cup {0}
    BY <2>1 DEF TaskRecord
  <2>3. a2aTask[s].owner # e /\ a2aTask[s].nextOwner # e
    BY <2>1, A2AAssumption DEF Owned, OwnerWaits
  <2> QED BY <1>2, <2>2, <2>3 DEF OwnersStay
<1>4. a2aTask'[t] = p /\ Owned(t) /\ BatchFits(a2aTask[t]) /\ a2aTask[t] \in TaskRecord
  BY <1>1 DEF BInv
<1>5. BatchFits(p) /\ Owned(t)'
  <2>1. CASE SchedulerRan(a2aTask[t], p)
    BY <1>3, <1>4, <2>1, OwnedRan DEF SchedulerRan
  <2>2. CASE p = a2aTask[t] \/ p = [a2aTask[t] EXCEPT !.state = "working"]
    <3>1. /\ SameBatch(a2aTask[t], p) /\ p.pending = a2aTask[t].pending
          /\ p.waiter = a2aTask[t].waiter /\ p.promise = a2aTask[t].promise
      BY <1>4, <2>2 DEF TaskRecord, SameBatch
    <3>2. BatchFits(p)
      BY <1>4, <3>1 DEF BatchFits, CallsKept, SameBatch
    <3>3. Owned(t)'
      BY <1>3, <1>4, <3>1, OwnedSame DEF SameBatch
    <3> QED BY <3>2, <3>3
  <2> QED BY <1>1, <2>1, <2>2
<1>6. \A d \in Executions : a2aExec'[d].at \in HasTask => a2aExec'[d].task \in Executions
  BY <1>1, <1>2 DEF BInv
<1> QED BY <1>1, <1>3, <1>5, <1>6, TaskSet

\* The batch of a cancelled task goes on without being pending: the loop's wait
\* ends with an error.
LEMMA CancelKeepsBatch == ASSUME OInv, BInv, CancelTask PROVE BInv'
<1>1. PICK t \in Executions, o \in TaskRecord :
        /\ t = a2aTasks /\ o = a2aTask[t]
        /\ a2aTask' = [a2aTask EXCEPT ![t] = [cancelPendingTools(o) EXCEPT !.state = "canceled"]]
        /\ a2aExec' = a2aExec /\ BatchFits(o) /\ Owned(t)
  BY DEF CancelTask, BInv, OInv
<1> DEFINE q == settlePromise(o, "rejected")
           c == cancelPendingTools(o)
           p == [c EXCEPT !.state = "canceled"]
<1>2. /\ q \in TaskRecord /\ SameBatch(o, q) /\ q.waiter = o.waiter
      /\ q.promise = IF o.promise = "open" THEN "rejected" ELSE o.promise
  <2>1. q = IF o.promise = "open" THEN [o EXCEPT !.promise = "rejected"] ELSE o
    BY DEF settlePromise
  <2> QED BY <2>1 DEF TaskRecord, SameBatch, Promise
<1>3. c = resetPromise([q EXCEPT !.pending = {}])
  BY DEF cancelPendingTools
<1> HIDE DEF q
<1>4. /\ c \in TaskRecord /\ SameBatch(q, c) /\ c.pending = {} /\ c.promise = "resolved"
      /\ c.waiter = IF q.waiter = "current" THEN q.promise ELSE q.waiter
  BY <1>2, <1>3 DEF resetPromise, TaskRecord, SameBatch, Promise
<1> HIDE DEF c
<1>5. /\ p \in TaskRecord /\ SameBatch(o, p) /\ p.pending = {} /\ p.promise = "resolved"
      /\ p.waiter = c.waiter
  BY <1>2, <1>4 DEF TaskRecord, SameBatch, FinalState
<1>6. a2aTask' = [a2aTask EXCEPT ![t] = p]
  BY <1>1 DEF c
<1> HIDE DEF p
<1>7. BatchFits(p)
  BY <1>1, <1>5 DEF BatchFits, CallsKept, SameBatch
<1>8. Held(o) => Held(p)
  <2>1. Held(o) => c.waiter \in {"open", "rejected"}
    BY <1>2, <1>4 DEF Held, TaskRecord, Promise
  <2> QED BY <1>5, <2>1 DEF Held
<1>9. \A s \in Executions : OwnersStay(s)
  BY <1>1 DEF OwnersStay
<1>10. o.owner # 0 /\ a2aExec[o.owner].at = "scheduling" => ~chainReturned(o)
  <2>1. o.owner \in Executions \cup {0}
    BY DEF TaskRecord
  <2> QED BY <1>1, <2>1 DEF CancelTask, chainsAtRest, Owned
<1>11. a2aTask'[t] = p
  BY <1>6 DEF BInv
<1>12. Owned(t)'
  <2>1. p.owner = o.owner /\ p.nextOwner = o.nextOwner /\ (chainReturned(p) => chainReturned(o))
    BY <1>5 DEF SameBatch, chainReturned, awaitsAnswer
  <2> QED BY <1>1, <1>8, <1>10, <1>11, <2>1 DEF Owned, OwnerWaits
<1>13. \A d \in Executions : a2aExec'[d].at \in HasTask => a2aExec'[d].task \in Executions
  BY <1>1 DEF BInv
<1>14. PICK r : r = p
  OBVIOUS
<1> QED BY <1>5, <1>6, <1>7, <1>9, <1>12, <1>13, <1>14, TaskSet

\* The scheduler's batch goes on when what is pending is cancelled.
LEMMA CancelledKeeps ==
  ASSUME NEW o \in TaskRecord, BatchFits(o), NEW p,
         \/ p = cancelPendingTools(o)
         \/ p = [cancelPendingTools(o) EXCEPT !.state = "input-required"]
  PROVE  p \in TaskRecord /\ BatchFits(p) /\ p.owner = o.owner /\ p.nextOwner = o.nextOwner
<1> DEFINE q == settlePromise(o, "rejected")
           c == cancelPendingTools(o)
<1>1. q \in TaskRecord /\ SameBatch(o, q)
  <2>1. q = o \/ q = [o EXCEPT !.promise = "rejected"]
    BY DEF settlePromise
  <2> QED BY <2>1 DEF TaskRecord, SameBatch, Promise
<1>2. c = resetPromise([q EXCEPT !.pending = {}])
  BY DEF cancelPendingTools
<1> HIDE DEF q
<1>3. c \in TaskRecord /\ SameBatch(q, c) /\ c.pending = {}
  BY <1>1, <1>2 DEF resetPromise, TaskRecord, SameBatch, Promise
<1>4. p = c \/ p = [c EXCEPT !.state = "input-required"]
  OBVIOUS
<1> HIDE DEF c
<1>5. p \in TaskRecord /\ SameBatch(o, p) /\ p.pending = {}
  BY <1>1, <1>3, <1>4 DEF TaskRecord, SameBatch
<1>6. BatchFits(p)
  BY <1>5 DEF BatchFits, CallsKept, SameBatch
<1> QED BY <1>5, <1>6 DEF SameBatch

\* An event of the stream, or the end of a confirmation: the loop's task changes,
\* its batch does not.
LEMMA StreamStepKeepsBatch ==
  ASSUME OInv, BInv, NEW e \in Executions, a2aExec[e].at \in {"confirming", "stream"},
         a2aExec' = [a2aExec EXCEPT ![e].at = "stream"],
         NEW p \in TaskRecord, a2aTask' = [a2aTask EXCEPT ![a2aExec[e].task] = p],
         BatchFits(p), p.owner = a2aTask[a2aExec[e].task].owner,
         p.nextOwner = a2aTask[a2aExec[e].task].nextOwner
  PROVE  BInv'
<1>1. a2aExec[e].at \in LoopAt /\ a2aExec[e].at # "scheduling" /\ "stream" \in ExecAt
  BY DEF LoopAt, ExecAt
<1>2. p.nextOwner = 0 /\ p.owner # e
  BY <1>1, LoopFinds DEF OwnerWaits
<1>3. LoopMoves(e, p, "stream")
  BY <1>1, <1>2 DEF LoopMoves
<1>4. PICK at : at = "stream" /\ LoopMoves(e, p, at)
  BY <1>3
<1> QED BY <1>1, <1>4, LoopSteps

LEMMA EventKeepsBatch ==
  ASSUME OInv, BInv, NEW e \in Executions, NEW event, StreamEvent(e, event)
  PROVE  BInv'
<1>1. a2aExec[e].at = "stream" /\ a2aExec[e].at \in LoopAt
  BY DEF StreamEvent, LoopAt
<1>2. PICK t : t = a2aExec[e].task
  OBVIOUS
<1>3. PICK o \in TaskRecord : o = a2aTask[t] /\ BatchFits(o)
  BY <1>1, <1>2, LoopFinds
<1>4. PICK p : /\ a2aTask' = [a2aTask EXCEPT ![t] = p]
               /\ \/ p = cancelPendingTools(o)
                  \/ p = [cancelPendingTools(o) EXCEPT !.state = "input-required"]
  <2>1. a2aTask' = [a2aTask EXCEPT ![t] =
           IF event = "Error" THEN cancelPendingTools(o)
           ELSE [cancelPendingTools(o) EXCEPT !.state = "input-required"]]
    BY <1>2, <1>3 DEF StreamEvent
  <2> QED BY <2>1
<1>5. p \in TaskRecord /\ BatchFits(p) /\ p.owner = o.owner /\ p.nextOwner = o.nextOwner
  BY <1>3, <1>4, CancelledKeeps
<1>6. a2aExec' = [a2aExec EXCEPT ![e].at = "stream"]
  BY <1>1 DEF StreamEvent, OInv, ExecRecord
<1> QED BY <1>1, <1>2, <1>3, <1>4, <1>5, <1>6, StreamStepKeepsBatch

LEMMA MessageKeepsBatch ==
  ASSUME OInv, BInv, NEW e \in Executions, MessageGoesOn(e)
  PROVE  BInv'
<1>1. PICK t \in Executions : t = a2aExec[e].task
  BY DEF MessageGoesOn, BInv, HasTask, LoopAt
<1>2. PICK o \in TaskRecord : o = a2aTask[t] /\ BatchFits(o)
  BY DEF BInv
<1>3. PICK p : p = [o EXCEPT !.state = "working"]
  OBVIOUS
<1>4. a2aTask' = [a2aTask EXCEPT ![t] = p]
  BY <1>1, <1>2, <1>3 DEF MessageGoesOn
<1>5. /\ p \in TaskRecord /\ SameBatch(o, p) /\ p.pending = o.pending
      /\ p.waiter = o.waiter /\ p.promise = o.promise
  BY <1>3 DEF TaskRecord, SameBatch
<1>6. BatchFits(p)
  BY <1>2, <1>5 DEF BatchFits, CallsKept, SameBatch
<1>7. CASE a2aExec[e].at = "confirming"
  <2>1. a2aExec' = [a2aExec EXCEPT ![e].at = "stream"]
    BY <1>7 DEF MessageGoesOn
  <2> QED BY <1>1, <1>2, <1>4, <1>5, <1>6, <1>7, <2>1, StreamStepKeepsBatch DEF SameBatch
<1>8. CASE a2aExec[e].at = "joining"
  <2>1. a2aExec' = [a2aExec EXCEPT ![e].at = "second"]
    BY <1>8 DEF MessageGoesOn
  <2>2. \A d \in Executions : /\ d # e => a2aExec'[d] = a2aExec[d]
                              /\ a2aExec'[d].task = a2aExec[d].task
    BY <2>1 DEF OInv, ExecRecord
  <2>3. ASSUME NEW s \in Executions PROVE OwnersStay(s)
    <3>1. Owned(s) /\ a2aTask[s] \in TaskRecord
      BY DEF BInv
    <3>2. a2aTask[s].owner \in Executions \cup {0} /\ a2aTask[s].nextOwner \in Executions \cup {0}
      BY <3>1 DEF TaskRecord
    <3>3. a2aTask[s].owner # e /\ a2aTask[s].nextOwner # e
      BY <1>8, <3>1, A2AAssumption DEF Owned, OwnerWaits
    <3> QED BY <2>2, <3>2, <3>3 DEF OwnersStay
  <2>4. a2aTask'[t] = p /\ Owned(t)
    BY <1>4 DEF BInv
  <2>5. Owned(t)'
    BY <1>2, <1>5, <2>3, <2>4, OwnedSame DEF SameBatch
  <2>6. \A d \in Executions : a2aExec'[d].at \in HasTask => a2aExec'[d].task \in Executions
    BY <1>1, <2>2 DEF BInv
  <2> QED BY <1>4, <1>5, <1>6, <2>3, <2>5, <2>6, TaskSet
<1> QED BY <1>7, <1>8 DEF MessageGoesOn

\* An execution moves that runs no loop, or a signal is aborted.
LEMMA OutsideKeepsBatch ==
  ASSUME OInv, BInv, a2aTask' = a2aTask,
         \A d \in Executions :
             /\ a2aExec'[d].task = a2aExec[d].task
             /\ \/ a2aExec'[d].at = a2aExec[d].at
                \/ /\ a2aExec[d].at \in {"new", "loading", "second"}
                   /\ a2aExec'[d].at \notin HasTask
  PROVE  BInv'
<1>1. ASSUME NEW t \in Executions PROVE Owned(t)'
  <2>1. Owned(t) /\ a2aTask[t] \in TaskRecord
    BY DEF BInv
  <2>2. a2aTask[t].owner \in Executions \cup {0} /\ a2aTask[t].nextOwner \in Executions \cup {0}
    BY <2>1 DEF TaskRecord
  <2>3. OwnersStay(t)
    BY <2>1, <2>2 DEF Owned, OwnerWaits, OwnersStay
  <2> QED BY <2>1, <2>3, OwnedSame
<1>2. \A d \in Executions : a2aExec'[d].at \in HasTask => a2aExec'[d].task \in Executions
  BY DEF BInv
<1> QED BY <1>1, <1>2 DEF BInv

LEMMA BStep == ASSUME OInv, BInv, [A2ANext]_a2aVars PROVE BInv'
<1>1. ASSUME NEW t \in Executions, NEW p, SchedulerRan(a2aTask[t], p),
             a2aTask' = [a2aTask EXCEPT ![t] = p], a2aExec' = a2aExec
      PROVE  BInv'
  BY <1>1, SchedulerKeepsBatch
<1>2. ASSUME NEW e \in Executions, Loaded(e) PROVE BInv'
  <2>1. enter(e, e, "text", FALSE) /\ a2aExec[e].at \in {"new", "loading"}
    BY <1>2 DEF Loaded
  <2> QED BY <2>1, EnterKeepsBatch DEF UserMessages
<1>3. ASSUME NEW e \in Executions, NEW message \in UserMessages, NEW proceeds \in BOOLEAN,
             Execute(e, message, proceeds)
      PROVE  BInv'
  <2>1. PICK t \in Executions : t = a2aTasks /\ enter(e, t, message, proceeds)
    BY <1>3 DEF Execute, OInv
  <2>2. e >= e /\ (a2aExec[e].at = "new" <=> e >= e)
    BY <1>3, A2AAssumption DEF Execute, arrives
  <2> QED BY <2>1, <2>2, EnterKeepsBatch
<1>4. ASSUME NEW e \in Executions, Load(e) \/ LoadFails(e) \/ SecondEnds(e) PROVE BInv'
  <2>1. e >= e
    BY A2AAssumption
  <2>2. PICK at \in {"loading", "ended"} :
          /\ a2aExec' = [a2aExec EXCEPT ![e].at = at] /\ a2aTask' = a2aTask
          /\ a2aExec[e].at \in {"new", "loading", "second"}
    BY <1>4, <2>1 DEF Load, LoadFails, SecondEnds, arrives
  <2>3. \A d \in Executions :
          /\ a2aExec'[d].task = a2aExec[d].task
          /\ a2aExec'[d].at = IF d = e THEN at ELSE a2aExec[d].at
    BY <2>2 DEF OInv, ExecRecord
  <2>4. at \notin HasTask
    BY DEF HasTask, LoopAt
  <2> QED BY <2>2, <2>3, <2>4, OutsideKeepsBatch
<1>5. ASSUME NEW e \in Executions, ClientEnds(e) PROVE BInv'
  <2>1. a2aExec' = [a2aExec EXCEPT ![e].aborted = TRUE] /\ a2aTask' = a2aTask
    BY <1>5 DEF ClientEnds
  <2>2. \A d \in Executions : a2aExec'[d].task = a2aExec[d].task /\ a2aExec'[d].at = a2aExec[d].at
    BY <2>1 DEF OInv, ExecRecord
  <2> QED BY <2>1, <2>2, OutsideKeepsBatch
<1>6. ASSUME NEW e \in Executions, StreamFails(e) PROVE BInv'
  <2>1. PICK o : o = a2aTask[a2aExec[e].task] /\ loopCatches(e, o) /\ a2aExec[e].at = "stream"
    BY <1>6 DEF StreamFails
  <2>2. a2aExec[e].at \in LoopAt
    BY <2>1 DEF LoopAt
  <2>3. o \in TaskRecord /\ BatchFits(o) /\ o.nextOwner = 0
    BY <2>1, <2>2, LoopFinds
  <2> QED BY <2>1, <2>2, <2>3, CatchKeepsBatch
<1>7. ASSUME NEW e \in Executions, QueuedBatchAborted(e) PROVE BInv'
  <2>1. a2aExec[e].at \in LoopAt
    BY <1>7 DEF QueuedBatchAborted, LoopAt
  <2>2. PICK o : o = a2aTask[a2aExec[e].task] /\ o \in TaskRecord /\ BatchFits(o)
    BY <2>1, LoopFinds
  <2>3. PICK w : w = [o EXCEPT !.next = <<>>, !.nextOwner = 0]
    OBVIOUS
  <2>4. /\ w \in TaskRecord /\ w.next = <<>> /\ w.nextOwner = 0 /\ w.batch = o.batch
        /\ w.owner = o.owner /\ w.status = o.status /\ w.completed = o.completed
        /\ w.done = o.done /\ w.pending = o.pending /\ w.promise = o.promise
    <3>1. <<>> \in Seq(A2ACalls)
      OBVIOUS
    <3>2. w \in TaskRecord
      BY <2>2, <2>3, <3>1 DEF TaskRecord
    <3> QED BY <2>2, <2>3, <3>2 DEF TaskRecord
  <2>5. BatchFits(w)
    <3>1. ToSet(w.next) = {} /\ IsInjective(w.next)
      BY <2>4 DEF ToSet, IsInjective
    <3> QED BY <2>2, <2>4, <3>1 DEF BatchFits, CallsKept
  <2>6. loopCatches(e, w)
    BY <1>7, <2>2, <2>3 DEF QueuedBatchAborted
  <2> QED BY <2>1, <2>2, <2>4, <2>5, <2>6, CatchKeepsBatch
<1>8. ASSUME NEW e \in Executions, A2AStep(e) PROVE BInv'
  <2>1. ASSUME \/ \E how \in {"awaiting", "executing", "done"} : ToolChecked(e, how)
               \/ \E how \in ToolDone : ToolEnds(e, how)
        PROVE  BInv'
    BY <1>1, <2>1, ToolRan
  <2> QED BY <1>2, <1>4, <1>6, <1>7, <1>8, <2>1, WaitKeepsBatch, MessageKeepsBatch DEF A2AStep
<1>9. ASSUME NEW proceeds \in BOOLEAN, Answer(proceeds) PROVE BInv'
  <2>1. PICK t \in Executions : t = a2aTasks
    BY <1>9 DEF Answer, OInv
  <2> QED BY <1>1, <1>9, <2>1, ToolRan
<1>10. ASSUME NEW e \in Executions, NEW calls \in CallBatches, StreamEnds(e, calls) PROVE BInv'
  BY <1>10, StreamKeepsBatch
<1>11. ASSUME UNCHANGED a2aVars PROVE BInv'
  BY <1>11, OutsideKeepsBatch DEF a2aVars
<1> QED BY <1>3, <1>4, <1>5, <1>8, <1>9, <1>10, <1>11, CancelKeepsBatch, EventKeepsBatch DEF A2ANext

-------------------------------------------------------------------------------

LEMMA InitPlaced == ASSUME A2AInit PROVE OInv /\ BInv
<1>1. OInv
  BY DEF A2AInit, OInv, ExecRecord, LoopAt
<1>2. NewTask \in TaskRecord
  BY DEF NewTask, TaskRecord, CallStatus, Promise
<1>3. BatchFits(NewTask)
  BY DEF NewTask, BatchFits, CallsKept, IsInjective, ToSet
<1>4. \A t \in Executions : Owned(t)
  BY DEF A2AInit, NewTask, Owned
<1> QED BY <1>1, <1>2, <1>3, <1>4 DEF A2AInit, BInv, LoopAt, HasTask

\* Whatever is confirmed, cancelled, aborted or queued behind a batch: the loop
\* goes on to the model, or ends its turn, only with all results of its calls
\* (task.ts:183, executor.ts:502).
THEOREM ResultsAreWhole == A2ASpec => []ResultsWhole
<1>1. A2AInit => OInv /\ BInv
  BY InitPlaced
<1>2. OInv /\ BInv /\ [A2ANext]_a2aVars => (OInv /\ BInv)'
  BY OStep, BStep
<1>3. OInv /\ BInv => ResultsWhole
  <2> SUFFICES ASSUME OInv, BInv, NEW e \in Executions, a2aExec[e].at \in {"stream", "rested"}
               PROVE  e \notin {a2aTask[a2aExec[e].task].owner, a2aTask[a2aExec[e].task].nextOwner}
    BY DEF ResultsWhole
  <2>1. PICK t \in Executions : t = a2aExec[e].task /\ Owned(t)
    BY DEF BInv, HasTask, LoopAt
  <2> QED BY <2>1, A2AAssumption DEF Owned, OwnerWaits
<1> QED BY <1>1, <1>2, <1>3, PTL DEF A2ASpec

-------------------------------------------------------------------------------

\* A task that nobody works on is not left working: who leaves the loop says so
\* in the state of the task it worked on, which is the one in memory unless two
\* executions built one; who only joined a loop sets it to "working" at last.
RInv ==
    /\ \A e \in Executions : a2aExec[e].at \in {"new", "loading"} => a2aExec[e].task = 0
    /\ a2aTasks = 0 => \A e \in Executions : a2aExec[e].at \notin LoopAt
    /\ a2aTasks # 0 => a2aExec[a2aTasks].task = a2aTasks
    /\ \/ LoadedTwice
       \/ /\ \A e \in Executions : a2aExec[e].at \in LoopAt => a2aExec[e].task = a2aTasks
          /\ a2aTasks = 0 \/ executingTask \/ workingLate \/ a2aTask[a2aTasks].state # "working"

LoopLeaves(e) ==
    \E p \in TaskRecord, at \in {"ended", "rested"} :
        /\ p.state # "working" /\ a2aTask' = [a2aTask EXCEPT ![a2aExec[e].task] = p]
        /\ a2aExec' = [a2aExec EXCEPT ![e].at = at] /\ executingTask' = FALSE
        /\ a2aTasks' = a2aTasks
LoopStays(e) ==
    \E at \in LoopAt : /\ a2aExec' = [a2aExec EXCEPT ![e].at = at]
                       /\ executingTask' = executingTask /\ a2aTasks' = a2aTasks

LEMMA CancelledRecord ==
  ASSUME NEW o \in TaskRecord PROVE cancelPendingTools(o) \in TaskRecord
<1> DEFINE q == settlePromise(o, "rejected")
<1>1. q \in TaskRecord
  <2>1. q = o \/ q = [o EXCEPT !.promise = "rejected"]
    BY DEF settlePromise
  <2> QED BY <2>1 DEF TaskRecord, Promise
<1>2. cancelPendingTools(o) = resetPromise([q EXCEPT !.pending = {}])
  BY DEF cancelPendingTools
<1> HIDE DEF q
<1> QED BY <1>1, <1>2 DEF resetPromise, TaskRecord, Promise

LEMMA CaughtLeaves ==
  ASSUME NEW e \in Executions, NEW o \in TaskRecord, loopCatches(e, o), a2aTasks' = a2aTasks
  PROVE  LoopLeaves(e)
<1> DEFINE c == cancelPendingTools(o)
           final == IF ~a2aExec[e].aborted THEN "failed"
                    ELSE IF c.state \in FinalState THEN c.state ELSE "input-required"
           p == [[c EXCEPT !.state = final] EXCEPT !.waiter = "none"]
<1>1. /\ a2aTask' = [a2aTask EXCEPT ![a2aExec[e].task] = p]
      /\ a2aExec' = [a2aExec EXCEPT ![e].at = "ended"] /\ executingTask' = FALSE
  BY DEF loopCatches, loopEnds
<1>2. c \in TaskRecord
  BY CancelledRecord
<1> HIDE DEF c
<1>3. final \in {"input-required", "failed", "canceled"}
  BY DEF FinalState
<1> HIDE DEF final
<1>4. p \in TaskRecord /\ p.state = final
  BY <1>2, <1>3 DEF TaskRecord, FinalState
<1> HIDE DEF p
<1>5. p.state # "working"
  BY <1>3, <1>4
<1> QED BY <1>1, <1>4, <1>5 DEF LoopLeaves

LEMMA AfterWaitLeaves ==
  ASSUME OInv, BInv, NEW e \in Executions, a2aExec[e].at \in LoopAt,
         NEW o \in TaskRecord, afterWait(e, o), a2aTasks' = a2aTasks
  PROVE  LoopLeaves(e) \/ LoopStays(e)
<1> DEFINE cleared == [o EXCEPT !.completed = {},
             !.status = [c \in A2ACalls |-> IF c \in o.completed THEN "done" ELSE @[c]]]
           p == [[cleared EXCEPT !.state = "input-required"] EXCEPT !.waiter = "none"]
<1>1. CASE loopCatches(e, o)
  BY <1>1, CaughtLeaves
<1>2. CASE loopEnds(e, [cleared EXCEPT !.state = "input-required"], "rested")
  <2>1. /\ a2aTask' = [a2aTask EXCEPT ![a2aExec[e].task] = p]
        /\ a2aExec' = [a2aExec EXCEPT ![e].at = "rested"] /\ executingTask' = FALSE
    BY <1>2 DEF loopEnds
  <2>2. cleared \in TaskRecord
    BY DEF TaskRecord, CallStatus
  <2> HIDE DEF cleared
  <2>3. p \in TaskRecord /\ p.state = "input-required"
    BY <2>2 DEF TaskRecord
  <2> HIDE DEF p
  <2> QED BY <2>1, <2>3 DEF LoopLeaves
<1>3. CASE a2aExec' = [a2aExec EXCEPT ![e].at = "stream"] /\ executingTask' = executingTask
  BY <1>3 DEF LoopStays, LoopAt
<1> QED BY <1>1, <1>2, <1>3 DEF afterWait

LEMMA LoopLeavesOrStays ==
  ASSUME OInv, BInv, NEW e \in Executions,
         \/ StreamFails(e) \/ QueuedBatchAborted(e) \/ WaitForTools(e) \/ WaitEnds(e)
         \/ \E calls \in CallBatches : StreamEnds(e, calls)
         \/ MessageGoesOn(e) /\ a2aExec[e].at = "confirming"
         \/ \E event \in {"Error", "UserCancelled"} : StreamEvent(e, event)
  PROVE  a2aExec[e].at \in LoopAt /\ (LoopLeaves(e) \/ LoopStays(e))
<1>1. /\ a2aExec[e].at \in LoopAt /\ a2aTasks' = a2aTasks
  BY DEF StreamFails, QueuedBatchAborted, WaitForTools, WaitEnds, StreamEnds, MessageGoesOn,
         StreamEvent, LoopAt
<1>2. PICK o : o = a2aTask[a2aExec[e].task] /\ o \in TaskRecord
  BY <1>1, LoopFinds
<1>3. CASE StreamFails(e)
  BY <1>1, <1>2, <1>3, CaughtLeaves DEF StreamFails
<1>4. CASE QueuedBatchAborted(e)
  <2>1. PICK w : w = [o EXCEPT !.next = <<>>, !.nextOwner = 0]
    OBVIOUS
  <2>2. <<>> \in Seq(A2ACalls)
    OBVIOUS
  <2>3. w \in TaskRecord
    BY <1>2, <2>1, <2>2 DEF TaskRecord
  <2>4. loopCatches(e, w)
    BY <1>2, <1>4, <2>1 DEF QueuedBatchAborted
  <2> QED BY <1>1, <2>3, <2>4, CaughtLeaves
<1>5. CASE WaitForTools(e)
  <2>1. CASE afterWait(e, o)
    BY <1>1, <1>2, <2>1, AfterWaitLeaves
  <2>2. CASE a2aExec' = [a2aExec EXCEPT ![e].at = "waiting"] /\ executingTask' = executingTask
    BY <1>1, <2>2 DEF LoopStays, LoopAt
  <2>3. CASE loopCatches(e, o)
    BY <1>1, <1>2, <2>3, CaughtLeaves
  <2> QED BY <1>2, <1>5, <2>1, <2>2, <2>3 DEF WaitForTools
<1>6. CASE WaitEnds(e)
  <2>1. afterWait(e, o) \/ loopCatches(e, o)
    BY <1>2, <1>6 DEF WaitEnds
  <2> QED BY <1>1, <1>2, <2>1, AfterWaitLeaves, CaughtLeaves
<1>7. CASE \E calls \in CallBatches : StreamEnds(e, calls)
  <2>1. a2aExec' = [a2aExec EXCEPT ![e].at = "scheduling"] /\ executingTask' = executingTask
    BY <1>7 DEF StreamEnds
  <2> QED BY <1>1, <2>1 DEF LoopStays, LoopAt
<1>8. CASE \/ MessageGoesOn(e) /\ a2aExec[e].at = "confirming"
           \/ \E event \in {"Error", "UserCancelled"} : StreamEvent(e, event)
  <2>1. a2aExec' = [a2aExec EXCEPT ![e].at = "stream"] /\ executingTask' = executingTask
    BY <1>8 DEF MessageGoesOn, StreamEvent, OInv, ExecRecord
  <2> QED BY <1>1, <2>1 DEF LoopStays, LoopAt
<1> QED BY <1>1, <1>3, <1>4, <1>5, <1>6, <1>7, <1>8

LEMMA LoopKeepsRest ==
  ASSUME OInv, BInv, RInv, NEW e \in Executions, a2aExec[e].at \in LoopAt,
         LoopLeaves(e) \/ LoopStays(e)
  PROVE  RInv'
<1>0. a2aTasks \in Executions /\ executingTask /\ 0 \notin Executions
  BY A2AAssumption DEF OInv, RInv
<1>1. PICK at \in LoopAt \cup {"ended", "rested"} : a2aExec' = [a2aExec EXCEPT ![e].at = at]
  BY DEF LoopLeaves, LoopStays
<1>2. /\ \A d \in Executions : a2aExec'[d].at = IF d = e THEN at ELSE a2aExec[d].at
      /\ \A d \in Executions : a2aExec'[d].task = a2aExec[d].task
      /\ a2aTasks' = a2aTasks
  <2>1. a2aTasks' = a2aTasks
    BY DEF LoopLeaves, LoopStays
  <2>2. at \in ExecAt
    BY DEF ExecAt
  <2>3. \A d \in Executions : a2aExec'[d].at = IF d = e THEN at ELSE a2aExec[d].at
    BY <1>1, <2>2, ExecPlaced
  <2> QED BY <1>1, <2>1, <2>3 DEF OInv, ExecRecord
<1>3. LoadedTwice => LoadedTwice'
  BY <1>2 DEF LoadedTwice
<1>4. \A d \in Executions : a2aExec'[d].at \in {"new", "loading"} => a2aExec'[d].task = 0
  BY <1>2 DEF RInv, LoopAt
<1>5. CASE ~LoadedTwice
  <2>1. \A d \in Executions : a2aExec'[d].at \in LoopAt => a2aExec'[d].task = a2aTasks'
    BY <1>2, <1>5 DEF RInv
  <2>2. executingTask' \/ a2aTask'[a2aTasks'].state # "working"
    <3>1. CASE LoopStays(e)
      BY <1>0, <3>1 DEF LoopStays
    <3>2. CASE LoopLeaves(e)
      <4>1. a2aExec[e].task = a2aTasks
        BY <1>5 DEF RInv
      <4> QED BY <1>0, <1>2, <3>2, <4>1 DEF LoopLeaves, BInv
    <3> QED BY <3>1, <3>2
  <2> QED BY <1>0, <1>2, <1>4, <2>1, <2>2 DEF RInv
<1> QED BY <1>0, <1>2, <1>3, <1>4, <1>5 DEF RInv

\* Nobody enters and no loop ends; the task in memory is not set to "working".
LEMMA OthersKeepRest ==
  ASSUME OInv, RInv, a2aTasks' = a2aTasks, executingTask' = executingTask,
         workingLate => workingLate',
         \A d \in Executions :
             /\ a2aExec'[d].task = a2aExec[d].task
             /\ a2aExec'[d].at \in LoopAt => a2aExec[d].at \in LoopAt
             /\ a2aExec'[d].at \in {"new", "loading"} => a2aExec[d].at \in {"new", "loading"},
         a2aTasks # 0 => a2aTask'[a2aTasks].state \in {a2aTask[a2aTasks].state} \cup
                                                      {"input-required", "canceled"}
  PROVE  RInv'
<1>1. LoadedTwice => LoadedTwice'
  BY DEF LoadedTwice
<1>2. a2aTasks # 0 => a2aTasks \in Executions
  BY DEF OInv
<1>3. a2aTasks # 0 => a2aExec'[a2aTasks].task = a2aTasks
  BY <1>2 DEF RInv
<1>4. CASE ~LoadedTwice
  BY <1>3, <1>4 DEF RInv
<1> QED BY <1>1, <1>3, <1>4 DEF RInv

\* An execution enters the task in memory, or brings one there.
LEMMA EnterKeepsRest ==
  ASSUME OInv, BInv, RInv, NEW e \in Executions, NEW t \in Executions, NEW message \in UserMessages,
         NEW proceeds \in BOOLEAN, enter(e, t, message, proceeds),
         a2aExec[e].at \in {"new", "loading"}, a2aTasks' = t, t \in {a2aTasks, e}
  PROVE  RInv'
<1>0. a2aExec[e].task = 0 /\ 0 \notin Executions
  BY A2AAssumption DEF RInv
<1>1. PICK at \in EnterAt, p \in TaskRecord : Enters(e, t, at, p)
  BY EnterMoves
<1>2. /\ a2aExec' = [a2aExec EXCEPT ![e].at = at, ![e].task = t]
      /\ a2aTask' = [a2aTask EXCEPT ![t] = p]
      /\ (at = "ended" /\ p.state \in FinalState) \/ executingTask'
  BY <1>1 DEF Enters
<1>3. \A d \in Executions : IF d = e THEN a2aExec'[d].at = at /\ a2aExec'[d].task = t
                            ELSE a2aExec'[d] = a2aExec[d]
  BY <1>2 DEF OInv, ExecRecord
<1>4. LoadedTwice => LoadedTwice'
  BY <1>0, <1>3 DEF LoadedTwice
<1>5. a2aExec'[t].task = t
  BY <1>0, <1>3 DEF RInv
<1>6. \A d \in Executions : a2aExec'[d].at \in {"new", "loading"} => a2aExec'[d].task = 0
  BY <1>3 DEF RInv, EnterAt
<1>7. executingTask' \/ a2aTask'[t].state # "working"
  BY <1>2 DEF BInv, FinalState
<1>8. CASE t = a2aTasks /\ ~LoadedTwice
  <2>1. \A d \in Executions : a2aExec'[d].at \in LoopAt => a2aExec'[d].task = t
    BY <1>0, <1>3, <1>8 DEF RInv
  <2> QED BY <1>0, <1>5, <1>6, <1>7, <2>1 DEF RInv
<1>9. CASE t = e /\ t # a2aTasks
  <2>1. CASE a2aTasks = 0
    <3>1. \A d \in Executions : a2aExec'[d].at \in LoopAt => a2aExec'[d].task = t
      BY <1>3, <2>1 DEF RInv
    <3> QED BY <1>0, <1>5, <1>6, <1>7, <3>1 DEF RInv
  <2>2. CASE a2aTasks # 0
    <3>1. a2aTasks \in Executions /\ a2aExec[a2aTasks].task = a2aTasks
      BY <2>2 DEF OInv, RInv
    <3>2. LoadedTwice'
      BY <1>0, <1>3, <1>5, <1>9, <3>1 DEF LoadedTwice
    <3> QED BY <1>0, <1>5, <1>6, <3>2 DEF RInv
  <2> QED BY <2>1, <2>2
<1> QED BY <1>0, <1>4, <1>5, <1>6, <1>8, <1>9 DEF RInv

LEMMA RStep == ASSUME OInv, BInv, RInv, [A2ANext]_a2aVars PROVE RInv'
<1>1. ASSUME NEW t \in Executions,
             \/ \E how \in {"awaiting", "executing", "done"} : ToolChecked(t, how)
             \/ \E how \in ToolDone : ToolEnds(t, how)
             \/ t = a2aTasks /\ \E proceeds \in BOOLEAN : Answer(proceeds)
      PROVE  RInv'
  <2>1. PICK p : /\ SchedulerRan(a2aTask[t], p) /\ a2aTask' = [a2aTask EXCEPT ![t] = p]
                 /\ UNCHANGED <<a2aExec, a2aTasks, executingTask, workingLate>>
    BY <1>1, ToolRan
  <2>2. a2aTasks # 0 => a2aTask'[a2aTasks].state \in {a2aTask[a2aTasks].state, "input-required"}
    BY <2>1 DEF BInv, OInv, SchedulerRan
  <2> QED BY <2>1, <2>2, OthersKeepRest
<1>2. ASSUME NEW e \in Executions, Loaded(e) PROVE RInv'
  <2>1. enter(e, e, "text", FALSE) /\ a2aExec[e].at \in {"new", "loading"} /\ a2aTasks' = e
    BY <1>2 DEF Loaded
  <2> QED BY <2>1, EnterKeepsRest DEF UserMessages
<1>3. ASSUME NEW e \in Executions, NEW message \in UserMessages, NEW proceeds \in BOOLEAN,
             Execute(e, message, proceeds)
      PROVE  RInv'
  <2>1. PICK t \in Executions : t = a2aTasks /\ enter(e, t, message, proceeds) /\ a2aTasks' = t
    BY <1>3 DEF Execute, OInv
  <2>2. e >= e /\ (a2aExec[e].at = "new" <=> e >= e)
    BY <1>3, A2AAssumption DEF Execute, arrives
  <2> QED BY <2>1, <2>2, EnterKeepsRest
<1>4. ASSUME NEW e \in Executions, Load(e) \/ LoadFails(e) \/ SecondEnds(e) PROVE RInv'
  <2>1. e >= e
    BY A2AAssumption
  <2>2. \/ a2aExec[e].at = "new" /\ a2aExec' = [a2aExec EXCEPT ![e].at = "loading"]
        \/ a2aExec' = [a2aExec EXCEPT ![e].at = "ended"]
    BY <1>4, <2>1 DEF Load, LoadFails, SecondEnds, arrives
  <2>3. /\ a2aTask' = a2aTask /\ a2aTasks' = a2aTasks /\ executingTask' = executingTask
        /\ workingLate' = workingLate
    BY <1>4 DEF Load, LoadFails, SecondEnds
  <2>4. \A d \in Executions :
          /\ a2aExec'[d].task = a2aExec[d].task
          /\ a2aExec'[d].at \in LoopAt => a2aExec[d].at \in LoopAt
          /\ a2aExec'[d].at \in {"new", "loading"} => a2aExec[d].at \in {"new", "loading"}
    BY <2>2 DEF OInv, ExecRecord, LoopAt
  <2> QED BY <2>3, <2>4, OthersKeepRest
<1>5. ASSUME NEW e \in Executions, ClientEnds(e) PROVE RInv'
  <2>1. /\ a2aExec' = [a2aExec EXCEPT ![e].aborted = TRUE]
        /\ a2aTask' = a2aTask /\ a2aTasks' = a2aTasks /\ executingTask' = executingTask
        /\ workingLate' = workingLate
    BY <1>5 DEF ClientEnds
  <2>2. \A d \in Executions : a2aExec'[d].task = a2aExec[d].task /\ a2aExec'[d].at = a2aExec[d].at
    BY <2>1 DEF OInv, ExecRecord
  <2> QED BY <2>1, <2>2, OthersKeepRest
<1>6. ASSUME NEW e \in Executions,
             \/ StreamFails(e) \/ QueuedBatchAborted(e) \/ WaitForTools(e) \/ WaitEnds(e)
             \/ \E calls \in CallBatches : StreamEnds(e, calls)
             \/ MessageGoesOn(e) /\ a2aExec[e].at = "confirming"
             \/ \E event \in {"Error", "UserCancelled"} : StreamEvent(e, event)
      PROVE  RInv'
  BY <1>6, LoopLeavesOrStays, LoopKeepsRest
<1>7. ASSUME CancelTask PROVE RInv'
  <2>1. /\ a2aExec' = a2aExec /\ a2aTasks' = a2aTasks /\ executingTask' = executingTask
        /\ workingLate' = workingLate
        /\ a2aTask' = [a2aTask EXCEPT ![a2aTasks] = [cancelPendingTools(@) EXCEPT !.state = "canceled"]]
        /\ a2aTasks \in Executions
    BY <1>7 DEF CancelTask, OInv
  <2>2. PICK c \in TaskRecord : c = cancelPendingTools(a2aTask[a2aTasks])
    <3>1. PICK o \in TaskRecord : o = a2aTask[a2aTasks]
      BY <2>1 DEF BInv
    <3> QED BY <3>1, CancelledRecord
  <2>3. a2aTask'[a2aTasks] = [c EXCEPT !.state = "canceled"]
    BY <2>1, <2>2 DEF BInv
  <2>4. a2aTask'[a2aTasks].state = "canceled"
    BY <2>3 DEF TaskRecord
  <2> QED BY <2>1, <2>4, OthersKeepRest
<1>8. ASSUME UNCHANGED a2aVars PROVE RInv'
  BY <1>8, OthersKeepRest DEF a2aVars
<1>11. ASSUME NEW e \in Executions, MessageGoesOn(e), a2aExec[e].at = "joining" PROVE RInv'
  <2>1. /\ a2aExec' = [a2aExec EXCEPT ![e].at = "second"] /\ a2aTasks' = a2aTasks
        /\ executingTask' \/ workingLate'
    BY <1>11 DEF MessageGoesOn
  <2>2. \A d \in Executions :
          /\ a2aExec'[d].task = a2aExec[d].task
          /\ a2aExec'[d].at \in LoopAt => a2aExec[d].at \in LoopAt
          /\ a2aExec'[d].at \in {"new", "loading"} => a2aExec[d].at \in {"new", "loading"}
    BY <2>1 DEF OInv, ExecRecord, LoopAt
  <2>3. LoadedTwice => LoadedTwice'
    BY <2>2 DEF LoadedTwice
  <2>4. a2aTasks # 0 => a2aTasks \in Executions
    BY DEF OInv
  <2>5. a2aTasks # 0 => a2aExec'[a2aTasks].task = a2aTasks
    BY <2>2, <2>4 DEF RInv
  <2> QED BY <2>1, <2>2, <2>3, <2>5 DEF RInv
<1>9. ASSUME NEW e \in Executions, A2AStep(e) PROVE RInv'
  <2>1. CASE MessageGoesOn(e)
    BY <1>6, <1>11, <2>1 DEF MessageGoesOn
  <2> QED BY <1>1, <1>2, <1>4, <1>6, <1>9, <2>1 DEF A2AStep
<1>10. ASSUME NEW proceeds \in BOOLEAN, Answer(proceeds) PROVE RInv'
  <2>1. PICK t \in Executions : t = a2aTasks
    BY <1>10 DEF Answer, OInv
  <2> QED BY <1>1, <1>10, <2>1
<1> QED BY <1>3, <1>4, <1>5, <1>6, <1>7, <1>8, <1>9, <1>10 DEF A2ANext

\* A task is not left working when nobody works on it, whatever fails, is
\* aborted or joins, unless two executions loaded it, or the text of a message
\* followed its answer when the loop it had joined was over (executor.ts:569,
\* :589, task.ts:963).
THEOREM TasksLeftAtRest == A2ASpec => []LeftAtRest
<1>1. A2AInit => OInv /\ BInv /\ RInv
  <2> SUFFICES ASSUME A2AInit PROVE RInv
    BY InitPlaced
  <2> QED BY DEF A2AInit, RInv, LoopAt
<1>2. OInv /\ BInv /\ RInv /\ [A2ANext]_a2aVars => (OInv /\ BInv /\ RInv)'
  BY OStep, BStep, RStep
<1>3. RInv => LeftAtRest
  BY DEF RInv, LeftAtRest
<1> QED BY <1>1, <1>2, <1>3, PTL DEF A2ASpec

-------------------------------------------------------------------------------
\* The types of a task, of its executions and of the map that keeps it.
A2AInv == OInv /\ BInv /\ executingTask \in BOOLEAN /\ workingLate \in BOOLEAN

LEMMA A2AInvariant ==
  /\ A2AInit => A2AInv
  /\ A2AInv /\ [A2ANext]_a2aVars => A2AInv'
  /\ A2AInv => A2ATypeOK
<1>1. A2AInit => A2AInv
  BY InitPlaced DEF A2AInit, A2AInv
<1>2. ASSUME A2AInv, [A2ANext]_a2aVars PROVE A2AInv'
  <2>1. OInv' /\ BInv'
    BY <1>2, OStep, BStep DEF A2AInv
  <2>2. executingTask' = executingTask \/ executingTask' \in BOOLEAN
    <3>1. ASSUME NEW e, NEW o, afterWait(e, o) PROVE executingTask' \in BOOLEAN \/ UNCHANGED executingTask
      BY <3>1 DEF afterWait, loopCatches, loopEnds
    <3>2. ASSUME NEW e, NEW t, NEW message, NEW proceeds, enter(e, t, message, proceeds)
          PROVE executingTask' \in BOOLEAN \/ UNCHANGED executingTask
      BY <3>2 DEF enter
    <3>3. ASSUME NEW e, A2AStep(e) PROVE executingTask' \in BOOLEAN \/ UNCHANGED executingTask
      <4>1. CASE WaitForTools(e) \/ WaitEnds(e)
        BY <3>1, <4>1 DEF WaitForTools, WaitEnds, loopCatches, loopEnds
      <4>2. CASE Loaded(e)
        BY <3>2, <4>2 DEF Loaded
      <4>3. CASE StreamFails(e) \/ QueuedBatchAborted(e)
        BY <4>3 DEF StreamFails, QueuedBatchAborted, loopCatches, loopEnds
      <4>4. CASE ~(WaitForTools(e) \/ WaitEnds(e) \/ Loaded(e) \/ StreamFails(e) \/ QueuedBatchAborted(e))
        BY <3>3, <4>4 DEF A2AStep, SecondEnds, ToolChecked, ToolEnds, MessageGoesOn
      <4> QED BY <4>1, <4>2, <4>3, <4>4
    <3>4. CASE \/ CancelTask \/ \E proceeds \in BOOLEAN : Answer(proceeds)
               \/ \E e \in Executions : Load(e) \/ LoadFails(e) \/ ClientEnds(e)
               \/ \E e \in Executions, calls \in CallBatches : StreamEnds(e, calls)
               \/ \E e \in Executions, event \in {"Error", "UserCancelled"} : StreamEvent(e, event)
               \/ UNCHANGED a2aVars
      BY <3>4 DEF CancelTask, Answer, Load, LoadFails, ClientEnds, StreamEnds, StreamEvent, a2aVars
    <3>5. ASSUME NEW e \in Executions, NEW message \in UserMessages, NEW proceeds \in BOOLEAN, Execute(e, message, proceeds)
          PROVE executingTask' \in BOOLEAN \/ UNCHANGED executingTask
      BY <3>2, <3>5 DEF Execute
    <3> QED BY <1>2, <3>3, <3>4, <3>5 DEF A2ANext
  <2>3. workingLate' \in BOOLEAN
    <3>1. workingLate \in BOOLEAN
      BY <1>2 DEF A2AInv
    <3>2. ASSUME NEW e, A2AStep(e) PROVE workingLate' \in BOOLEAN \/ UNCHANGED workingLate
      BY <3>1, <3>2 DEF A2AStep, Loaded, enter, StreamFails, SecondEnds, WaitForTools,
           QueuedBatchAborted, WaitEnds, MessageGoesOn, ToolChecked, ToolEnds
    <3>3. ASSUME NEW e, NEW message, NEW proceeds, Execute(e, message, proceeds)
          PROVE workingLate' \in BOOLEAN \/ UNCHANGED workingLate
      BY <3>3 DEF Execute, enter
    <3>4. CASE CancelTask \/ (\E proceeds \in BOOLEAN : Answer(proceeds)) \/ UNCHANGED a2aVars
      BY <3>1, <3>4 DEF CancelTask, Answer, a2aVars
    <3>5. ASSUME NEW e \in Executions,
                 \/ Load(e) \/ LoadFails(e) \/ ClientEnds(e)
                 \/ \E calls \in CallBatches : StreamEnds(e, calls)
                 \/ \E event \in {"Error", "UserCancelled"} : StreamEvent(e, event)
          PROVE workingLate' = workingLate
      BY <3>5 DEF Load, LoadFails, ClientEnds, StreamEnds, StreamEvent
    <3> QED BY <1>2, <3>1, <3>2, <3>3, <3>4, <3>5 DEF A2ANext
  <2> QED BY <1>2, <2>1, <2>2, <2>3 DEF A2AInv
<1>3. A2AInv => A2ATypeOK
  BY DEF A2AInv, OInv, BInv, A2ATypeOK, ExecRecord, TaskRecord
<1> QED BY <1>1, <1>2, <1>3

\* The types of what the server keeps, for any messages and tool calls
\* (task.ts:64, executor.ts:83).
THEOREM A2ATypeCorrect == A2ASpec => []A2ATypeOK
BY A2AInvariant, PTL DEF A2ASpec

-------------------------------------------------------------------------------
(* ToolApproval: the handlers on the bus *)

ApprovalRecord == [at: {"new", "first", "bus", "asked", "runs", "refused"},
                   command: Commands \cup {NoCommand}, asked: BOOLEAN, aborted: BOOLEAN]

PInv ==
    /\ \A k \in Approvals : k \in busListeners <=> approval[k].at = "bus"
    /\ busListeners \subseteq Approvals
    /\ approval \in [Approvals -> ApprovalRecord]

\* A call moves on, and its handler with it.
LEMMA ApprovalMoves ==
  ASSUME PInv, NEW k \in Approvals, NEW r \in ApprovalRecord,
         approval' = [approval EXCEPT ![k] = r],
         \/ busListeners' = busListeners \cup {k} /\ r.at = "bus"
         \/ busListeners' = busListeners \ {k} /\ r.at # "bus"
         \/ busListeners' = busListeners /\ (r.at = "bus" <=> approval[k].at = "bus")
  PROVE  PInv'
<1>1. approval' \in [Approvals -> ApprovalRecord]
  BY DEF PInv
<1>2. \A j \in Approvals : approval'[j] = IF j = k THEN r ELSE approval[j]
  BY DEF PInv
<1> QED BY <1>1, <1>2 DEF PInv

\* A record of a call stays one.
LEMMA RefusedRecord ==
  ASSUME NEW a \in ApprovalRecord
  PROVE  refused(a) \in ApprovalRecord /\ refused(a).at = "refused"
<1> DEFINE b == [a EXCEPT !.at = "refused"]
           c == [b EXCEPT !.command = NoCommand]
<1>1. refused(a) = [c EXCEPT !.aborted = FALSE]
  BY DEF refused
<1>2. b \in ApprovalRecord /\ b.at = "refused"
  BY DEF ApprovalRecord
<1> HIDE DEF b
<1>3. c \in ApprovalRecord /\ c.at = "refused"
  BY <1>2 DEF ApprovalRecord
<1> HIDE DEF c
<1> QED BY <1>1, <1>3 DEF ApprovalRecord

\* What a decision makes of a call: never one that waits for the bus, unless
\* that is what comes next.
LEMMA DecidedRecord ==
  ASSUME PInv, NEW k \in Approvals, NEW decision, NEW next \in {"bus", "refused", "asked"},
         decided(k, decision, next)
  PROVE  \E r \in ApprovalRecord :
           /\ approval' = [approval EXCEPT ![k] = r]
           /\ r.at = "bus" <=> (decision \notin {"ALLOW", "DENY"} /\ next = "bus")
<1> DEFINE a == approval[k]
<1>0. a \in ApprovalRecord
  BY DEF PInv
<1> HIDE DEF a
<1>1. CASE decision = "ALLOW"
  <2> DEFINE b == [a EXCEPT !.at = "runs"]
             r == [b EXCEPT !.aborted = FALSE]
  <2>1. approval' = [approval EXCEPT ![k] = r]
    BY <1>1 DEF decided, a
  <2>2. b \in ApprovalRecord /\ b.at = "runs"
    BY <1>0 DEF ApprovalRecord
  <2> HIDE DEF b
  <2>3. r \in ApprovalRecord /\ r.at = "runs"
    BY <2>2 DEF ApprovalRecord
  <2> QED BY <1>1, <2>1, <2>3
<1>2. CASE decision = "DENY"
  <2>1. approval' = [approval EXCEPT ![k] = refused(a)]
    BY <1>2 DEF decided, a
  <2> QED BY <1>0, <1>2, <2>1, RefusedRecord
<1>3. CASE decision \notin {"ALLOW", "DENY"} /\ next = "refused"
  <2>1. approval' = [approval EXCEPT ![k] = refused(a)]
    BY <1>3 DEF decided, a
  <2> QED BY <1>0, <1>3, <2>1, RefusedRecord
<1>4. CASE decision \notin {"ALLOW", "DENY"} /\ next # "refused"
  <2> DEFINE r == [a EXCEPT !.at = next]
  <2>1. approval' = [approval EXCEPT ![k] = r]
    BY <1>4 DEF decided, a
  <2>2. r \in ApprovalRecord /\ r.at = next
    BY <1>0 DEF ApprovalRecord
  <2> QED BY <1>4, <2>1, <2>2
<1> QED BY <1>1, <1>2, <1>3, <1>4

LEMMA PStep == ASSUME PInv, [ApprovalNext]_approvalVars PROVE PInv'
<1>0. approval \in [Approvals -> ApprovalRecord]
  BY DEF PInv
<1>1. ASSUME UNCHANGED <<approval, busListeners>> PROVE PInv'
  BY <1>1 DEF PInv
<1>2. ASSUME NEW k \in Approvals, NEW checker \in Decisions, FirstChecked(k, checker) PROVE PInv'
  <2>1. approval[k].at = "first"
    BY <1>2 DEF FirstChecked
  <2>2. CASE checkedAs(k, checker) = "ASK_USER" /\ ~approval[k].aborted
    <3>1. decided(k, "ASK_USER", "bus") /\ busListeners' = busListeners \cup {k}
      BY <1>2, <2>2 DEF FirstChecked
    <3> QED BY <3>1, DecidedRecord, ApprovalMoves
  <2>3. CASE ~(checkedAs(k, checker) = "ASK_USER" /\ ~approval[k].aborted)
    <3>1. decided(k, checkedAs(k, checker), "refused") /\ busListeners' = busListeners
      BY <1>2, <2>3 DEF FirstChecked
    <3>2. PICK r \in ApprovalRecord : approval' = [approval EXCEPT ![k] = r] /\ r.at # "bus"
      BY <3>1, DecidedRecord
    <3> QED BY <2>1, <3>1, <3>2, ApprovalMoves
  <2> QED BY <2>2, <2>3
<1>3. ASSUME NEW k \in Approvals, NEW checker \in Decisions, Responds(k, checker) PROVE PInv'
  <2>1. CASE k \in busListeners
    <3>1. decided(k, checkedAs(k, checker), "asked") /\ busListeners' = busListeners \ {k}
      BY <1>3, <2>1 DEF Responds
    <3>2. PICK r \in ApprovalRecord : approval' = [approval EXCEPT ![k] = r] /\ r.at # "bus"
      BY <3>1, DecidedRecord
    <3> QED BY <3>1, <3>2, ApprovalMoves
  <2>2. CASE k \notin busListeners
    <3>1. approval' = approval /\ busListeners' = busListeners
      BY <1>3, <2>2 DEF Responds
    <3> QED BY <1>1, <3>1
  <2> QED BY <2>1, <2>2
<1>4. ASSUME NEW k \in Approvals, BusTimeout(k) PROVE PInv'
  <2> DEFINE a == approval[k]
             r == [a EXCEPT !.at = "asked"]
  <2>1. approval' = [approval EXCEPT ![k] = r] /\ busListeners' = busListeners \ {k}
    BY <1>4 DEF BusTimeout
  <2>2. r \in ApprovalRecord /\ r.at = "asked"
    BY <1>0 DEF ApprovalRecord
  <2> HIDE DEF r
  <2> QED BY <2>1, <2>2, ApprovalMoves
<1>5. ASSUME NEW k \in Approvals, AbortApproval(k) PROVE PInv'
  <2> DEFINE a == approval[k]
             r == IF a.at = "bus" THEN refused(a) ELSE [a EXCEPT !.aborted = TRUE]
  <2>1. /\ approval' = [approval EXCEPT ![k] = r] /\ busListeners' = busListeners \ {k}
        /\ a.at \in {"first", "bus"} /\ a \in ApprovalRecord
    BY <1>0, <1>5 DEF AbortApproval
  <2> HIDE DEF a
  <2>2. r \in ApprovalRecord /\ r.at # "bus"
    <3>1. CASE a.at = "bus"
      BY <2>1, <3>1, RefusedRecord
    <3>2. CASE a.at # "bus"
      BY <2>1, <3>2 DEF ApprovalRecord
    <3> QED BY <3>1, <3>2
  <2> HIDE DEF r
  <2> QED BY <2>1, <2>2, ApprovalMoves
<1>6. ASSUME NEW k \in Approvals, NEW outcome, AnswerApproval(k, outcome) PROVE PInv'
  <2> DEFINE a == approval[k]
             b == [a EXCEPT !.asked = TRUE]
             r == IF outcome = "cancel" THEN refused(a) ELSE [b EXCEPT !.at = "runs"]
  <2>1. /\ approval' = [approval EXCEPT ![k] = r] /\ busListeners' = busListeners
        /\ a.at = "asked" /\ a \in ApprovalRecord
    BY <1>0, <1>6 DEF AnswerApproval
  <2>2. approval[k].at = "asked"
    BY <2>1
  <2> HIDE DEF a
  <2>3. b \in ApprovalRecord
    BY <2>1 DEF ApprovalRecord
  <2> HIDE DEF b
  <2>4. r \in ApprovalRecord /\ r.at # "bus"
    <3>1. CASE outcome = "cancel"
      BY <2>1, <3>1, RefusedRecord
    <3>2. CASE outcome # "cancel"
      BY <2>3, <3>2 DEF ApprovalRecord
    <3> QED BY <3>1, <3>2
  <2> HIDE DEF r
  <2> QED BY <2>1, <2>2, <2>4, ApprovalMoves
<1>7. ASSUME NEW k \in Approvals, NEW c \in Asked, Decide(k, c) PROVE PInv'
  <2> DEFINE a == approval[k]
             b == [a EXCEPT !.at = "first"]
             r == [b EXCEPT !.command = c]
  <2>1. /\ approval' = [approval EXCEPT ![k] = r] /\ busListeners' = busListeners
        /\ approval[k].at = "new" /\ a \in ApprovalRecord /\ c \in Commands
    BY <1>0, <1>7, ApprovalAssumption DEF Decide
  <2> HIDE DEF a
  <2>2. b \in ApprovalRecord /\ b.at = "first"
    BY <2>1 DEF ApprovalRecord
  <2> HIDE DEF b
  <2>3. r \in ApprovalRecord /\ r.at = "first"
    BY <2>1, <2>2 DEF ApprovalRecord
  <2> HIDE DEF r
  <2> QED BY <2>1, <2>3, ApprovalMoves
<1>8. ASSUME NEW k \in Approvals, NEW checker \in Decisions, CheckPart(k, checker) PROVE PInv'
  BY <1>1, <1>8 DEF CheckPart
<1>9. ASSUME NEW k \in Approvals, PublishFails(k) PROVE PInv'
  BY <1>1, <1>9 DEF PublishFails
<1>10. ASSUME NEW mode, setApprovalMode(mode) PROVE PInv'
  BY <1>1, <1>10 DEF setApprovalMode
<1>11. CASE UNCHANGED approvalVars
  BY <1>1, <1>11 DEF approvalVars
<1>12. ASSUME NEW k \in Approvals, ApprovalStep(k) PROVE PInv'
  BY <1>2, <1>3, <1>4, <1>8, <1>12 DEF ApprovalStep
<1> QED BY <1>5, <1>6, <1>7, <1>9, <1>10, <1>11, <1>12 DEF ApprovalNext

\* A response handler is subscribed just as long as its tool waits for the
\* bus, for any number of calls and whatever they are about (tools.ts:202).
THEOREM HandlersOnlyWait == ApprovalSpec => []HandlersWait
<1>1. ApprovalInit => PInv
  BY DEF ApprovalInit, PInv, ApprovalRecord
<1>2. PInv /\ [ApprovalNext]_approvalVars => PInv'
  BY PStep
<1>3. PInv => HandlersWait
  BY DEF PInv, HandlersWait
<1> QED BY <1>1, <1>2, <1>3, PTL DEF ApprovalSpec

(* What runs is granted. *)

CheckRecord == [at: {"none", "parts", "checkers"}, allowRedirection: BOOLEAN,
                todo: Seq(Commands), decision: Decisions]

\* granted, for given rules and modes.
GrantedBy(s, saved, yolo) ==
    ((\E rule \in saved : startsWith(s, rule)) /\ ~s.redirects) \/ yolo

PartsOf(c) == ToSet(subCommands(c)) \cup (IF atomic(c) THEN {c} ELSE {})

NotDenied(c) == c.kind # "unparsed" => roots(c) \cap Denied = {}

\* What a check has found out so far, when it has not denied: every part it is
\* through with is not denied, and, while it would allow, granted.
CoveredBy(check, c, saved, yolo) ==
    /\ check.decision # "DENY" =>
          /\ c.kind # "unparsed" => c.program \notin Denied
          /\ \A s \in ToSet(subCommands(c)) : s \in ToSet(check.todo) \/ s.program \notin Denied
    /\ check.decision = "ALLOW" =>
          /\ c.kind # "unparsed"
          /\ \A s \in PartsOf(c) : s \in ToSet(check.todo) \/ GrantedBy(s, saved, yolo)
    /\ check.at = "checkers" /\ check.decision # "DENY" => check.todo = <<>>

\* A call and its check fit: the tool that waits for the bus, and what came of
\* it, passed a first check.
Fits(a, check, saved, yolo) ==
    /\ check.at = "parts" => check.todo # <<>>
    /\ a.at \in {"first", "bus", "asked", "runs"} => a.command \in Commands
    /\ a.at \in {"first", "bus"} /\ check.at # "none" => CoveredBy(check, a.command, saved, yolo)
    /\ a.at \in {"bus", "asked", "runs"} => NotDenied(a.command)
    /\ a.at = "runs" /\ ~a.asked =>
          a.command.kind # "unparsed" /\ \A s \in PartsOf(a.command) : GrantedBy(s, saved, yolo)

GInv ==
    /\ approval \in [Approvals -> ApprovalRecord]
    /\ policyCheck \in [Approvals -> CheckRecord]
    /\ approvalMode \in modesUsed
    /\ \A k \in Approvals : Fits(approval[k], policyCheck[k], savedRules, "yolo" \in modesUsed)

\* Rules and modes are only added.
LEMMA FitsMore ==
  ASSUME NEW a, NEW check, NEW saved, NEW yolo, NEW saved2, NEW yolo2,
         saved \subseteq saved2, yolo => yolo2, Fits(a, check, saved, yolo)
  PROVE  Fits(a, check, saved2, yolo2)
<1>1. \A s : GrantedBy(s, saved, yolo) => GrantedBy(s, saved2, yolo2)
  BY DEF GrantedBy
<1>2. CoveredBy(check, a.command, saved, yolo) => CoveredBy(check, a.command, saved2, yolo2)
  BY <1>1 DEF CoveredBy
<1> QED BY <1>1, <1>2 DEF Fits

\* One call moves on, with its check.
LEMMA GrantMoves ==
  ASSUME GInv, NEW k \in Approvals, NEW a \in ApprovalRecord, NEW check \in CheckRecord,
         approval' = [approval EXCEPT ![k] = a], policyCheck' = [policyCheck EXCEPT ![k] = check],
         savedRules \subseteq savedRules', modesUsed' = modesUsed, approvalMode' = approvalMode,
         Fits(a, check, savedRules', "yolo" \in modesUsed)
  PROVE  GInv'
<1>1. approval' \in [Approvals -> ApprovalRecord] /\ policyCheck' \in [Approvals -> CheckRecord]
  BY DEF GInv
<1>2. ASSUME NEW j \in Approvals
      PROVE  Fits(approval'[j], policyCheck'[j], savedRules', "yolo" \in modesUsed')
  <2>1. CASE j = k
    BY <2>1 DEF GInv
  <2>2. CASE j # k
    <3>1. Fits(approval[j], policyCheck[j], savedRules, "yolo" \in modesUsed)
      BY DEF GInv
    <3>2. Fits(approval[j], policyCheck[j], savedRules', "yolo" \in modesUsed)
      BY <3>1, FitsMore
    <3> QED BY <2>2, <3>2 DEF GInv
  <2> QED BY <2>1, <2>2
<1> QED BY <1>1, <1>2 DEF GInv

\* A sequence of one.
LEMMA OneElement == ASSUME NEW S, NEW x \in S PROVE <<x>> \in Seq(S)
OBVIOUS

\* The parts of a command are commands; one that cannot be parsed has none.
LEMMA SubCommandsTyped ==
  ASSUME NEW c \in Commands
  PROVE  /\ subCommands(c) \in Seq(Commands)
         /\ c.kind = "unparsed" => subCommands(c) = <<>>
         /\ c.program \in Programs /\ c.redirects \in BOOLEAN
<1> DEFINE simple == {Simple(p, r) : p \in Programs, r \in BOOLEAN}
           inner == {<<Simple(p, r)>> : p \in Programs, r \in BOOLEAN}
<1>1. \A x \in simple : \E p \in Programs, r \in BOOLEAN : x = Simple(p, r)
  OBVIOUS
<1>2. \A x \in inner : \E y \in simple : x = <<y>>
  OBVIOUS
<1>3. \A p \in Programs : Simple(p, FALSE) \in simple
  <2>1. \A q \in Programs, t \in BOOLEAN : Simple(q, t) \in simple
    OBVIOUS
  <2> HIDE DEF simple
  <2> QED BY <2>1
<1>4. Commands = simple
        \cup [program: Programs, redirects: {FALSE}, kind: {"unparsed"}, parts: {<<>>}]
        \cup [program: Programs, redirects: {FALSE}, kind: {"list", "nested"}, parts: inner]
  BY DEF Commands
<1> HIDE DEF simple, inner
<1>5. CASE c \in simple
  <2>1. PICK p \in Programs, r \in BOOLEAN : c = Simple(p, r)
    BY <1>1, <1>5
  <2>2. c = [program |-> p, redirects |-> r, parts |-> <<>>, kind |-> "simple"]
    BY <2>1 DEF Simple
  <2>3. subCommands(c) = <<>>
    BY <2>2 DEF subCommands
  <2>4. <<>> \in Seq(Commands)
    OBVIOUS
  <2> QED BY <2>2, <2>3, <2>4
<1>6. CASE c \in [program: Programs, redirects: {FALSE}, kind: {"unparsed"}, parts: {<<>>}]
  <2>1. /\ c.program \in Programs /\ c.redirects \in BOOLEAN
        /\ c.kind = "unparsed" /\ c.parts = <<>>
    BY <1>6
  <2>2. subCommands(c) = <<>>
    BY <2>1 DEF subCommands
  <2> HIDE DEF Commands
  <2>3. <<>> \in Seq(Commands)
    OBVIOUS
  <2> QED BY <2>1, <2>2, <2>3
<1>7. CASE c \in [program: Programs, redirects: {FALSE}, kind: {"list", "nested"}, parts: inner]
  <2>1. /\ c.program \in Programs /\ c.redirects \in BOOLEAN /\ c.kind # "unparsed"
        /\ c.parts \in inner
    BY <1>7
  <2>2. PICK y \in simple : c.parts = <<y>>
    BY <1>2, <2>1
  <2>3. Simple(c.program, FALSE) \in simple
    BY <1>3, <2>1
  <2>4. Simple(c.program, FALSE) \in Commands /\ y \in Commands
    BY <1>4, <2>2, <2>3, Zenon
  <2>5. c.parts \in Seq(Commands) /\ <<Simple(c.program, FALSE)>> \in Seq(Commands)
    BY <2>2, <2>4, OneElement
  <2>6. <<Simple(c.program, FALSE)>> \o c.parts \in Seq(Commands)
    BY <2>5, ConcatProperties
  <2> QED BY <2>1, <2>5, <2>6 DEF subCommands
<1> QED BY <1>4, <1>5, <1>6, <1>7

\* A command that a rule allows by itself is granted, and not denied.
LEMMA OwnGranted ==
  ASSUME GInv, NEW c \in Commands
  PROVE  LET own == ownDecision(c, matchedRule(c)) IN
         /\ own \in Decisions
         /\ matchedRule(c).decision \in Decisions /\ matchedRule(c).allowRedirection \in BOOLEAN
         /\ matchedRule(c).decision # "DENY" <=> c.program \notin Denied
         /\ own # "DENY" => c.program \notin Denied
         /\ own = "ALLOW" => GrantedBy(c, savedRules, "yolo" \in modesUsed)
<1>1. approvalMode = "yolo" => "yolo" \in modesUsed
  BY DEF GInv
<1>2. CASE c.program \in Denied
  BY <1>2 DEF matchedRule, ownDecision, Decisions
<1>3. CASE c.program \notin Denied /\ userAllows(c)
  BY <1>3 DEF matchedRule, ownDecision, Decisions, GrantedBy, userAllows
<1>4. CASE c.program \notin Denied /\ ~userAllows(c) /\ approvalMode = "yolo"
  BY <1>1, <1>4 DEF matchedRule, ownDecision, Decisions, GrantedBy
<1>5. CASE c.program \notin Denied /\ ~userAllows(c) /\ approvalMode # "yolo"
  BY <1>5 DEF matchedRule, ownDecision, Decisions, DefaultRule
<1> QED BY <1>2, <1>3, <1>4, <1>5

LEMMA StricterKeeps ==
  ASSUME NEW d \in Decisions, NEW e \in Decisions
  PROVE  /\ stricter(d, e) \in Decisions
         /\ stricter(d, e) # "DENY" => d # "DENY" /\ e # "DENY"
         /\ stricter(d, e) = "ALLOW" => d = "ALLOW" /\ e = "ALLOW"
BY DEF stricter, Decisions

\* The check of a whole command starts with all its parts to do.
LEMMA WholeCovers ==
  ASSUME GInv, NEW c \in Commands
  PROVE  LET check == wholeRule(c, matchedRule(c)) IN
         /\ check \in CheckRecord
         /\ check.at = "parts" => check.todo # <<>>
         /\ CoveredBy(check, c, savedRules, "yolo" \in modesUsed)
<1> DEFINE rule == matchedRule(c)
           check == wholeRule(c, rule)
<1>1. /\ subCommands(c) \in Seq(Commands)
      /\ c.kind = "unparsed" => subCommands(c) = <<>>
  BY SubCommandsTyped
<1>2. /\ rule.decision \in Decisions /\ rule.allowRedirection \in BOOLEAN
      /\ rule.decision # "DENY" <=> c.program \notin Denied
      /\ ownDecision(c, rule) \in Decisions
      /\ ownDecision(c, rule) = "ALLOW" => GrantedBy(c, savedRules, "yolo" \in modesUsed)
  BY OwnGranted
<1>3. <<>> \in Seq(Commands)
  OBVIOUS
<1> HIDE DEF rule
<1>4. CASE rule.decision = "DENY" /\ c.kind # "unparsed"
  <2>1. check = [at |-> "checkers", allowRedirection |-> FALSE, todo |-> <<>>, decision |-> "DENY"]
    BY <1>4 DEF wholeRule, NoCheck
  <2>2. check \in CheckRecord
    BY <1>3, <2>1 DEF CheckRecord, Decisions
  <2>3. CoveredBy(check, c, savedRules, "yolo" \in modesUsed)
    BY <2>1 DEF CoveredBy
  <2> QED BY <2>1, <2>2, <2>3 DEF rule
<1>5. CASE c.kind = "unparsed"
  <2>1. check = [at |-> "checkers", allowRedirection |-> FALSE, todo |-> <<>>,
                 decision |-> "ASK_USER"]
    BY <1>5 DEF wholeRule, NoCheck
  <2>2. subCommands(c) = <<>>
    BY <1>1, <1>5
  <2>3. ToSet(subCommands(c)) = {}
    BY <2>2 DEF ToSet
  <2>4. check \in CheckRecord
    BY <1>3, <2>1 DEF CheckRecord, Decisions
  <2>5. CoveredBy(check, c, savedRules, "yolo" \in modesUsed)
    BY <1>5, <2>1, <2>3 DEF CoveredBy
  <2> QED BY <2>1, <2>4, <2>5 DEF rule
<1>6. CASE rule.decision # "DENY" /\ c.kind # "unparsed"
  <2>1. check = [at |-> IF subCommands(c) = <<>> THEN "checkers" ELSE "parts",
                 allowRedirection |-> rule.allowRedirection, todo |-> subCommands(c),
                 decision |-> IF atomic(c) THEN ownDecision(c, rule) ELSE "ALLOW"]
    BY <1>6 DEF wholeRule
  <2>2. check \in CheckRecord
    <3>1. check.decision \in Decisions
      BY <1>2, <2>1 DEF Decisions
    <3>2. check.at \in {"none", "parts", "checkers"} /\ check.allowRedirection \in BOOLEAN
          /\ check.todo \in Seq(Commands)
      BY <1>1, <1>2, <2>1
    <3> HIDE DEF Commands
    <3>3. check = [at |-> check.at, allowRedirection |-> check.allowRedirection,
                   todo |-> check.todo, decision |-> check.decision]
      BY <2>1
    <3> HIDE DEF check
    <3> QED BY <3>1, <3>2, <3>3 DEF CheckRecord
  <2>3. ASSUME check.decision = "ALLOW", NEW s \in PartsOf(c)
        PROVE  s \in ToSet(check.todo) \/ GrantedBy(s, savedRules, "yolo" \in modesUsed)
    BY <1>2, <2>1, <2>3 DEF PartsOf
  <2>4. c.program \notin Denied
    BY <1>2, <1>6
  <2>5. CoveredBy(check, c, savedRules, "yolo" \in modesUsed)
    BY <1>6, <2>1, <2>3, <2>4 DEF CoveredBy
  <2> QED BY <2>1, <2>2, <2>5 DEF rule
<1> QED BY <1>4, <1>5, <1>6

\* A part that is checked is the next one that was to do.
LEMMA ToDo ==
  ASSUME NEW S, NEW s \in Seq(S), s # <<>>
  PROVE  /\ Head(s) \in S /\ Tail(s) \in Seq(S)
         /\ ToSet(s) = {Head(s)} \cup ToSet(Tail(s))
<1>1. Len(s) \in Nat /\ Len(s) > 0 /\ DOMAIN s = 1 .. Len(s) /\ Head(s) = s[1] /\ Head(s) \in S
  OBVIOUS
<1>2. /\ Tail(s) \in Seq(S) /\ Len(Tail(s)) = Len(s) - 1 /\ DOMAIN Tail(s) = 1 .. Len(s) - 1
      /\ \A i \in 1 .. Len(s) - 1 : Tail(s)[i] = s[i + 1]
  BY <1>1
<1>3. \A x \in ToSet(s) : x = Head(s) \/ x \in ToSet(Tail(s))
  <2>1. TAKE x \in ToSet(s)
  <2>2. PICK i \in 1 .. Len(s) : x = s[i]
    BY <1>1 DEF ToSet
  <2>3. CASE i # 1
    <3>1. i - 1 \in 1 .. Len(s) - 1 /\ Tail(s)[i - 1] = x
      BY <1>1, <1>2, <2>2, <2>3
    <3> QED BY <1>2, <3>1 DEF ToSet
  <2> QED BY <1>1, <2>2, <2>3
<1>4. Head(s) \in ToSet(s)
  BY <1>1 DEF ToSet
<1>5. ToSet(Tail(s)) \subseteq ToSet(s)
  <2>1. ASSUME NEW x \in ToSet(Tail(s)) PROVE x \in ToSet(s)
    <3>1. PICK i \in 1 .. Len(s) - 1 : x = Tail(s)[i]
      BY <1>2 DEF ToSet
    <3>2. i + 1 \in 1 .. Len(s) /\ x = s[i + 1]
      BY <1>1, <1>2, <3>1
    <3> QED BY <1>1, <3>2 DEF ToSet
  <2> QED BY <2>1
<1> QED BY <1>1, <1>2, <1>3, <1>4, <1>5

\* What a part's check adds, when it leaves the decision as it is.
LEMMA PartGranted ==
  ASSUME GInv, NEW k \in Approvals, NEW checker \in Decisions, policyCheck[k].at = "parts"
  PROVE  LET check == policyCheck[k]
             part == Head(check.todo)
             decision == stricter(check.decision, partDecision(k, checker))
         IN  /\ check.todo \in Seq(Commands) /\ check.todo # <<>>
             /\ decision \in Decisions
             /\ decision # "DENY" => check.decision # "DENY" /\ part.program \notin Denied
             /\ decision = "ALLOW" => /\ check.decision = "ALLOW"
                                      /\ GrantedBy(part, savedRules, "yolo" \in modesUsed)
<1> DEFINE check == policyCheck[k]
           part == Head(check.todo)
           alone == ownDecision(part, matchedRule(part))
           own == stricter(alone, checker)
<1>1. check \in CheckRecord /\ check.todo # <<>>
  BY DEF GInv, Fits
<1>2. check.todo \in Seq(Commands) /\ check.decision \in Decisions
  BY <1>1 DEF CheckRecord
<1>3. part \in Commands
  BY <1>1, <1>2, ToDo
<1>4. /\ alone \in Decisions
      /\ alone # "DENY" => part.program \notin Denied
      /\ alone = "ALLOW" => GrantedBy(part, savedRules, "yolo" \in modesUsed)
  BY <1>3, OwnGranted
<1> HIDE DEF alone
<1>5. /\ own \in Decisions
      /\ own # "DENY" => alone # "DENY"
      /\ own = "ALLOW" => alone = "ALLOW"
  BY <1>4, StricterKeeps
<1>6. /\ partDecision(k, checker) \in Decisions
      /\ partDecision(k, checker) # "DENY" => own # "DENY"
      /\ partDecision(k, checker) = "ALLOW" => own = "ALLOW"
  <2>1. partDecision(k, checker) = IF own = "ALLOW" /\ part.redirects /\ ~check.allowRedirection
                                     THEN "ASK_USER" ELSE own
    BY DEF partDecision, alone
  <2> HIDE DEF own
  <2> QED BY <1>5, <2>1 DEF Decisions
<1> HIDE DEF own, part
<1>7. LET decision == stricter(check.decision, partDecision(k, checker)) IN
      /\ decision \in Decisions
      /\ decision # "DENY" => check.decision # "DENY" /\ partDecision(k, checker) # "DENY"
      /\ decision = "ALLOW" => check.decision = "ALLOW" /\ partDecision(k, checker) = "ALLOW"
  BY <1>2, <1>6, StricterKeeps
<1> QED BY <1>1, <1>2, <1>4, <1>5, <1>6, <1>7 DEF part

\* A check that is through with one more part covers that part too.
LEMMA PartCovers ==
  ASSUME GInv, NEW k \in Approvals, NEW checker \in Decisions, policyCheck[k].at = "parts"
  PROVE  LET check == policyCheck[k]
             rest == Tail(check.todo)
             decision == stricter(check.decision, partDecision(k, checker))
             next == [check EXCEPT !.todo = rest, !.decision = decision,
                        !.at = IF decision = "DENY" \/ rest = <<>> THEN "checkers" ELSE "parts"]
         IN  next \in CheckRecord /\ Fits(approval[k], next, savedRules, "yolo" \in modesUsed)
<1> DEFINE check == policyCheck[k]
           part == Head(check.todo)
           rest == Tail(check.todo)
           decision == stricter(check.decision, partDecision(k, checker))
           next == [check EXCEPT !.todo = rest, !.decision = decision,
                      !.at = IF decision = "DENY" \/ rest = <<>> THEN "checkers" ELSE "parts"]
           c == approval[k].command
           yolo == "yolo" \in modesUsed
<1>1. check \in CheckRecord /\ Fits(approval[k], check, savedRules, yolo)
  BY DEF GInv
<1>2. /\ check.todo \in Seq(Commands) /\ check.todo # <<>>
      /\ decision \in Decisions
      /\ decision # "DENY" => check.decision # "DENY" /\ part.program \notin Denied
      /\ decision = "ALLOW" => check.decision = "ALLOW" /\ GrantedBy(part, savedRules, yolo)
  BY PartGranted
<1>3. rest \in Seq(Commands) /\ ToSet(check.todo) = {part} \cup ToSet(rest)
  BY <1>2, ToDo
<1> HIDE DEF decision, rest, part
<1>4. /\ next \in CheckRecord
      /\ next.todo = rest /\ next.decision = decision
      /\ next.at = IF decision = "DENY" \/ rest = <<>> THEN "checkers" ELSE "parts"
  BY <1>1, <1>2, <1>3 DEF CheckRecord
<1> HIDE DEF next
<1>5. CoveredBy(check, c, savedRules, yolo) => CoveredBy(next, c, savedRules, yolo)
  BY <1>2, <1>3, <1>4 DEF CoveredBy
<1>6. Fits(approval[k], next, savedRules, yolo)
  BY <1>1, <1>4, <1>5 DEF Fits
<1> QED BY <1>4, <1>6 DEF next, decision, rest

\* A check that is through has covered the whole command.
LEMMA CheckedCovers ==
  ASSUME GInv, NEW k \in Approvals, NEW checker \in Decisions,
         approval[k].at \in {"first", "bus"}, policyCheck[k].at = "checkers"
  PROVE  LET c == approval[k].command
             decision == checkedAs(k, checker)
         IN  /\ c \in Commands /\ decision \in Decisions
             /\ decision # "DENY" => NotDenied(c)
             /\ decision = "ALLOW" =>
                   /\ c.kind # "unparsed"
                   /\ \A s \in PartsOf(c) : GrantedBy(s, savedRules, "yolo" \in modesUsed)
<1> DEFINE check == policyCheck[k]
           c == approval[k].command
           yolo == "yolo" \in modesUsed
<1>1. /\ check \in CheckRecord /\ Fits(approval[k], check, savedRules, yolo)
  BY DEF GInv
<1>2. c \in Commands /\ check.decision \in Decisions /\ CoveredBy(check, c, savedRules, yolo)
  BY <1>1 DEF Fits, CheckRecord
<1>3. /\ checkedAs(k, checker) \in Decisions
      /\ checkedAs(k, checker) # "DENY" => check.decision # "DENY"
      /\ checkedAs(k, checker) = "ALLOW" => check.decision = "ALLOW" /\ check.decision # "DENY"
  BY <1>2, StricterKeeps DEF checkedAs
<1>4. check.decision # "DENY" => ToSet(check.todo) = {}
  BY <1>2 DEF CoveredBy, ToSet
<1>5. check.decision # "DENY" => NotDenied(c)
  BY <1>2, <1>4 DEF CoveredBy, NotDenied, roots
<1>6. check.decision = "ALLOW" => /\ c.kind # "unparsed"
                                  /\ \A s \in PartsOf(c) : GrantedBy(s, savedRules, yolo)
  BY <1>2, <1>4 DEF CoveredBy
<1> QED BY <1>2, <1>3, <1>5, <1>6

\* A decision moves a call on, and starts or ends its check.
LEMMA GrantDecided ==
  ASSUME GInv, NEW k \in Approvals, NEW decision \in Decisions,
         NEW next \in {"bus", "refused", "asked"}, NEW check \in CheckRecord,
         decided(k, decision, next), policyCheck' = [policyCheck EXCEPT ![k] = check],
         UNCHANGED <<savedRules, approvalMode, modesUsed>>,
         approval[k].command \in Commands,
         decision # "DENY" => NotDenied(approval[k].command),
         decision = "ALLOW" =>
             /\ approval[k].command.kind # "unparsed"
             /\ \A s \in PartsOf(approval[k].command) :
                    GrantedBy(s, savedRules, "yolo" \in modesUsed),
         check.at = "parts" => check.todo # <<>>,
         next = "bus" => CoveredBy(check, approval[k].command, savedRules, "yolo" \in modesUsed)
  PROVE  GInv'
<1> DEFINE a == approval[k]
           yolo == "yolo" \in modesUsed
           Moves(r) == /\ approval' = [approval EXCEPT ![k] = r] /\ r \in ApprovalRecord
                       /\ Fits(r, check, savedRules, yolo)
<1>0. a \in ApprovalRecord
  BY DEF GInv
<1>1. \E r : Moves(r)
  <2> HIDE DEF a
  <2>1. CASE decision = "ALLOW"
    <3> DEFINE b == [a EXCEPT !.at = "runs"]
               r == [b EXCEPT !.aborted = FALSE]
    <3>1. approval' = [approval EXCEPT ![k] = r]
      BY <2>1 DEF decided, a
    <3>2. b \in ApprovalRecord /\ b.at = "runs" /\ b.command = a.command
      BY <1>0 DEF ApprovalRecord
    <3> HIDE DEF b
    <3>3. r \in ApprovalRecord /\ r.at = "runs" /\ r.command = a.command
      BY <3>2 DEF ApprovalRecord
    <3> HIDE DEF r
    <3>4. Fits(r, check, savedRules, yolo)
      BY <2>1, <3>3 DEF Fits, a
    <3> QED BY <3>1, <3>3, <3>4
  <2>2. CASE decision = "DENY" \/ (next = "refused" /\ decision # "ALLOW")
    <3>1. approval' = [approval EXCEPT ![k] = refused(a)]
      BY <2>2 DEF decided, a
    <3>2. refused(a) \in ApprovalRecord /\ refused(a).at = "refused"
      BY <1>0, RefusedRecord
    <3>3. Fits(refused(a), check, savedRules, yolo)
      BY <3>2 DEF Fits
    <3> QED BY <3>1, <3>2, <3>3
  <2>3. CASE decision = "ASK_USER" /\ next # "refused"
    <3> DEFINE r == [a EXCEPT !.at = next]
    <3>1. approval' = [approval EXCEPT ![k] = r]
      BY <2>3 DEF decided, a
    <3>2. r \in ApprovalRecord /\ r.at = next /\ r.command = a.command
      BY <1>0 DEF ApprovalRecord
    <3> HIDE DEF r
    <3>3. Fits(r, check, savedRules, yolo)
      BY <2>3, <3>2 DEF Fits, a
    <3> QED BY <3>1, <3>2, <3>3
  <2> QED BY <2>1, <2>2, <2>3 DEF Decisions
<1>2. PICK r : Moves(r)
  BY <1>1
<1>3. savedRules \subseteq savedRules' /\ Fits(r, check, savedRules', yolo)
  BY <1>2
<1> HIDE DEF a
<1> QED BY <1>2, <1>3, GrantMoves

\* A check that does not run.
LEMMA NoCheckTyped == NoCheck \in CheckRecord /\ NoCheck.at = "none"
<1>1. <<>> \in Seq(Commands)
  OBVIOUS
<1> HIDE DEF Commands
<1> QED BY <1>1 DEF NoCheck, CheckRecord, Decisions

\* Every step keeps the invariant: one step of the proof for each action.
LEMMA GStep == ASSUME PInv, GInv, [ApprovalNext]_approvalVars PROVE GInv'
<1> DEFINE yolo == "yolo" \in modesUsed
<1>0. /\ approval \in [Approvals -> ApprovalRecord]
      /\ policyCheck \in [Approvals -> CheckRecord]
      /\ \A k \in Approvals : Fits(approval[k], policyCheck[k], savedRules, yolo)
  BY DEF GInv
<1>1. ASSUME UNCHANGED <<approval, policyCheck, savedRules, approvalMode, modesUsed>> PROVE GInv'
  BY <1>1 DEF GInv
<1>2. ASSUME NEW k \in Approvals, NEW checker \in Decisions, FirstChecked(k, checker) PROVE GInv'
  <2> DEFINE c == approval[k].command
             decision == checkedAs(k, checker)
  <2>1. /\ approval[k].at = "first" /\ policyCheck[k].at = "checkers"
        /\ UNCHANGED <<savedRules, approvalMode, modesUsed>>
    BY <1>2 DEF FirstChecked
  <2>2. /\ c \in Commands /\ decision \in Decisions
        /\ decision # "DENY" => NotDenied(c)
        /\ decision = "ALLOW" => /\ c.kind # "unparsed"
                                 /\ \A s \in PartsOf(c) : GrantedBy(s, savedRules, yolo)
    BY <2>1, CheckedCovers
  <2>3. CASE decision = "ASK_USER" /\ ~approval[k].aborted
    <3> DEFINE check == wholeRule(c, matchedRule(c))
    <3>1. decided(k, decision, "bus") /\ policyCheck' = [policyCheck EXCEPT ![k] = check]
      BY <1>2, <2>3 DEF FirstChecked, startCheck
    <3>2. /\ check \in CheckRecord
          /\ check.at = "parts" => check.todo # <<>>
          /\ CoveredBy(check, c, savedRules, yolo)
      BY <2>2, WholeCovers
    <3> HIDE DEF check, decision
    <3> QED BY <2>1, <2>2, <3>1, <3>2, GrantDecided
  <2>4. CASE ~(decision = "ASK_USER" /\ ~approval[k].aborted)
    <3>1. decided(k, decision, "refused") /\ policyCheck' = [policyCheck EXCEPT ![k] = NoCheck]
      BY <1>2, <2>4 DEF FirstChecked
    <3> HIDE DEF decision
    <3> QED BY <2>1, <2>2, <3>1, NoCheckTyped, GrantDecided
  <2> QED BY <2>3, <2>4
<1>3. ASSUME NEW k \in Approvals, NEW checker \in Decisions, Responds(k, checker) PROVE GInv'
  <2> DEFINE c == approval[k].command
             decision == checkedAs(k, checker)
  <2>1. /\ policyCheck[k].at = "checkers"
        /\ policyCheck' = [policyCheck EXCEPT ![k] = NoCheck]
        /\ UNCHANGED <<savedRules, approvalMode, modesUsed>>
    BY <1>3 DEF Responds
  <2>2. CASE k \in busListeners
    <3>1. decided(k, decision, "asked") /\ approval[k].at = "bus"
      BY <1>3, <2>2 DEF Responds, PInv
    <3>2. /\ c \in Commands /\ decision \in Decisions
          /\ decision # "DENY" => NotDenied(c)
          /\ decision = "ALLOW" => /\ c.kind # "unparsed"
                                   /\ \A s \in PartsOf(c) : GrantedBy(s, savedRules, yolo)
      BY <2>1, <3>1, CheckedCovers
    <3> HIDE DEF decision
    <3> QED BY <2>1, <3>1, <3>2, NoCheckTyped, GrantDecided
  <2>3. CASE k \notin busListeners
    <3>1. approval' = [approval EXCEPT ![k] = approval[k]]
      BY <1>0, <1>3, <2>3 DEF Responds
    <3>2. approval[k].at # "first" /\ approval[k].at # "bus"
      BY <1>3, <2>3 DEF Responds, PInv
    <3>3. Fits(approval[k], NoCheck, savedRules', yolo)
      BY <1>0, <2>1, <3>2, NoCheckTyped DEF Fits
    <3> QED BY <1>0, <2>1, <3>1, <3>3, NoCheckTyped, GrantMoves
  <2> QED BY <2>2, <2>3
<1>4. ASSUME NEW k \in Approvals, NEW checker \in Decisions, CheckPart(k, checker) PROVE GInv'
  <2> DEFINE check == policyCheck[k]
             rest == Tail(check.todo)
             decision == stricter(check.decision, partDecision(k, checker))
             next == [check EXCEPT !.todo = rest, !.decision = decision,
                        !.at = IF decision = "DENY" \/ rest = <<>> THEN "checkers" ELSE "parts"]
  <2>1. /\ policyCheck[k].at = "parts" /\ policyCheck' = [policyCheck EXCEPT ![k] = next]
        /\ UNCHANGED <<approval, savedRules, approvalMode, modesUsed>>
    BY <1>4 DEF CheckPart
  <2>2. next \in CheckRecord /\ Fits(approval[k], next, savedRules, yolo)
    BY <2>1, PartCovers
  <2> HIDE DEF next
  <2>3. approval' = [approval EXCEPT ![k] = approval[k]] /\ approval[k] \in ApprovalRecord
    BY <1>0, <2>1
  <2> QED BY <2>1, <2>2, <2>3, GrantMoves
<1>5. ASSUME NEW k \in Approvals, PublishFails(k) PROVE GInv'
  <2>1. /\ policyCheck' = [policyCheck EXCEPT ![k] = NoCheck]
        /\ UNCHANGED <<approval, savedRules, approvalMode, modesUsed>>
    BY <1>5 DEF PublishFails
  <2>2. approval' = [approval EXCEPT ![k] = approval[k]] /\ approval[k] \in ApprovalRecord
    BY <1>0, <2>1
  <2>3. Fits(approval[k], NoCheck, savedRules', yolo)
    BY <1>0, <2>1, NoCheckTyped DEF Fits
  <2> QED BY <2>1, <2>2, <2>3, NoCheckTyped, GrantMoves
\* The steps that leave the check alone.
<1>6. ASSUME NEW k \in Approvals, NEW r \in ApprovalRecord,
             approval' = [approval EXCEPT ![k] = r],
             UNCHANGED <<policyCheck, approvalMode, modesUsed>>,
             savedRules \subseteq savedRules', Fits(r, policyCheck[k], savedRules', yolo)
      PROVE  GInv'
  <2>1. policyCheck' = [policyCheck EXCEPT ![k] = policyCheck[k]] /\ policyCheck[k] \in CheckRecord
    BY <1>0, <1>6
  <2> QED BY <1>6, <2>1, GrantMoves
<1>7. ASSUME NEW k \in Approvals, BusTimeout(k) PROVE GInv'
  <2> DEFINE a == approval[k]
             r == [a EXCEPT !.at = "asked"]
  <2>1. /\ a.at = "bus" /\ approval' = [approval EXCEPT ![k] = r]
        /\ UNCHANGED <<policyCheck, savedRules, approvalMode, modesUsed>>
        /\ a \in ApprovalRecord /\ Fits(a, policyCheck[k], savedRules, yolo)
    BY <1>0, <1>7 DEF BusTimeout
  <2> HIDE DEF a
  <2>2. r \in ApprovalRecord /\ r.at = "asked" /\ r.command = a.command
    BY <2>1 DEF ApprovalRecord
  <2> HIDE DEF r
  <2>3. Fits(r, policyCheck[k], savedRules', yolo)
    BY <2>1, <2>2 DEF Fits
  <2> QED BY <1>6, <2>1, <2>2, <2>3
<1>8. ASSUME NEW k \in Approvals, AbortApproval(k) PROVE GInv'
  <2> DEFINE a == approval[k]
             r == IF a.at = "bus" THEN refused(a) ELSE [a EXCEPT !.aborted = TRUE]
  <2>1. /\ a.at \in {"first", "bus"} /\ approval' = [approval EXCEPT ![k] = r]
        /\ UNCHANGED <<policyCheck, savedRules, approvalMode, modesUsed>>
        /\ a \in ApprovalRecord /\ Fits(a, policyCheck[k], savedRules, yolo)
    BY <1>0, <1>8 DEF AbortApproval
  <2> HIDE DEF a
  <2>2. r \in ApprovalRecord /\ Fits(r, policyCheck[k], savedRules', yolo)
    <3>1. CASE a.at = "bus"
      <4>1. r \in ApprovalRecord /\ r.at = "refused"
        BY <2>1, <3>1, RefusedRecord
      <4> HIDE DEF r
      <4> QED BY <2>1, <4>1 DEF Fits
    <3>2. CASE a.at = "first"
      <4>1. r \in ApprovalRecord /\ r.at = "first" /\ r.command = a.command
        BY <2>1, <3>2 DEF ApprovalRecord
      <4> HIDE DEF r
      <4> QED BY <2>1, <3>2, <4>1 DEF Fits
    <3> QED BY <2>1, <3>1, <3>2
  <2> HIDE DEF r
  <2> QED BY <1>6, <2>1, <2>2
<1>9. ASSUME NEW k \in Approvals, NEW outcome, AnswerApproval(k, outcome) PROVE GInv'
  <2> DEFINE a == approval[k]
             b == [a EXCEPT !.asked = TRUE]
             r == IF outcome = "cancel" THEN refused(a) ELSE [b EXCEPT !.at = "runs"]
  <2>1. /\ a.at = "asked" /\ approval' = [approval EXCEPT ![k] = r]
        /\ UNCHANGED <<policyCheck, approvalMode, modesUsed>> /\ savedRules \subseteq savedRules'
        /\ a \in ApprovalRecord /\ Fits(a, policyCheck[k], savedRules, yolo)
    BY <1>0, <1>9 DEF AnswerApproval
  <2> HIDE DEF a
  <2>2. b \in ApprovalRecord /\ b.asked = TRUE /\ b.command = a.command
    BY <2>1 DEF ApprovalRecord
  <2> HIDE DEF b
  <2>3. r \in ApprovalRecord /\ Fits(r, policyCheck[k], savedRules', yolo)
    <3>1. CASE outcome = "cancel"
      <4>1. r \in ApprovalRecord /\ r.at = "refused"
        BY <2>1, <3>1, RefusedRecord
      <4> HIDE DEF r
      <4> QED BY <2>1, <4>1 DEF Fits
    <3>2. CASE outcome # "cancel"
      <4>1. r \in ApprovalRecord /\ r.at = "runs" /\ r.asked = TRUE /\ r.command = a.command
        BY <2>2, <3>2 DEF ApprovalRecord
      <4> HIDE DEF r
      <4> QED BY <2>1, <4>1 DEF Fits
    <3> QED BY <3>1, <3>2
  <2> HIDE DEF r
  <2> QED BY <1>6, <2>1, <2>3
<1>10. ASSUME NEW k \in Approvals, NEW c \in Asked, Decide(k, c) PROVE GInv'
  <2> DEFINE a == approval[k]
             b == [a EXCEPT !.at = "first"]
             r == [b EXCEPT !.command = c]
             check == wholeRule(c, matchedRule(c))
  <2>1. /\ approval' = [approval EXCEPT ![k] = r] /\ c \in Commands /\ a \in ApprovalRecord
        /\ policyCheck' = [policyCheck EXCEPT ![k] = check]
        /\ UNCHANGED <<savedRules, approvalMode, modesUsed>>
    BY <1>0, <1>10, ApprovalAssumption DEF Decide, startCheck
  <2>2. /\ check \in CheckRecord
        /\ check.at = "parts" => check.todo # <<>>
        /\ CoveredBy(check, c, savedRules, yolo)
    BY <2>1, WholeCovers
  <2> HIDE DEF a, check
  <2>3. b \in ApprovalRecord /\ b.at = "first"
    BY <2>1 DEF ApprovalRecord
  <2> HIDE DEF b
  <2>4. r \in ApprovalRecord /\ r.at = "first" /\ r.command = c
    BY <2>1, <2>3 DEF ApprovalRecord
  <2> HIDE DEF r
  <2>5. Fits(r, check, savedRules', yolo)
    BY <2>1, <2>2, <2>4 DEF Fits
  <2> QED BY <2>1, <2>2, <2>4, <2>5, GrantMoves
<1>11. ASSUME NEW mode, setApprovalMode(mode) PROVE GInv'
  <2>1. /\ UNCHANGED <<approval, policyCheck, savedRules>> /\ approvalMode' \in modesUsed'
        /\ yolo => "yolo" \in modesUsed'
    BY <1>11 DEF setApprovalMode
  <2>2. ASSUME NEW k \in Approvals
        PROVE  Fits(approval[k], policyCheck[k], savedRules, "yolo" \in modesUsed')
    <3>1. Fits(approval[k], policyCheck[k], savedRules, yolo)
      BY <1>0
    <3> DEFINE more == "yolo" \in modesUsed'
               rules == savedRules
    <3>2. (yolo => more) /\ savedRules \subseteq rules
      BY <2>1
    <3> HIDE DEF yolo, more, rules
    <3>3. Fits(approval[k], policyCheck[k], rules, more)
      BY <3>1, <3>2, FitsMore
    <3> QED BY <3>3 DEF more, rules
  <2> QED BY <1>0, <2>1, <2>2 DEF GInv
<1>12. CASE UNCHANGED approvalVars
  BY <1>1, <1>12 DEF approvalVars
<1>13. ASSUME NEW k \in Approvals, ApprovalStep(k) PROVE GInv'
  BY <1>2, <1>3, <1>4, <1>7, <1>13 DEF ApprovalStep
<1> QED BY <1>5, <1>8, <1>9, <1>10, <1>11, <1>12, <1>13 DEF ApprovalNext

LEMMA ApprovalInitial == ASSUME ApprovalInit PROVE PInv /\ GInv
<1>1. PInv
  BY DEF ApprovalInit, PInv, ApprovalRecord
<1>2. /\ approval \in [Approvals -> ApprovalRecord]
      /\ \A k \in Approvals : approval[k].at = "new" /\ policyCheck[k] = NoCheck
  BY DEF ApprovalInit, ApprovalRecord
<1>3. policyCheck \in [Approvals -> CheckRecord]
  BY NoCheckTyped DEF ApprovalInit
<1>4. \A k \in Approvals : Fits(approval[k], policyCheck[k], savedRules, "yolo" \in modesUsed)
  BY <1>2, NoCheckTyped DEF Fits
<1> QED BY <1>1, <1>2, <1>3, <1>4 DEF GInv, ApprovalInit

\* For any calls, programs and commands: a command runs unasked only if every
\* command inside it is granted, however rules and the mode change during its
\* checks, and one with a denied part only if it cannot be parsed and the user
\* was asked (policy-engine.ts:166, :184).
THEOREM GrantedRuns == ApprovalSpec => []RunsAsGranted
<1>1. ApprovalInit => PInv /\ GInv
  BY ApprovalInitial
<1>2. PInv /\ GInv /\ [ApprovalNext]_approvalVars => PInv' /\ GInv'
  BY PStep, GStep
<1>3. GInv => RunsAsGranted
  <2>1. SUFFICES ASSUME GInv, NEW k \in Approvals, approval[k].at = "runs"
                 PROVE  LET c == approval[k].command
                            all == ToSet(subCommands(c)) \cup (IF atomic(c) THEN {c} ELSE {})
                        IN  /\ roots(c) \cap Denied # {} =>
                                  c.kind = "unparsed" /\ approval[k].asked
                            /\ ~approval[k].asked =>
                                  c.kind # "unparsed" /\ \A s \in all : granted(s)
    BY DEF RunsAsGranted
  <2>2. Fits(approval[k], policyCheck[k], savedRules, "yolo" \in modesUsed)
    BY <2>1 DEF GInv
  <2> QED BY <2>1, <2>2 DEF Fits, NotDenied, PartsOf, GrantedBy, granted, userAllows
<1> QED BY <1>1, <1>2, <1>3, PTL DEF ApprovalSpec

-------------------------------------------------------------------------------
\* The types, with the rules the user's answers add.
ApprovalInv ==
    /\ PInv /\ GInv
    /\ savedRules \subseteq [program: Programs, whole: BOOLEAN]
    /\ approvalMode \in {"default", "yolo"}

\* The prefixes of a command are rules for programs.
LEMMA CommandPrefixes ==
  ASSUME NEW c \in Commands
  PROVE  prefixes(c) \subseteq [program: Programs, whole: BOOLEAN]
<1>1. \A d \in Commands : d.program \in Programs /\ subCommands(d) \in Seq(Commands)
  BY SubCommandsTyped
<1> HIDE DEF Commands
<1>2. ToSet(subCommands(c)) \subseteq Commands
  BY <1>1 DEF ToSet
<1>3. roots(c) \subseteq Programs
  BY <1>1, <1>2 DEF roots
<1>4. \A p \in Programs, w \in BOOLEAN :
        [program |-> p, whole |-> w] \in [program: Programs, whole: BOOLEAN]
  OBVIOUS
<1>5. \A x \in prefixes(c) : \E p \in Programs, w \in BOOLEAN : x = [program |-> p, whole |-> w]
  BY <1>1, <1>3 DEF prefixes
<1> QED BY <1>4, <1>5

LEMMA ApprovalInvariant ==
  /\ ApprovalInit => ApprovalInv
  /\ ApprovalInv /\ [ApprovalNext]_approvalVars => ApprovalInv'
  /\ ApprovalInv => ApprovalTypeOK
<1>1. ASSUME ApprovalInit PROVE ApprovalInv
  <2>1. PInv /\ GInv
    BY <1>1, ApprovalInitial
  <2> QED BY <1>1, <2>1 DEF ApprovalInit, ApprovalInv
<1>2. ASSUME ApprovalInv, [ApprovalNext]_approvalVars PROVE ApprovalInv'
  <2>1. PInv' /\ GInv'
    BY <1>2, PStep, GStep DEF ApprovalInv
  <2>2. ASSUME UNCHANGED <<savedRules, approvalMode>> PROVE ApprovalInv'
    BY <1>2, <2>1, <2>2 DEF ApprovalInv
  <2>3. ASSUME NEW k \in Approvals, NEW outcome, AnswerApproval(k, outcome) PROVE ApprovalInv'
    <3>1. /\ approval[k].at = "asked" /\ approvalMode' = approvalMode
          /\ savedRules' \in {savedRules, savedRules \cup prefixes(approval[k].command)}
      BY <2>3 DEF AnswerApproval
    <3>2. approval[k].command \in Commands
      BY <1>2, <3>1 DEF ApprovalInv, GInv, Fits
    <3>3. prefixes(approval[k].command) \subseteq [program: Programs, whole: BOOLEAN]
      BY <3>2, CommandPrefixes
    <3> QED BY <1>2, <2>1, <3>1, <3>3 DEF ApprovalInv
  <2>4. ASSUME NEW mode \in {"default", "yolo"}, setApprovalMode(mode) PROVE ApprovalInv'
    BY <1>2, <2>1, <2>4 DEF setApprovalMode, ApprovalInv
  <2>5. CASE \E k \in Approvals : \/ ApprovalStep(k) \/ PublishFails(k) \/ AbortApproval(k)
                                  \/ \E c \in Asked : Decide(k, c)
    BY <2>2, <2>5 DEF ApprovalStep, BusTimeout, CheckPart, FirstChecked, Responds,
                      PublishFails, AbortApproval, Decide
  <2>6. CASE UNCHANGED approvalVars
    BY <2>2, <2>6 DEF approvalVars
  <2> QED BY <1>2, <2>3, <2>4, <2>5, <2>6 DEF ApprovalNext
<1>3. ASSUME ApprovalInv PROVE ApprovalTypeOK
  <2>1. NoCommand \in Commands
    <3> DEFINE simple == {Simple(p, r) : p \in Programs, r \in BOOLEAN}
    <3>1. PICK p \in Programs : NoCommand = Simple(p, FALSE)
      BY ApprovalAssumption DEF NoCommand
    <3>2. \A q \in Programs, t \in BOOLEAN : Simple(q, t) \in simple
      OBVIOUS
    <3> DEFINE rest == [program: Programs, redirects: {FALSE}, kind: {"unparsed"}, parts: {<<>>}]
                 \cup [program: Programs, redirects: {FALSE}, kind: {"list", "nested"},
                       parts: {<<Simple(s, r)>> : s \in Programs, r \in BOOLEAN}]
    <3>3. Commands = simple \cup rest
      BY DEF Commands
    <3> HIDE DEF simple, rest
    <3> QED BY <3>1, <3>2, <3>3
  <2>2. approval \in [Approvals -> ApprovalRecord] /\ ApprovalRecord = [
           at: {"new", "first", "bus", "asked", "runs", "refused"},
           command: Commands, asked: BOOLEAN, aborted: BOOLEAN]
    BY <1>3, <2>1 DEF ApprovalInv, PInv, ApprovalRecord
  <2>3. ASSUME NEW k \in Approvals
        PROVE  /\ policyCheck[k].at \in {"none", "parts", "checkers"}
               /\ policyCheck[k].allowRedirection \in BOOLEAN
               /\ policyCheck[k].decision \in Decisions
               /\ ToSet(policyCheck[k].todo) \subseteq Commands
    <3>1. policyCheck[k] \in CheckRecord
      BY <1>3 DEF ApprovalInv, GInv
    <3>2. policyCheck[k].todo \in Seq(Commands)
      BY <3>1 DEF CheckRecord
    <3> HIDE DEF Commands
    <3>3. ToSet(policyCheck[k].todo) \subseteq Commands
      BY <3>2 DEF ToSet
    <3> QED BY <3>1, <3>3 DEF CheckRecord
  <2>4. busListeners \subseteq Approvals
        /\ savedRules \subseteq [program: Programs, whole: BOOLEAN]
        /\ approvalMode \in {"default", "yolo"} /\ approvalMode \in modesUsed
    BY <1>3 DEF ApprovalInv, PInv, GInv
  <2> QED BY <2>2, <2>3, <2>4 DEF ApprovalTypeOK
<1> QED BY <1>1, <1>2, <1>3

\* The types of calls, checks and rules, for any calls and commands
\* (policy-engine.ts:166, tools.ts:202).
THEOREM ApprovalTypeCorrect == ApprovalSpec => []ApprovalTypeOK
BY ApprovalInvariant, PTL DEF ApprovalSpec

-------------------------------------------------------------------------------
(* AcpSession: the promise of the chat *)

Reading == {"connecting", "reading", "delay"}

\* The open promises are those of the generators that are read.
SInv ==
    /\ stream \in [Senders -> Streams] /\ sendPromise \in Promises
    /\ \A x : x \in openStreams <=>
           \E p \in Senders : stream[p].at \in Reading /\ x = <<p, stream[p].n>>

\* One generator changes, and its promise with it.
LEMMA StreamSet ==
  ASSUME SInv, NEW s \in Senders, NEW r \in Streams, stream' = [stream EXCEPT ![s] = r],
         sendPromise' \in Promises,
         \/ /\ openStreams' = openStreams /\ r.n = stream[s].n
            /\ r.at \in Reading <=> stream[s].at \in Reading
         \/ /\ openStreams' = openStreams \cup {<<s, r.n>>}
            /\ r.at \in Reading /\ stream[s].at \notin Reading
         \/ openStreams' = openStreams \ {<<s, stream[s].n>>} /\ r.at \notin Reading
  PROVE  SInv'
<1>1. stream' \in [Senders -> Streams]
  BY DEF SInv
<1>2. \A p \in Senders : stream'[p] = IF p = s THEN r ELSE stream[p]
  BY DEF SInv
<1>3. ASSUME NEW x PROVE x \in openStreams' <=>
           \E p \in Senders : stream'[p].at \in Reading /\ x = <<p, stream'[p].n>>
  <2>0. \A p, q, m, n : <<p, m>> = <<q, n>> => p = q /\ m = n
    OBVIOUS
  <2>1. x \in openStreams <=>
           \E p \in Senders : stream[p].at \in Reading /\ x = <<p, stream[p].n>>
    BY DEF SInv
  <2>2. CASE /\ openStreams' = openStreams /\ r.n = stream[s].n
             /\ r.at \in Reading <=> stream[s].at \in Reading
    BY <1>2, <2>1, <2>2
  <2>3. CASE /\ openStreams' = openStreams \cup {<<s, r.n>>}
             /\ r.at \in Reading /\ stream[s].at \notin Reading
    BY <1>2, <2>1, <2>3
  <2>4. CASE openStreams' = openStreams \ {<<s, stream[s].n>>} /\ r.at \notin Reading
    BY <1>2, <2>0, <2>1, <2>4
  <2> QED BY <2>2, <2>3, <2>4
<1> QED BY <1>1, <1>3 DEF SInv

LEMMA ChatStepKeeps ==
  ASSUME SInv, NEW s \in Senders,
         \/ ChatAwait(s) \/ ChatConnected(s) \/ ChatCallChunk(s) \/ ChatBroke(s) \/ ChatRetry(s)
         \/ ChatLeft(s) \/ ChatReplied(s) \/ \E entry : ChatContinue(s, entry)
  PROVE  SInv'
<1> DEFINE a == stream[s]
<1>0. a \in Streams /\ stream \in [Senders -> Streams] /\ sendPromise \in Promises
  BY DEF SInv
<1>1. CASE ChatAwait(s)
  <2> DEFINE b == [a EXCEPT !.at = "waiting"]
             r == [b EXCEPT !.waitsFor = sendPromise]
  <2>1. /\ stream' = [stream EXCEPT ![s] = r] /\ openStreams' = openStreams
        /\ sendPromise' = sendPromise /\ stream[s].at = "none" /\ stream[s] = a
    BY <1>0, <1>1 DEF ChatAwait
  <2> HIDE DEF a
  <2>2. b \in Streams /\ b.at = "waiting" /\ b.n = a.n
    BY <1>0 DEF Streams
  <2> HIDE DEF b
  <2>3. r \in Streams /\ r.at = "waiting" /\ r.n = a.n
    BY <1>0, <2>2 DEF Streams
  <2> HIDE DEF r
  <2> QED BY <1>0, <2>1, <2>3, StreamSet DEF Reading
<1>2. CASE ChatConnected(s) \/ ChatBroke(s)
  <2>1. PICK at \in {"reading", "delay"} : stream' = [stream EXCEPT ![s].at = at]
    BY <1>2 DEF ChatConnected, ChatBroke
  <2> DEFINE r == [a EXCEPT !.at = at]
  <2>2. /\ stream' = [stream EXCEPT ![s] = r] /\ openStreams' = openStreams
        /\ sendPromise' = sendPromise /\ stream[s].at \in Reading /\ stream[s] = a
    BY <1>0, <1>2, <2>1 DEF ChatConnected, ChatBroke, Reading
  <2> HIDE DEF a
  <2>3. r \in Streams /\ r.at = at /\ r.n = a.n
    BY <1>0 DEF Streams
  <2> HIDE DEF r
  <2> QED BY <1>0, <2>2, <2>3, StreamSet DEF Reading
<1>3. CASE ChatCallChunk(s)
  <2> DEFINE r == [a EXCEPT !.hasToolCall = TRUE]
  <2>1. /\ stream' = [stream EXCEPT ![s] = r] /\ openStreams' = openStreams
        /\ sendPromise' = sendPromise /\ stream[s].at = "reading" /\ stream[s] = a
    BY <1>0, <1>3 DEF ChatCallChunk
  <2> HIDE DEF a
  <2>2. r \in Streams /\ r.at = a.at /\ r.n = a.n
    BY <1>0 DEF Streams
  <2> HIDE DEF r
  <2> QED BY <1>0, <2>1, <2>2, StreamSet DEF Reading
<1>4. CASE ChatRetry(s)
  <2> DEFINE b == [a EXCEPT !.at = "connecting"]
             c == [b EXCEPT !.attempt = a.attempt + 1]
             r == [c EXCEPT !.hasToolCall = FALSE]
  <2>1. /\ stream' = [stream EXCEPT ![s] = r] /\ openStreams' = openStreams
        /\ sendPromise' = sendPromise /\ stream[s].at = "delay" /\ stream[s] = a
    BY <1>0, <1>4 DEF ChatRetry, Streams
  <2> HIDE DEF a
  <2>2. b \in Streams /\ b.at = "connecting" /\ b.n = a.n /\ a.attempt + 1 \in Nat
    BY <1>0 DEF Streams
  <2> HIDE DEF b
  <2>3. c \in Streams /\ c.at = "connecting" /\ c.n = a.n
    BY <2>2 DEF Streams
  <2> HIDE DEF c
  <2>4. r \in Streams /\ r.at = "connecting" /\ r.n = a.n
    BY <2>3 DEF Streams
  <2> HIDE DEF r
  <2> QED BY <1>0, <2>1, <2>4, StreamSet DEF Reading
<1>5. CASE ChatLeft(s) \/ ChatReplied(s)
  <2> DEFINE r == [NoStream EXCEPT !.n = stream[s].n]
  <2>1. /\ stream' = [stream EXCEPT ![s] = r] /\ sendPromise' = sendPromise
        /\ openStreams' = openStreams \ {<<s, stream[s].n>>}
    BY <1>5 DEF ChatLeft, ChatReplied, ChatClosed, OwnPromise
  <2>2. NoStream \in Streams /\ stream[s].n \in Nat
    BY <1>0 DEF NoStream, Streams, Promises, Resolved
  <2>3. r \in Streams /\ r.at = "none"
    BY <2>2 DEF NoStream, Streams
  <2> HIDE DEF r
  <2> QED BY <1>0, <2>1, <2>3, StreamSet DEF Reading
<1>6. ASSUME NEW entry, ChatContinue(s, entry) PROVE SInv'
  <2> DEFINE r == [at |-> "connecting", waitsFor |-> Resolved, n |-> stream[s].n + 1,
                   attempt |-> 1, hasToolCall |-> FALSE]
  <2>1. /\ stream' = [stream EXCEPT ![s] = r] /\ sendPromise' = <<s, stream[s].n + 1>>
        /\ openStreams' = openStreams \cup {<<s, stream[s].n + 1>>}
        /\ stream[s].at = "waiting"
    BY <1>0, <1>6 DEF ChatContinue
  <2>2. stream[s].n + 1 \in Nat
    BY <1>0 DEF Streams
  <2>3. r \in Streams /\ r.at = "connecting" /\ r.n = stream[s].n + 1
    BY <2>2 DEF Streams, Promises, Resolved
  <2>4. sendPromise' \in Promises
    BY <2>1, <2>2 DEF Promises
  <2> HIDE DEF r
  <2> QED BY <2>1, <2>3, <2>4, StreamSet DEF Reading
<1> QED BY <1>1, <1>2, <1>3, <1>4, <1>5, <1>6

LEMMA SStep == ASSUME SInv, [AcpNext]_acpVars PROVE SInv'
<1>1. ASSUME UNCHANGED <<sendPromise, openStreams, stream>> PROVE SInv'
  BY <1>1 DEF SInv
<1>2. ASSUME NEW p \in Senders, NEW message, NEW calls, LoopTop(p, message, calls) PROVE SInv'
  BY <1>1, <1>2, ChatStepKeeps DEF LoopTop
<1>3. ASSUME NEW p \in Senders, AcpStep(p) PROVE SInv'
  <2>1. CASE ResolvePrompt(p) \/ ToolsDone(p)
    BY <1>2, <2>1, ChatStepKeeps DEF ResolvePrompt, ToolsDone
  <2>2. CASE ResolveFails(p)
    BY <1>1, <2>2 DEF ResolveFails, chatVars
  <2>3. CASE Send(p)
    BY <2>3, ChatStepKeeps DEF Send
  <2>4. CASE Connect(p) \/ CallChunk(p) \/ Break(p) \/ Retry(p)
    BY <2>4, ChatStepKeeps DEF Connect, CallChunk, Break, Retry
  <2>5. CASE Leave(p) \/ Finish(p) \/ HookStops(p)
    BY <2>5, ChatStepKeeps DEF Leave, Finish, HookStops
  <2> QED BY <1>3, <2>1, <2>2, <2>3, <2>4, <2>5 DEF AcpStep
<1>4. CASE Cancel \/ \E p \in Senders : Prompt(p)
  BY <1>1, <1>4 DEF Cancel, Prompt, chatVars
<1>5. CASE UNCHANGED acpVars
  BY <1>1, <1>5 DEF acpVars, chatVars
<1> QED BY <1>3, <1>4, <1>5 DEF AcpNext

LEMMA AcpInitial == ASSUME AcpInit PROVE SInv
<1>1. NoStream \in Streams /\ NoStream.at = "none" /\ Resolved \in Promises
  BY DEF NoStream, Streams, Promises, Resolved
<1> QED BY <1>1 DEF AcpInit, ChatInit, SInv, Reading

\* No way out of a stream leaves the chat locked, and none unlocks it while
\* another stream is read, for any number of prompts (geminiChat.ts:427).
THEOREM LockOnlyWhileRead == AcpSpec => []LockHeldByReader
<1>1. AcpInit => SInv
  BY AcpInitial
<1>2. SInv /\ [AcpNext]_acpVars => SInv'
  BY SStep
<1>3. SInv => LockHeldByReader
  BY DEF SInv, LockHeldByReader, OwnPromise, Reading
<1> QED BY <1>1, <1>2, <1>3, PTL DEF AcpSpec

-------------------------------------------------------------------------------
AcpInv == SInv /\ AcpTypeOK

HistoryEntry == [by: Senders, kind: EntryKind, calls: Nat]

\* At most one prompt changes, and stays well formed.
PromptMoves ==
    \/ UNCHANGED prompt
    \/ \E p \in Senders : \E r \in Prompts : prompt' = [prompt EXCEPT ![p] = r]

LEMMA PromptChanged ==
  ASSUME AcpTypeOK, NEW p \in Senders, NEW at \in {"stream", "tools"}
  PROVE  /\ moved(p, at) \/ ended(p) => PromptMoves
         /\ prompt' = [prompt EXCEPT ![p].calls = 0] => PromptMoves
         /\ prompt' = [prompt EXCEPT ![p].calls = @ + 1] => PromptMoves
         /\ prompt' = [prompt EXCEPT ![p].at = "stream", ![p].rounds = @ + 1] => PromptMoves
<1> DEFINE a == prompt[p]
           b == [a EXCEPT !.at = "ended"]
           c == [b EXCEPT !.calls = 0]
           d == [a EXCEPT !.at = "stream"]
<1>1. prompt \in [Senders -> Prompts] /\ a \in Prompts
  BY DEF AcpTypeOK
<1>2. b \in Prompts /\ d \in Prompts
  BY <1>1 DEF Prompts
<1>3. c \in Prompts
  BY <1>2 DEF Prompts
<1>4. [c EXCEPT !.rounds = 0] \in Prompts
  BY <1>3 DEF Prompts
<1>5. [a EXCEPT !.at = at] \in Prompts /\ [a EXCEPT !.calls = 0] \in Prompts
      /\ [a EXCEPT !.calls = a.calls + 1] \in Prompts
  BY <1>1 DEF Prompts
<1>6. [d EXCEPT !.rounds = d.rounds + 1] \in Prompts
  <2> HIDE DEF d
  <2>1. d.rounds + 1 \in Nat
    BY <1>2 DEF Prompts
  <2> QED BY <1>2, <2>1 DEF Prompts
<1>7. moved(p, at) => PromptMoves
  BY <1>1, <1>5 DEF moved, PromptMoves
<1>8. ended(p) => PromptMoves
  <2>1. ended(p) => prompt' = [prompt EXCEPT ![p] = [c EXCEPT !.rounds = 0]]
    BY <1>1 DEF ended
  <2> HIDE DEF c
  <2> QED BY <1>4, <2>1 DEF PromptMoves
<1>9. /\ prompt' = [prompt EXCEPT ![p].calls = 0] => PromptMoves
      /\ prompt' = [prompt EXCEPT ![p].calls = @ + 1] => PromptMoves
  BY <1>1, <1>5 DEF PromptMoves
<1>10. prompt' = [prompt EXCEPT ![p].at = "stream", ![p].rounds = @ + 1] => PromptMoves
  <2>1. prompt' = [prompt EXCEPT ![p].at = "stream", ![p].rounds = @ + 1]
          => prompt' = [prompt EXCEPT ![p] = [d EXCEPT !.rounds = d.rounds + 1]]
    BY <1>1
  <2> HIDE DEF d
  <2> QED BY <1>6, <2>1 DEF PromptMoves
<1> QED BY <1>7, <1>8, <1>9, <1>10

\* A step's effect on what SInv leaves out.
LEMMA AcpStepTypes ==
  ASSUME AcpInv, NEW p \in Senders, AcpStep(p)
  PROVE  /\ PromptMoves /\ pendingPrompt' = pendingPrompt
         /\ UNCHANGED chatHistory \/ \E e \in HistoryEntry : addHistory(e)
<1>0. AcpTypeOK /\ prompt[p] \in Prompts /\ prompt[p].calls \in Nat
  BY DEF AcpInv, AcpTypeOK, Prompts
<1>1. \A kind \in {"prompt", "answer", "text", "call"}, n \in Nat : Entry(p, kind, n) \in HistoryEntry
  BY DEF Entry, HistoryEntry, EntryKind
<1>2. /\ \A at \in {"stream", "tools"} : moved(p, at) => PromptMoves
      /\ ended(p) => PromptMoves
      /\ prompt' = [prompt EXCEPT ![p].calls = 0] => PromptMoves
      /\ prompt' = [prompt EXCEPT ![p].calls = @ + 1] => PromptMoves
      /\ prompt' = [prompt EXCEPT ![p].at = "stream", ![p].rounds = @ + 1] => PromptMoves
  BY <1>0, PromptChanged
<1>3. pendingPrompt' = pendingPrompt
  BY DEF AcpStep, ResolvePrompt, ResolveFails, Send, Connect, CallChunk, Break, Retry, Leave,
         Finish, HookStops, ToolsDone
<1>4. ASSUME NEW message \in {"prompt", "answer"}, NEW n \in Nat, LoopTop(p, message, n)
      PROVE  PromptMoves /\ (UNCHANGED chatHistory \/ \E e \in HistoryEntry : addHistory(e))
  BY <1>1, <1>2, <1>4 DEF LoopTop
<1>5. CASE ResolvePrompt(p)
  BY <1>3, <1>4, <1>5 DEF ResolvePrompt
<1>6. CASE ResolveFails(p) \/ Leave(p)
  BY <1>2, <1>3, <1>6 DEF ResolveFails, Leave, chatVars
<1>7. CASE Send(p)
  BY <1>0, <1>1, <1>2, <1>3, <1>7 DEF Send, ChatContinue
<1>8. CASE Connect(p) \/ CallChunk(p) \/ Break(p) \/ Retry(p)
  BY <1>2, <1>3, <1>8 DEF Connect, CallChunk, Break, Retry, ChatConnected, ChatCallChunk, ChatBroke,
                          ChatRetry, PromptMoves
<1>9. CASE Finish(p) \/ HookStops(p)
  <2>1. PromptMoves
    BY <1>2, <1>9 DEF Finish, HookStops, afterStream
  <2>2. UNCHANGED chatHistory \/ \E e \in HistoryEntry : addHistory(e)
    BY <1>1, <1>9 DEF Finish, HookStops, ChatReplied
  <2> QED BY <1>3, <2>1, <2>2
<1>10. CASE ToolsDone(p)
  <2>1. CASE prompt[p].aborted
    BY <1>0, <1>3, <1>4, <1>10, <2>1 DEF ToolsDone
  <2>2. CASE ~prompt[p].aborted
    BY <1>2, <1>3, <1>10, <2>2 DEF ToolsDone
  <2> QED BY <2>1, <2>2
<1> QED BY <1>5, <1>6, <1>7, <1>8, <1>9, <1>10 DEF AcpStep

LEMMA AcpInvariant ==
  /\ AcpInit => AcpInv
  /\ AcpInv /\ [AcpNext]_acpVars => AcpInv'
  /\ AcpInv => AcpTypeOK
<1>0. SInv => openStreams \subseteq Promises
  <2> SUFFICES ASSUME SInv, NEW x \in openStreams PROVE x \in Promises
    OBVIOUS
  <2>1. PICK p \in Senders : x = <<p, stream[p].n>>
    BY DEF SInv
  <2>2. stream[p].n \in Nat
    BY DEF SInv, Streams
  <2> QED BY <2>1, <2>2 DEF Promises
<1>1. ASSUME AcpInit PROVE AcpInv
  <2>1. SInv
    BY <1>1, AcpInitial
  <2>2. chatHistory \in Seq(HistoryEntry)
    BY <1>1 DEF AcpInit, ChatInit
  <2>3. prompt \in [Senders -> Prompts] /\ pendingPrompt \in Senders \cup {0}
    BY <1>1 DEF AcpInit, Prompts
  <2> QED BY <1>0, <2>1, <2>2, <2>3 DEF AcpInv, AcpTypeOK, ChatTypeOK, SInv, HistoryEntry
<1>2. ASSUME AcpInv, [AcpNext]_acpVars PROVE AcpInv'
  <2>0. /\ chatHistory \in Seq(HistoryEntry) /\ prompt \in [Senders -> Prompts]
        /\ pendingPrompt \in Senders \cup {0}
    BY <1>2 DEF AcpInv, AcpTypeOK, ChatTypeOK, HistoryEntry
  <2>1. SInv'
    BY <1>2, SStep DEF AcpInv
  <2>2. SInv' => openStreams' \subseteq Promises
    <3> SUFFICES ASSUME SInv', NEW x \in openStreams' PROVE x \in Promises
      OBVIOUS
    <3>1. PICK p \in Senders : x = <<p, stream'[p].n>>
      BY DEF SInv
    <3>2. stream'[p].n \in Nat
      BY DEF SInv, Streams
    <3> QED BY <3>1, <3>2 DEF Promises
  <2>3. \/ PromptMoves /\ pendingPrompt' = pendingPrompt
           /\ (UNCHANGED chatHistory \/ \E e \in HistoryEntry : addHistory(e))
        \/ Cancel \/ (\E p \in Senders : Prompt(p)) \/ UNCHANGED acpVars
    BY <1>2, AcpStepTypes DEF AcpNext
  <2>4. ASSUME NEW f \in [Senders -> Prompts], NEW q \in Senders \cup {0}
        PROVE  abortPending(f) \in [Senders -> Prompts]
    <3>1. CASE pendingPrompt = 0
      BY <3>1 DEF abortPending
    <3>2. CASE pendingPrompt # 0
      <4>1. [f[pendingPrompt] EXCEPT !.aborted = TRUE] \in Prompts
        BY <2>0, <3>2 DEF Prompts
      <4> QED BY <2>0, <3>2, <4>1 DEF abortPending
    <3> QED BY <3>1, <3>2
  <2>5. prompt' \in [Senders -> Prompts] /\ pendingPrompt' \in Senders \cup {0}
        /\ (UNCHANGED chatHistory \/ \E e \in HistoryEntry : addHistory(e))
    <3>1. CASE PromptMoves /\ pendingPrompt' = pendingPrompt
               /\ (UNCHANGED chatHistory \/ \E e \in HistoryEntry : addHistory(e))
      BY <2>0, <3>1 DEF PromptMoves
    <3>2. CASE Cancel
      BY <2>0, <2>4, <3>2 DEF Cancel, chatVars
    <3>3. ASSUME NEW p \in Senders, Prompt(p) PROVE prompt' \in [Senders -> Prompts] /\ pendingPrompt' \in Senders /\ UNCHANGED chatHistory
      <4> DEFINE g == abortPending(prompt)
      <4>1. g \in [Senders -> Prompts]
        BY <2>0, <2>4
      <4>2. prompt' = [g EXCEPT ![p].at = "resolving"] /\ pendingPrompt' = p /\ UNCHANGED chatHistory
        BY <3>3 DEF Prompt, chatVars
      <4> HIDE DEF g
      <4>3. [g[p] EXCEPT !.at = "resolving"] \in Prompts
        BY <4>1 DEF Prompts
      <4> QED BY <4>1, <4>2, <4>3
    <3>4. CASE UNCHANGED acpVars
      BY <2>0, <3>4 DEF acpVars, chatVars
    <3> QED BY <2>3, <3>1, <3>2, <3>3, <3>4
  <2>6. chatHistory' \in Seq(HistoryEntry)
    <3>1. CASE UNCHANGED chatHistory
      BY <2>0, <3>1
    <3>2. ASSUME NEW e \in HistoryEntry, addHistory(e) PROVE chatHistory' \in Seq(HistoryEntry)
      <4> HIDE DEF HistoryEntry
      <4> QED BY <2>0, <3>2, AppendProperties DEF addHistory
    <3> QED BY <2>5, <3>1, <3>2
  <2> QED BY <2>1, <2>2, <2>5, <2>6 DEF AcpInv, AcpTypeOK, ChatTypeOK, SInv, HistoryEntry
<1> QED BY <1>1, <1>2 DEF AcpInv

\* The types of the chat and of the prompts, for any number of prompts and
\* rounds of tools (geminiChat.ts:236, zedIntegration.ts:245).
THEOREM AcpTypeCorrect == AcpSpec => []AcpTypeOK
BY AcpInvariant, PTL DEF AcpSpec

-------------------------------------------------------------------------------
(* TelemetryQueue: what is lost is old *)

\* The numbers in a sequence of events grow at least as its positions do.
Spread(h) == \A i, j \in 1 .. Len(h) : i < j => h[j] - h[i] >= j - i

Kept(held, got, n) == \A e \in 1 .. n : e > n - MAX_RETRY_EVENTS => e \in got \cup ToSet(held)

QInv ==
    /\ logged \in Nat
    /\ events \in Seq(1 .. logged) /\ Len(events) <= MAX_EVENTS
    /\ eventsToSend \in Seq(1 .. logged) /\ Len(eventsToSend) <= MAX_EVENTS
    /\ ~flushing => eventsToSend = <<>>
    /\ Spread(eventsToSend \o events)
    /\ Kept(eventsToSend \o events, received, logged)

\* mostRecent takes the end of a sequence.
LEMMA MostRecentIsEnd ==
  ASSUME NEW S, NEW s \in Seq(S), NEW n \in Nat
  PROVE  LET t == mostRecent(n, s) IN
         /\ t \in Seq(S) /\ Len(t) = IF n >= Len(s) THEN Len(s) ELSE n
         /\ \A i \in 1 .. Len(t) : t[i] = s[Len(s) - Len(t) + i]
<1> DEFINE t == mostRecent(n, s)
<1>0. Len(s) \in Nat
  OBVIOUS
<1>1. CASE n >= Len(s)
  <2>1. t = s
    BY <1>1 DEF mostRecent
  <2> QED BY <1>0, <1>1, <2>1
<1>2. CASE n < Len(s)
  <2>1. t = SubSeq(s, Len(s) - n + 1, Len(s))
    BY <1>0, <1>2 DEF mostRecent
  <2>2. \A i \in Len(s) - n + 1 .. Len(s) : s[i] \in S
    BY <1>0, <1>2
  <2>3. /\ t \in Seq(S) /\ Len(t) = n
        /\ \A i \in 1 .. n : t[i] = s[Len(s) - n + i]
    BY <1>0, <1>2, <2>1, <2>2
  <2> QED BY <1>0, <1>2, <2>3
<1> QED BY <1>0, <1>1, <1>2

\* What stays of a sequence when elements between two parts of it go: the
\* numbers that went are older than what followed them.
LEMMA Thinned ==
  ASSUME NEW n \in Nat, NEW h \in Seq(1 .. n), Spread(h), NEW g \in Seq(1 .. n),
         NEW k \in Nat, NEW drop \in Nat, NEW got,
         k <= Len(g), Len(g) + drop = Len(h),
         \A i \in 1 .. Len(g) : g[i] = IF i <= k THEN h[i] ELSE h[i + drop],
         drop = 0 \/ Len(h) - k - drop >= MAX_RETRY_EVENTS,
         Kept(h, got, n)
  PROVE  Spread(g) /\ Kept(g, got, n)
<1>0. Len(g) \in Nat /\ Len(h) \in Nat /\ MAX_RETRY_EVENTS \in Nat
  BY TelemetryAssumption
<1>1. ASSUME NEW i \in 1 .. Len(g), NEW j \in 1 .. Len(g), i < j
      PROVE  g[j] - g[i] >= j - i
  <2>0. \A m \in 1 .. Len(h) : h[m] \in Nat
    <3> SUFFICES ASSUME NEW m \in 1 .. Len(h) PROVE h[m] \in Nat
      OBVIOUS
    <3>1. h[m] \in 1 .. n
      BY ElementOfSeq
    <3> QED BY <3>1
  <2>1. CASE j <= k
    <3>1. g[i] = h[i] /\ g[j] = h[j]
      BY SMTT(30), <1>0, <1>1, <2>1
    <3>2. i \in 1 .. Len(h) /\ j \in 1 .. Len(h)
      BY SMTT(30), <1>0, <1>1
    <3>3. h[j] - h[i] >= j - i
      BY <1>1, <3>2 DEF Spread
    <3> QED BY <3>1, <3>3
  <2>2. CASE i <= k /\ ~(j <= k)
    <3>1. g[i] = h[i] /\ g[j] = h[j + drop]
      BY <1>0, <1>1, <2>2
    <3>2. i \in 1 .. Len(h) /\ j + drop \in 1 .. Len(h) /\ i < j + drop
      BY SMTT(30), <1>0, <1>1
    <3>3. h[j + drop] - h[i] >= (j + drop) - i
      BY <3>2 DEF Spread
    <3> DEFINE b == h[j + drop]
               a == h[i]
    <3>4. a \in Nat /\ b \in Nat /\ i \in Nat /\ j \in Nat /\ b - a >= (j + drop) - i
      BY <1>0, <1>1, <2>0, <3>2, <3>3
    <3> HIDE DEF a, b
    <3>5. b - a >= j - i
      BY <3>4
    <3> USE DEF a, b
    <3> QED BY <3>1, <3>5
  <2>3. CASE ~(i <= k)
    <3>1. g[i] = h[i + drop] /\ g[j] = h[j + drop]
      BY <1>0, <1>1, <2>3
    <3>2. i + drop \in 1 .. Len(h) /\ j + drop \in 1 .. Len(h) /\ i + drop < j + drop
      BY SMTT(30), <1>0, <1>1
    <3>3. h[j + drop] - h[i + drop] >= (j + drop) - (i + drop)
      BY <3>2 DEF Spread
    <3> QED BY <1>0, <1>1, <2>0, <3>1, <3>2, <3>3
  <2> QED BY <2>1, <2>2, <2>3
<1>2. ASSUME NEW e \in 1 .. n, e > n - MAX_RETRY_EVENTS, e \notin got
      PROVE  e \in ToSet(g)
  <2>1. e \in ToSet(h)
    BY <1>2 DEF Kept
  <2>2. PICK m \in 1 .. Len(h) : h[m] = e
    BY <2>1 DEF ToSet
  <2>3. ~(k < m /\ m <= k + drop)
    <3> SUFFICES ASSUME k < m, m <= k + drop PROVE FALSE
      OBVIOUS
    <3>1. Len(h) - m >= MAX_RETRY_EVENTS
      BY <1>0, <2>2
    <3>2. h[Len(h)] \in 1 .. n
      BY <1>0, <2>2
    <3>3. CASE m = Len(h)
      BY <1>0, <1>2, <2>2, <3>1, <3>3, TelemetryAssumption
    <3>4. CASE m < Len(h)
      <4>0. Len(h) \in 1 .. Len(h)
        BY <1>0, <2>2
      <4>1. h[Len(h)] - h[m] >= Len(h) - m
        BY <2>2, <3>4, <4>0 DEF Spread
      <4> QED BY SMTT(30), <1>0, <1>2, <2>2, <3>1, <3>2, <4>1
    <3> QED BY <1>0, <2>2, <3>3, <3>4
  <2>4. CASE m <= k
    <3>1. m \in 1 .. Len(g) /\ g[m] = e
      BY SMTT(30), <1>0, <2>2, <2>4
    <3> QED BY <3>1 DEF ToSet
  <2>5. CASE m > k + drop
    <3>1. m - drop \in 1 .. Len(g) /\ ~(m - drop <= k)
      BY <1>0, <2>2, <2>5
    <3>2. g[m - drop] = h[(m - drop) + drop]
      BY <3>1
    <3>3. (m - drop) + drop = m
      BY <1>0, <2>2
    <3> QED BY <2>2, <3>1, <3>2, <3>3 DEF ToSet
  <2> QED BY <2>2, <2>3, <2>4, <2>5
<1> QED BY <1>1, <1>2 DEF Spread, Kept

\* An event logged into a queue with room, or into a full one.
LEMMA EnqueueKeeps == ASSUME QInv, enqueueHelper PROVE QInv'
<1> DEFINE n == logged + 1
           held == eventsToSend \o events
           longer == held \o <<n>>
           grown == Append(events, n)
<1>1. /\ logged \in Nat /\ n \in Nat /\ n > logged
      /\ Len(events) \in Nat /\ Len(eventsToSend) \in Nat
      /\ MAX_EVENTS \in Nat \ {0} /\ MAX_RETRY_EVENTS \in Nat /\ MAX_RETRY_EVENTS <= MAX_EVENTS
      /\ Len(events) <= MAX_EVENTS
  BY TelemetryAssumption DEF QInv
<1>2. 1 .. logged \subseteq 1 .. n /\ n \in 1 .. n
  BY <1>1
<1>3. events \in Seq(1 .. n) /\ eventsToSend \in Seq(1 .. n)
  BY <1>1, <1>2 DEF QInv
<1>4. held \in Seq(1 .. logged) /\ Len(held) = Len(eventsToSend) + Len(events)
  BY ConcatProperties DEF QInv
<1>5. /\ longer \in Seq(1 .. n) /\ Len(longer) = Len(held) + 1
      /\ \A i \in 1 .. Len(held) : longer[i] = held[i]
      /\ longer[Len(held) + 1] = n
  <2> HIDE DEF held, n
  <2>0. \A i \in 1 .. Len(held) : held[i] \in 1 .. n
    <3> SUFFICES ASSUME NEW i \in 1 .. Len(held) PROVE held[i] \in 1 .. n
      OBVIOUS
    <3>1. held[i] \in 1 .. logged
      BY <1>4, ElementOfSeq
    <3> QED BY <1>2, <3>1
  <2>1. /\ held \in Seq(1 .. n)
        /\ <<n>> \in Seq(1 .. n) /\ Len(<<n>>) = 1
    <3> DEFINE S == 1 .. n
    <3>1. n \in S /\ \A i \in 1 .. Len(held) : held[i] \in S
      BY <1>2, <2>0
    <3>2. held \in Seq(1 .. logged)
      BY <1>4
    <3> HIDE DEF S
    <3>3. <<n>> \in Seq(S) /\ Len(<<n>>) = 1
      BY <3>1
    <3>4. held \in Seq(S)
      BY <3>1, <3>2
    <3> QED BY <3>3, <3>4 DEF S
  <2>2. /\ longer \in Seq(1 .. n) /\ Len(longer) = Len(held) + 1
        /\ \A i \in 1 .. Len(held) + 1 : longer[i] = IF i <= Len(held) THEN held[i] ELSE <<n>>[i - Len(held)]
    BY <2>1, ConcatProperties
  <2>3. Len(held) \in Nat
    BY <2>1
  <2> QED BY <2>2, <2>3
<1>6. grown \in Seq(1 .. n) /\ Len(grown) = Len(events) + 1
      /\ (\A i \in 1 .. Len(events) : grown[i] = events[i]) /\ grown[Len(events) + 1] = n
  BY <1>1, <1>2, <1>3
<1>7. Spread(longer)
  <2> SUFFICES ASSUME NEW i \in 1 .. Len(longer), NEW j \in 1 .. Len(longer), i < j
               PROVE  longer[j] - longer[i] >= j - i
    BY DEF Spread
  <2> HIDE DEF longer, held
  <2>0. Len(held) \in Nat /\ (\A m \in 1 .. Len(held) : held[m] \in 1 .. logged) /\ Spread(held)
    BY SMTT(30), <1>4 DEF QInv, held
  <2>1. i \in 1 .. Len(held) /\ longer[i] = held[i]
    BY <1>5, <2>0
  <2>2. CASE j <= Len(held)
    <3>1. j \in 1 .. Len(held) /\ longer[j] = held[j]
      BY <1>5, <2>0, <2>2
    <3> QED BY <2>0, <2>1, <3>1 DEF Spread
  <2>3. CASE j = Len(held) + 1
    <3>1. longer[j] = n
      BY <1>5, <2>3
    <3>2. CASE i = Len(held)
      BY <1>1, <2>0, <2>1, <2>3, <3>1, <3>2
    <3>3. CASE i < Len(held)
      <4>1. held[Len(held)] - held[i] >= Len(held) - i
        BY <2>0, <2>1, <3>3 DEF Spread
      <4>2. held[Len(held)] \in 1 .. logged
        BY <2>0, <2>1, <3>3
      <4>3. longer[j] - longer[i] >= held[Len(held)] + 1 - held[i]
        <5>1. n >= held[Len(held)] + 1
          BY <1>1, <4>2
        <5>2. longer[j] = n /\ longer[i] = held[i]
          BY <2>1, <3>1
        <5>3. held[i] \in Nat /\ held[Len(held)] \in Nat /\ n \in Nat
          BY <1>1, <2>0, <2>1, <4>2
        <5> HIDE DEF n
        <5> QED BY <5>1, <5>2, <5>3
      <4>4. held[i] \in Nat /\ held[Len(held)] \in Nat /\ longer[j] \in Nat /\ longer[i] \in Nat
        BY <1>1, <2>0, <2>1, <3>1, <4>2
      <4> QED BY <2>0, <2>1, <2>3, <4>1, <4>3, <4>4
    <3> QED BY <2>0, <2>1, <3>2, <3>3
  <2> QED BY <1>5, <2>0, <2>2, <2>3
<1>8. Kept(longer, received, n)
  <2> SUFFICES ASSUME NEW e \in 1 .. n, e > n - MAX_RETRY_EVENTS, e \notin received
               PROVE  e \in ToSet(longer)
    BY DEF Kept
  <2> HIDE DEF longer
  <2>1. CASE e = n
    BY SMTT(30), <1>4, <1>5, <2>1 DEF ToSet
  <2>2. CASE e # n
    <3>1. e \in 1 .. logged /\ e > logged - MAX_RETRY_EVENTS
      BY <1>1, <2>2
    <3>2. e \in ToSet(held)
      BY <3>1 DEF QInv, Kept
    <3> HIDE DEF held
    <3>3. PICK m \in 1 .. Len(held) : held[m] = e
      BY <1>4, <3>2 DEF ToSet
    <3>4. m \in 1 .. Len(longer) /\ longer[m] = e
      BY <1>5, <3>3, <1>4
    <3> QED BY <1>5, <3>4 DEF ToSet
  <2> QED BY <2>1, <2>2
<1>9. CASE Len(events) < MAX_EVENTS
  <2>1. events' = grown
    BY <1>1, <1>6, <1>9 DEF enqueueHelper, mostRecent
  <2>2. eventsToSend \o grown = longer
    BY <1>3, <1>6
  <2>3. (eventsToSend \o events)' = longer
    BY <2>1, <2>2 DEF enqueueHelper
  <2> HIDE DEF longer, grown
  <2>4. Len(grown) <= MAX_EVENTS
    BY <1>1, <1>6, <1>9
  <2>5. /\ logged' = n /\ UNCHANGED <<eventsToSend, flushing, received>>
        /\ ~flushing => eventsToSend = <<>>
    BY DEF QInv, enqueueHelper
  <2> QED BY <1>1, <1>3, <1>6, <1>7, <1>8, <2>1, <2>3, <2>4, <2>5 DEF QInv, Kept
<1>10. CASE Len(events) = MAX_EVENTS
  <2> DEFINE newer == mostRecent(MAX_EVENTS, grown)
             g == eventsToSend \o newer
  <2>1. newer \in Seq(1 .. n) /\ Len(newer) = MAX_EVENTS
        /\ \A i \in 1 .. MAX_EVENTS : newer[i] = grown[1 + i]
    <3> HIDE DEF grown
    <3>1. /\ newer \in Seq(1 .. n) /\ Len(newer) = IF MAX_EVENTS >= Len(grown) THEN Len(grown) ELSE MAX_EVENTS
          /\ \A i \in 1 .. Len(newer) : newer[i] = grown[Len(grown) - Len(newer) + i]
      BY SMTT(30), <1>1, <1>6, MostRecentIsEnd
    <3>2. Len(newer) = MAX_EVENTS /\ Len(grown) - MAX_EVENTS = 1
      BY <1>1, <1>6, <1>10, <3>1
    <3> QED BY <3>1, <3>2
  <2>2. g \in Seq(1 .. n) /\ Len(g) = Len(eventsToSend) + MAX_EVENTS
        /\ \A i \in 1 .. Len(g) : g[i] = IF i <= Len(eventsToSend) THEN eventsToSend[i]
                                                  ELSE newer[i - Len(eventsToSend)]
    <3> HIDE DEF newer, grown
    <3>1. eventsToSend \in Seq(1 .. n) /\ newer \in Seq(1 .. n)
      BY <1>3, <2>1
    <3>2. /\ g \in Seq(1 .. n) /\ Len(g) = Len(eventsToSend) + Len(newer)
          /\ \A i \in 1 .. Len(eventsToSend) + Len(newer) :
                 g[i] = IF i <= Len(eventsToSend) THEN eventsToSend[i] ELSE newer[i - Len(eventsToSend)]
      BY <3>1, ConcatProperties
    <3> HIDE DEF g
    <3> QED BY <2>1, <3>2
  <2>3. \A i \in 1 .. Len(g) : g[i] = IF i <= Len(eventsToSend) THEN longer[i] ELSE longer[i + 1]
    <3> SUFFICES ASSUME NEW i \in 1 .. Len(g)
                 PROVE  g[i] = IF i <= Len(eventsToSend) THEN longer[i] ELSE longer[i + 1]
      OBVIOUS
    <3>0. \A m \in 1 .. Len(held) : held[m] = IF m <= Len(eventsToSend) THEN eventsToSend[m]
                                                     ELSE events[m - Len(eventsToSend)]
      BY <1>4, ConcatProperties DEF QInv
    <3> HIDE DEF newer, g, longer, held, grown
    <3>1. CASE i <= Len(eventsToSend)
      <4>1. g[i] = eventsToSend[i]
        BY <2>2, <3>1
      <4>2. i \in 1 .. Len(held)
        BY <1>1, <1>4, <3>1, <2>2
      <4>3. longer[i] = held[i] /\ held[i] = eventsToSend[i]
        BY <1>5, <4>2, <3>0, <3>1
      <4> QED BY <3>1, <4>1, <4>3
    <3>2. CASE ~(i <= Len(eventsToSend))
      <4> DEFINE m == i - Len(eventsToSend)
      <4>1. m \in 1 .. MAX_EVENTS /\ 1 + m \in 1 .. Len(events) + 1
        BY <1>1, <1>10, <2>2, <3>2
      <4>2. g[i] = grown[1 + m]
        BY <2>1, <2>2, <3>2, <4>1
      <4>3. CASE m = MAX_EVENTS
        <5>1. 1 + m = Len(events) + 1 /\ i + 1 = Len(held) + 1
          BY <1>1, <1>4, <1>10, <4>3, <2>2
        <5>2. g[i] = n /\ longer[i + 1] = n
          BY <1>5, <1>6, <4>2, <5>1
        <5> QED BY <3>2, <5>2
      <4>4. CASE m # MAX_EVENTS
        <5>0. i \in Nat /\ i <= Len(eventsToSend) + MAX_EVENTS /\ Len(held) = Len(eventsToSend) + MAX_EVENTS
              /\ i # Len(eventsToSend) + MAX_EVENTS
          BY <1>1, <1>4, <1>10, <2>2, <4>4
        <5>1. 1 + m \in 1 .. Len(events) /\ i + 1 \in 1 .. Len(held) /\ (i + 1) - Len(eventsToSend) = 1 + m
              /\ ~(i + 1 <= Len(eventsToSend))
          BY <1>1, <1>10, <3>2, <4>1, <5>0
        <5>2. g[i] = events[1 + m]
          BY <1>6, <4>2, <5>1
        <5>3. longer[i + 1] = held[i + 1] /\ held[i + 1] = events[(i + 1) - Len(eventsToSend)]
          BY <1>5, <3>0, <5>1
        <5>4. g[i] = longer[i + 1]
          BY <5>1, <5>2, <5>3
        <5> QED BY <3>2, <5>4
      <4> QED BY <4>3, <4>4
    <3> QED BY <3>1, <3>2
  <2>4. Len(eventsToSend) <= Len(g) /\ Len(g) + 1 = Len(longer)
        /\ Len(longer) - Len(eventsToSend) - 1 >= MAX_RETRY_EVENTS
    <3>1. Len(g) = Len(eventsToSend) + MAX_EVENTS /\ Len(longer) = Len(eventsToSend) + MAX_EVENTS + 1
      BY <1>4, <1>5, <1>10, <2>2
    <3> HIDE DEF newer, g, longer, held, grown
    <3> QED BY <1>1, <3>1
  <2>5. (eventsToSend \o events)' = g /\ events' = newer
    BY DEF enqueueHelper
  <2> HIDE DEF newer, g, longer, held, grown
  <2>6. Spread(g) /\ Kept(g, received, n)
    BY <1>1, <1>5, <1>7, <1>8, <2>2, <2>3, <2>4, Thinned
  <2>7. /\ logged' = n /\ UNCHANGED <<eventsToSend, flushing, received>>
        /\ ~flushing => eventsToSend = <<>>
        /\ Len(eventsToSend) <= MAX_EVENTS
    BY DEF QInv, enqueueHelper
  <2>8. newer \in Seq(1 .. n) /\ Len(newer) <= MAX_EVENTS
    BY <1>1, <2>1
  <2> HIDE DEF n
  <2> QED BY <1>1, <1>3, <2>5, <2>6, <2>7, <2>8 DEF QInv, Kept
<1> QED BY <1>1, <1>9, <1>10

\* The queue a flush leaves, whoever takes it.
LEMMA QueueKeeps ==
  ASSUME QInv, UNCHANGED logged, NEW queue \in Seq(1 .. logged),
         Len(queue) <= MAX_EVENTS, Spread(queue), Kept(queue, received', logged),
         \/ flushStarts(queue)
         \/ flushing' = FALSE /\ eventsToSend' = <<>> /\ events' = queue
  PROVE  QInv'
<1>1. <<>> \in Seq(1 .. logged) /\ Len(<<>>) = 0 /\ 0 <= MAX_EVENTS
  BY TelemetryAssumption
<1>2. <<>> \o queue = queue /\ queue \o <<>> = queue
  OBVIOUS
<1>3. CASE flushStarts(queue)
  <2>1. flushing' = TRUE /\ eventsToSend' = queue /\ events' = <<>>
    BY <1>3 DEF flushStarts
  <2>2. (eventsToSend \o events)' = queue
    BY <1>2, <2>1
  <2> QED BY <1>1, <2>1, <2>2 DEF QInv, Kept
<1>4. CASE flushing' = FALSE /\ eventsToSend' = <<>> /\ events' = queue
  <2>1. (eventsToSend \o events)' = queue
    BY <1>2, <1>4
  <2> QED BY <1>1, <1>4, <2>1 DEF QInv, Kept
<1> QED BY <1>3, <1>4

\* A flush that ends: the service has what was sent, or what goes back to the
\* queue is enough.
LEMMA FlushEndKeeps ==
  ASSUME QInv, NEW accepted \in BOOLEAN, NEW readable \in BOOLEAN, FlushEnds(accepted, readable)
  PROVE  QInv'
<1> DEFINE n == logged
           held == eventsToSend \o events
           queue == IF accepted /\ readable THEN events ELSE requeueFailedEvents(eventsToSend)
<1>1. /\ n \in Nat /\ Len(events) \in Nat /\ Len(eventsToSend) \in Nat
      /\ MAX_EVENTS \in Nat \ {0} /\ MAX_RETRY_EVENTS \in Nat /\ MAX_RETRY_EVENTS <= MAX_EVENTS
      /\ Len(events) <= MAX_EVENTS
      /\ events \in Seq(1 .. n) /\ eventsToSend \in Seq(1 .. n)
  BY TelemetryAssumption DEF QInv
<1>2. /\ held \in Seq(1 .. n) /\ Len(held) = Len(eventsToSend) + Len(events)
      /\ \A i \in 1 .. Len(held) : held[i] = IF i <= Len(eventsToSend) THEN eventsToSend[i]
                                              ELSE events[i - Len(eventsToSend)]
  BY <1>1, ConcatProperties
<1>3. Spread(held) /\ Kept(held, received, n)
  BY DEF QInv
<1>4. /\ received' = IF accepted THEN received \cup ToSet(eventsToSend) ELSE received
      /\ UNCHANGED logged
      /\ \/ flushStarts(queue)
         \/ flushing' = FALSE /\ eventsToSend' = <<>> /\ events' = queue
  BY DEF FlushEnds
<1>5. received \subseteq received'
  <2>1. CASE accepted
    BY <1>4, <2>1
  <2>2. CASE ~accepted
    BY <1>4, <2>2
  <2> QED BY <2>1, <2>2
<1> HIDE DEF held
<1>6. CASE accepted /\ readable
  <2>1. queue = events /\ received' = received \cup ToSet(eventsToSend)
    BY <1>4, <1>6
  <2>2. Spread(events)
    <3> SUFFICES ASSUME NEW i \in 1 .. Len(events), NEW j \in 1 .. Len(events), i < j
                 PROVE  events[j] - events[i] >= j - i
      BY DEF Spread
    <3> DEFINE k == Len(eventsToSend)
    <3>1. /\ k + i \in 1 .. Len(held) /\ k + j \in 1 .. Len(held) /\ k + i < k + j
          /\ ~(k + i <= k) /\ ~(k + j <= k) /\ (k + i) - k = i /\ (k + j) - k = j
          /\ (k + j) - (k + i) = j - i
      BY SMTT(30), <1>1, <1>2
    <3>2. held[k + i] = events[i] /\ held[k + j] = events[j]
      BY <1>2, <3>1
    <3>3. held[k + j] - held[k + i] >= (k + j) - (k + i)
      BY <1>3, <3>1 DEF Spread
    <3> QED BY <3>1, <3>2, <3>3
  <2>3. Kept(events, received', n)
    <3> SUFFICES ASSUME NEW e \in 1 .. n, e > n - MAX_RETRY_EVENTS, e \notin received'
                 PROVE  e \in ToSet(events)
      BY DEF Kept
    <3>1. e \in ToSet(held) /\ e \notin ToSet(eventsToSend)
      BY <1>3, <2>1 DEF Kept
    <3>2. PICK m \in 1 .. Len(held) : held[m] = e
      BY <1>2, <3>1 DEF ToSet
    <3>3. ~(m <= Len(eventsToSend))
      <4> SUFFICES ASSUME m <= Len(eventsToSend) PROVE FALSE
        OBVIOUS
      <4>1. m \in 1 .. Len(eventsToSend) /\ eventsToSend[m] = e
        BY SMTT(30), <1>1, <1>2, <3>2
      <4> QED BY <1>1, <3>1, <4>1 DEF ToSet
    <3>4. m - Len(eventsToSend) \in 1 .. Len(events) /\ events[m - Len(eventsToSend)] = e
      BY <1>1, <1>2, <3>2, <3>3
    <3> QED BY <1>1, <3>4 DEF ToSet
  <2> HIDE DEF queue
  <2> QED BY <1>1, <1>4, <2>1, <2>2, <2>3, QueueKeeps
<1>7. CASE ~(accepted /\ readable)
  <2> DEFINE last == mostRecent(MAX_RETRY_EVENTS, eventsToSend)
             t == mostRecent(MAX_EVENTS - Len(events), last)
             drop == Len(eventsToSend) - Len(t)
  <2>1. queue = t \o events
    BY <1>7 DEF requeueFailedEvents
  <2>2. /\ last \in Seq(1 .. n)
        /\ Len(last) = IF MAX_RETRY_EVENTS >= Len(eventsToSend) THEN Len(eventsToSend) ELSE MAX_RETRY_EVENTS
        /\ \A i \in 1 .. Len(last) : last[i] = eventsToSend[Len(eventsToSend) - Len(last) + i]
    BY <1>1, MostRecentIsEnd
  <2>3. Len(last) \in Nat /\ Len(last) <= Len(eventsToSend) /\ MAX_EVENTS - Len(events) \in Nat
    BY <1>1, <2>2
  <2> HIDE DEF last
  <2>4. /\ t \in Seq(1 .. n)
        /\ Len(t) = IF MAX_EVENTS - Len(events) >= Len(last) THEN Len(last) ELSE MAX_EVENTS - Len(events)
        /\ \A i \in 1 .. Len(t) : t[i] = last[Len(last) - Len(t) + i]
    BY <2>2, <2>3, MostRecentIsEnd
  <2> HIDE DEF t
  <2>5. /\ Len(t) \in Nat /\ Len(t) <= Len(last) /\ drop \in Nat
        /\ Len(t) + Len(events) <= MAX_EVENTS
        /\ drop = 0 \/ Len(t) + Len(events) >= MAX_RETRY_EVENTS
    BY <1>1, <2>2, <2>3, <2>4
  <2>6. \A i \in 1 .. Len(t) : t[i] = eventsToSend[i + drop]
    <3> SUFFICES ASSUME NEW i \in 1 .. Len(t) PROVE t[i] = eventsToSend[i + drop]
      OBVIOUS
    <3>1. Len(last) - Len(t) + i \in 1 .. Len(last)
          /\ Len(eventsToSend) - Len(last) + (Len(last) - Len(t) + i) = i + drop
      BY <1>1, <2>3, <2>5
    <3> QED BY <2>2, <2>4, <3>1
  <2>7. /\ queue \in Seq(1 .. n) /\ Len(queue) = Len(t) + Len(events)
        /\ \A i \in 1 .. Len(queue) : queue[i] = IF i <= Len(t) THEN t[i] ELSE events[i - Len(t)]
    <3>1. t \in Seq(1 .. n) /\ events \in Seq(1 .. n)
      BY <1>1, <2>4
    <3> DEFINE joined == t \o events
    <3>2. /\ joined \in Seq(1 .. n) /\ Len(joined) = Len(t) + Len(events)
          /\ \A i \in 1 .. Len(t) + Len(events) :
                 joined[i] = IF i <= Len(t) THEN t[i] ELSE events[i - Len(t)]
      BY <3>1, ConcatProperties
    <3>3. queue = joined
      BY <2>1
    <3> HIDE DEF joined, queue
    <3> QED BY <3>2, <3>3
  <2> HIDE DEF queue
  <2>8. \A i \in 1 .. Len(queue) : queue[i] = held[i + drop]
    <3> SUFFICES ASSUME NEW i \in 1 .. Len(queue) PROVE queue[i] = held[i + drop]
      OBVIOUS
    <3>0. i \in 1 .. Len(t) + Len(events) /\ Len(held) = Len(eventsToSend) + Len(events)
      BY <1>2, <2>7
    <3>1. i + drop \in 1 .. Len(held) /\ (i + drop) - Len(eventsToSend) = i - Len(t)
          /\ (i <= Len(t) <=> i + drop <= Len(eventsToSend))
      BY <1>1, <2>5, <3>0
    <3>2. CASE i <= Len(t)
      <4>1. i \in 1 .. Len(t)
        BY <2>5, <2>7, <3>2
      <4> QED BY <1>2, <2>6, <2>7, <3>1, <3>2, <4>1
    <3>3. CASE ~(i <= Len(t))
      BY <1>2, <2>7, <3>1, <3>3
    <3> QED BY <3>2, <3>3
  <2>9. \A i \in 1 .. Len(queue) : queue[i] = IF i <= 0 THEN held[i] ELSE held[i + drop]
    BY <2>8
  <2>10. 0 \in Nat /\ 0 <= Len(queue) /\ Len(queue) + drop = Len(held)
         /\ (drop = 0 \/ Len(held) - 0 - drop >= MAX_RETRY_EVENTS)
    BY <1>1, <1>2, <2>5, <2>7
  <2>11. Kept(held, received', n)
    BY <1>3, <1>5 DEF Kept
  <2> HIDE DEF drop
  <2>12. drop \in Nat
    BY <2>5
  <2>13. Spread(queue) /\ Kept(queue, received', n)
    BY <1>1, <1>2, <1>3, <2>7, <2>9, <2>10, <2>11, <2>12, Thinned
  <2>14. Len(queue) <= MAX_EVENTS
    BY <2>5, <2>7
  <2> QED BY <1>4, <2>7, <2>13, <2>14, QueueKeeps
<1> QED BY <1>6, <1>7

LEMMA QStep == QInv /\ [TelemetryNext]_telemetryVars => QInv'
<1> SUFFICES ASSUME QInv, [TelemetryNext]_telemetryVars PROVE QInv'
  OBVIOUS
<1>1. CASE enqueueHelper
  BY <1>1, EnqueueKeeps
<1>2. CASE flushToClearcut
  <2>1. CASE flushing
    BY <1>2, <2>1 DEF flushToClearcut, QInv, Kept
  <2>2. CASE ~flushing
    <3>1. eventsToSend \o events = events
      BY <2>2 DEF QInv
    <3>2. events \in Seq(1 .. logged) /\ Len(events) <= MAX_EVENTS
          /\ Spread(events) /\ Kept(events, received, logged)
      BY <3>1 DEF QInv
    <3>3. flushStarts(events) /\ UNCHANGED logged /\ received' = received
      BY <1>2, <2>2 DEF flushToClearcut
    <3> QED BY <3>2, <3>3, QueueKeeps
  <2> QED BY <2>1, <2>2
<1>3. CASE flushStep
  BY <1>3, FlushEndKeeps DEF flushStep
<1>4. CASE UNCHANGED telemetryVars
  BY <1>4 DEF telemetryVars, QInv, Kept
<1> QED BY <1>1, <1>2, <1>3, <1>4 DEF TelemetryNext

LEMMA TelemetryInitial == ASSUME TelemetryInit PROVE QInv
<1>1. events = <<>> /\ eventsToSend = <<>> /\ logged = 0 /\ eventsToSend \o events = <<>>
  BY DEF TelemetryInit
<1> QED BY <1>1, TelemetryAssumption DEF QInv, Spread, Kept

\* For every size of the queue and of the part that is sent again: the queue
\* stays in order and without repetition, and none of the last
\* MAX_RETRY_EVENTS events is lost before the service has it
\* (clearcut-logger.ts:1487).
THEOREM RecentEventsStay == TelemetrySpec => []RecentEventsKept
<1>1. TelemetryInit => QInv
  BY TelemetryInitial
<1>2. QInv /\ [TelemetryNext]_telemetryVars => QInv'
  BY QStep
<1>3. QInv => RecentEventsKept
  <2> SUFFICES ASSUME QInv PROVE RecentEventsKept
    OBVIOUS
  <2> DEFINE held == eventsToSend \o events
  <2>1. held \in Seq(1 .. logged) /\ Spread(held) /\ Kept(held, received, logged) /\ logged \in Nat
    BY ConcatProperties DEF QInv
  <2> HIDE DEF held
  <2>2. ASSUME NEW i \in 1 .. Len(held), NEW j \in 1 .. Len(held), i < j
        PROVE  held[i] < held[j]
    <3>1. held[j] - held[i] >= j - i
      BY <2>1, <2>2 DEF Spread
    <3>2. held[i] \in 1 .. logged /\ held[j] \in 1 .. logged
      BY <2>1
    <3> QED BY <2>1, <2>2, <3>1, <3>2
  <2> QED BY <2>1, <2>2 DEF RecentEventsKept, Kept, held
<1> QED BY <1>1, <1>2, <1>3, PTL DEF TelemetrySpec

-------------------------------------------------------------------------------
TelemetryInv ==
    /\ QInv /\ logged <= MaxLogged /\ received \subseteq 1 .. logged
    /\ flushing \in BOOLEAN /\ pendingFlush \in BOOLEAN

LEMMA TelemetryInvariant ==
  /\ TelemetryInit => TelemetryInv
  /\ TelemetryInv /\ [TelemetryNext]_telemetryVars => TelemetryInv'
  /\ TelemetryInv => TelemetryTypeOK
<1>1. ASSUME TelemetryInit PROVE TelemetryInv
  <2>1. QInv
    BY <1>1, TelemetryInitial
  <2>2. logged <= MaxLogged /\ received \subseteq 1 .. logged
    BY <1>1, TelemetryAssumption DEF TelemetryInit
  <2>3. flushing \in BOOLEAN /\ pendingFlush \in BOOLEAN
    BY <1>1 DEF TelemetryInit
  <2> QED BY <2>1, <2>2, <2>3 DEF TelemetryInv
<1>2. ASSUME TelemetryInv, [TelemetryNext]_telemetryVars PROVE TelemetryInv'
  <2>1. QInv'
    BY <1>2, QStep DEF TelemetryInv
  <2>2. logged \in Nat /\ MaxLogged \in Nat /\ ToSet(eventsToSend) \subseteq 1 .. logged
        /\ logged <= MaxLogged
    BY <1>2, TelemetryAssumption DEF TelemetryInv, QInv, ToSet
  <2>3. CASE enqueueHelper
    BY <1>2, <2>1, <2>2, <2>3 DEF enqueueHelper, TelemetryInv
  <2>4. CASE flushToClearcut
    BY <1>2, <2>1, <2>4 DEF flushToClearcut, flushStarts, TelemetryInv
  <2>5. ASSUME NEW accepted \in BOOLEAN, NEW readable \in BOOLEAN, FlushEnds(accepted, readable)
        PROVE  TelemetryInv'
    <3>1. received' \in {received, received \cup ToSet(eventsToSend)} /\ logged' = logged
      BY <2>5 DEF FlushEnds
    <3>2. /\ flushing' \in BOOLEAN
          /\ pendingFlush' \in {pendingFlush, FALSE}
      BY <2>5 DEF FlushEnds, flushStarts
    <3> QED BY <1>2, <2>1, <2>2, <3>1, <3>2 DEF TelemetryInv
  <2>6. CASE UNCHANGED telemetryVars
    BY <1>2, <2>1, <2>6 DEF telemetryVars, TelemetryInv
  <2> QED BY <1>2, <2>3, <2>4, <2>5, <2>6 DEF TelemetryNext, flushStep
<1>3. TelemetryInv => TelemetryTypeOK
  BY TelemetryAssumption DEF TelemetryInv, QInv, TelemetryTypeOK
<1> QED BY <1>1, <1>2, <1>3

\* The types of the queue and of the flush, for queues of every size
\* (clearcut-logger.ts:208).
THEOREM TelemetryTypeCorrect == TelemetrySpec => []TelemetryTypeOK
BY TelemetryInvariant, PTL DEF TelemetrySpec

================================================================================
