----------------------- MODULE CoreToolSchedulerProofs -----------------------
(***************************************************************************)
(* Theorems about CoreToolScheduler, for all values of its constants.      *)
(***************************************************************************)
EXTENDS CoreToolScheduler, SequenceLemmas, SequenceTheorems, TLAPS

(* Filtering a queue leaves a queue of the same elements.                  *)
LEMMA KeepType ==
  ASSUME NEW R, NEW S, NEW q \in Seq(R)
  PROVE  Keep(q, S) \in Seq(R)
<1> DEFINE kept == {i \in DOMAIN q : q[i] \in S}
           at(n) == CHOOSE i \in kept : Cardinality(kept \cap (1..i)) = n
<1>1. kept \in SUBSET (1..Len(q)) /\ Len(q) \in Nat
  OBVIOUS
<1>2. Cardinality(kept) \in Nat
  <2> HIDE DEF kept
  <2> QED BY <1>1, BoundedIsFinite
<1>3. ASSUME NEW n \in 1..Cardinality(kept) PROVE q[at(n)] \in R
  <2>1. \E i \in kept : Cardinality(kept \cap (1..i)) = n
    <3> HIDE DEF kept
    <3> QED BY <1>1, NthElement
  <2>2. at(n) \in kept
    <3> HIDE DEF kept
    <3> QED BY <2>1
  <2> QED BY <2>2, <1>1
<1>4. Keep(q, S) = [n \in 1..Cardinality(kept) |-> q[at(n)]]
  BY DEF Keep
<1> HIDE DEF kept, at
<1> QED BY <1>2, <1>3, <1>4

(* The methods map scheduler states to scheduler states.                   *)
LEMMA ReturnType ==
  ASSUME NEW s \in Scheduler, NEW o \in Owner
  PROVE  Return(s, o) \in Scheduler
  BY DEF Scheduler, Return, Returned, Waiting, Idle, Wait, ForNoCall

LEMMA SuspendType ==
  ASSUME NEW s \in Scheduler, NEW o \in Owner, NEW p \in ForACall,
         NEW c \in Calls, NEW sig \in Signals
  PROVE  Suspend(s, o, p, c, sig) \in Scheduler
  BY DEF Scheduler, Suspend, Waiting, Wait

LEMMA setStatusType ==
  ASSUME NEW s \in Scheduler, NEW c, NEW new \in Status
  PROVE  setStatusInternal(s, c, new) \in Scheduler
  BY DEF Scheduler, setStatusInternal, Live

LEMMA cancelAllQueuedCallsType ==
  ASSUME NEW s \in Scheduler
  PROVE  cancelAllQueuedCalls(s) \in Scheduler
<1> DEFINE done == s.completed \o s.toolCallQueue
           status == [c \in Calls |->
                        IF c \in Range(s.toolCallQueue) /\ s.status[c] # "error"
                        THEN "cancelled" ELSE s.status[c]]
<1>1. done \in Seq(Calls) /\ <<>> \in Seq(Calls)
  BY DEF Scheduler
<1>2. status \in [Calls -> Status]
  BY DEF Scheduler, Status, Terminal
<1>3. cancelAllQueuedCalls(s)
        = [s EXCEPT !.completed = done, !.toolCallQueue = <<>>, !.status = status]
  BY DEF cancelAllQueuedCalls
<1> HIDE DEF done, status
<1> QED BY <1>1, <1>2, <1>3 DEF Scheduler

LEMMA deliverType ==
  ASSUME NEW s \in Scheduler, NEW o \in Owner, NEW sig \in Signals
  PROVE  deliver(s, o, sig) \in Scheduler
<1> DEFINE reports == Append(s.reports, s.completed)
           chain == [s.chain EXCEPT ![o] = Waiting("finalizing", None, sig, None)]
<1>1. reports \in Seq(Seq(Calls))
  BY DEF Scheduler
<1>2. chain \in [Owner -> Wait]
  BY DEF Scheduler, Wait, Waiting, ForNoCall
<1>3. deliver(s, o, sig)
        = [s EXCEPT !.isFinalizing = TRUE, !.reports = reports, !.chain = chain]
  BY DEF deliver
<1> HIDE DEF reports, chain
<1> QED BY <1>1, <1>2, <1>3 DEF Scheduler

LEMMA attemptType ==
  ASSUME NEW s \in Scheduler, NEW o \in Owner, NEW sig \in Signals
  PROVE  attemptExecution(s, o, sig) \in Scheduler
<1> DEFINE t == [s EXCEPT !.status[s.active] = "executing"]
<1>1. t \in Scheduler
  BY DEF Scheduler, Status
<1>2. ASSUME s.active # None PROVE Suspend(t, o, "executing", s.active, sig) \in Scheduler
  <2>1. s.active \in Calls
    BY <1>2 DEF Scheduler
  <2> HIDE DEF t
  <2> QED BY <2>1, <1>1, SuspendType DEF ForACall
<1> QED BY <1>2, ReturnType DEF attemptExecution

LEMMA scheduleAndRunType ==
  ASSUME NEW s \in Scheduler, NEW o \in Owner, NEW c, NEW sig \in Signals
  PROVE  scheduleAndRun(s, o, c, sig) \in Scheduler
  BY setStatusType, attemptType DEF scheduleAndRun, Status

(* The first queued call that did not fail to build exists, or the whole   *)
(* queue failed.                                                           *)
LEMMA failedType ==
  ASSUME NEW s \in Scheduler
  PROVE  failed(s) \in 0..Len(s.toolCallQueue)
<1> DEFINE q == s.toolCallQueue
           Stops(k) == /\ \A i \in 1..k : s.status[q[i]] = "error"
                       /\ k < Len(q) => s.status[q[k + 1]] # "error"
<1>1. q \in Seq(Calls)
  BY DEF Scheduler
<1>2. \E k \in 0..Len(q) : Stops(k)
  <2> DEFINE B == {i \in 0..Len(q) : i < Len(q) /\ s.status[q[i + 1]] # "error"}
  <2>1. CASE B = {}
    <3>1. \A i \in 1..Len(q) : i - 1 \in 0..Len(q) /\ i - 1 \notin B
      BY <1>1, <2>1
    <3>2. \A i \in 1..Len(q) : s.status[q[i]] = "error"
      BY <1>1, <3>1
    <3> QED BY <3>2, <1>1
  <2>2. CASE B # {}
    <3>1. PICK m \in B : \A k \in B : m <= k
      <4>1. B \in SUBSET Nat
        BY <1>1
      <4> HIDE DEF B
      <4> QED BY <2>2, <4>1, LeastElement
    <3>2. \A i \in 1..m : i - 1 \in 0..Len(q) /\ i - 1 < Len(q) /\ i - 1 \notin B
      BY <1>1, <3>1
    <3>3. \A i \in 1..m : s.status[q[i]] = "error"
      BY <1>1, <3>1, <3>2
    <3> QED BY <3>1, <3>3
  <2> QED BY <2>1, <2>2
<1>3. failed(s) = CHOOSE k \in 0..Len(q) : Stops(k)
  BY DEF failed
<1> HIDE DEF Stops, q
<1>4. failed(s) \in 0..Len(q)
  BY <1>2, <1>3
<1> QED BY <1>4 DEF q

LEMMA skipFailedType ==
  ASSUME NEW s \in Scheduler
  PROVE  skipFailed(s) \in Scheduler
<1> DEFINE q == s.toolCallQueue
           n == failed(s)
           done == s.completed \o SubSeq(q, 1, n)
           rest == SubSeq(q, n + 1, Len(q))
<1>1. q \in Seq(Calls) /\ s.completed \in Seq(Calls) /\ n \in 0..Len(q)
  BY failedType DEF Scheduler
<1>2. done \in Seq(Calls) /\ rest \in Seq(Calls)
  <2> HIDE DEF n, q
  <2>1. SubSeq(q, 1, n) \in Seq(Calls) /\ SubSeq(q, n + 1, Len(q)) \in Seq(Calls)
    BY <1>1, SubSeqProperties
  <2> QED BY <1>1, <2>1
<1>3. skipFailed(s) = [s EXCEPT !.completed = done, !.toolCallQueue = rest]
  BY DEF skipFailed
<1> HIDE DEF done, rest
<1> QED BY <1>2, <1>3 DEF Scheduler

LEMMA takeNextType ==
  ASSUME NEW s \in Scheduler, s.toolCallQueue # <<>>
  PROVE  Head(s.toolCallQueue) \in Calls /\ takeNext(s) \in Scheduler
<1>1. Head(s.toolCallQueue) \in Calls /\ Tail(s.toolCallQueue) \in Seq(Calls)
  BY HeadTailProperties DEF Scheduler
<1> QED BY <1>1 DEF takeNext, Scheduler

LEMMA advanceType ==
  ASSUME NEW s \in Scheduler, NEW o \in Owner, NEW sig \in Signals
  PROVE  advance(s, o, sig) \in Scheduler
<1>1. CASE sig \in s.aborted
  BY <1>1, cancelAllQueuedCallsType, deliverType DEF advance
<1>2. CASE sig \notin s.aborted
  <2> DEFINE t == skipFailed(s)
  <2>1. t \in Scheduler
    BY skipFailedType
  <2>2. advance(s, o, sig) =
          IF t.toolCallQueue # <<>>
          THEN Suspend(takeNext(t), o, "validating", Head(t.toolCallQueue), sig)
          ELSE IF t.completed = <<>> THEN Return(t, o) ELSE deliver(t, o, sig)
    BY <1>2 DEF advance
  <2> HIDE DEF t
  <2> QED BY <2>1, <2>2, takeNextType, SuspendType, ReturnType, deliverType DEF ForACall
<1> QED BY <1>1, <1>2

LEMMA checkAndNotifyCompletionType ==
  ASSUME NEW s \in Scheduler, NEW o \in Owner, NEW sig \in Signals
  PROVE  checkAndNotifyCompletion(s, o, sig) \in Scheduler
<1> DEFINE t == [s EXCEPT !.completed = Append(@, s.active), !.active = None]
<1>1. ASSUME s.active # None PROVE t \in Scheduler
  <2>1. Append(s.completed, s.active) \in Seq(Calls)
    BY <1>1 DEF Scheduler
  <2> QED BY <2>1 DEF Scheduler
<1> HIDE DEF t
<1>2. checkAndNotifyCompletion(s, o, sig) =
        IF s.active = None THEN advance(s, o, sig)
        ELSE IF s.status[s.active] \notin Terminal THEN Return(s, o)
        ELSE advance(t, o, sig)
  BY DEF checkAndNotifyCompletion, t
<1> QED BY <1>1, <1>2, ReturnType, advanceType

LEMMA cancelAllType ==
  ASSUME NEW s \in Scheduler, NEW o \in Owner, NEW sig \in Signals
  PROVE  cancelAll(s, o, sig) \in Scheduler
<1>1. [s EXCEPT !.isCancelling = TRUE] \in Scheduler
  BY DEF Scheduler
<1>2. "cancelled" \in Status
  BY DEF Status, Terminal
<1> QED BY <1>1, <1>2, ReturnType, setStatusType, cancelAllQueuedCallsType,
           checkAndNotifyCompletionType DEF cancelAll

LEMMA abortType ==
  ASSUME NEW s \in Scheduler, NEW sig \in Signals
  PROVE  abort(s, sig) \in Scheduler
<1> DEFINE t == [s EXCEPT !.aborted = @ \cup {sig}]
           queue == Keep(t.requestQueue, {r \in Requests : SignalOf[r] # sig})
<1>1. t \in Scheduler
  BY DEF Scheduler
<1>2. queue \in Seq(Requests)
  <2>1. t.requestQueue \in Seq(Requests)
    BY <1>1 DEF Scheduler
  <2> HIDE DEF t
  <2> QED BY <2>1, KeepType
<1>3. abort(s, sig) = [t EXCEPT !.requestQueue = queue]
  BY DEF abort, dropAborted
<1> HIDE DEF t, queue
<1> QED BY <1>1, <1>2, <1>3 DEF Scheduler

LEMMA enqueueCallsType ==
  ASSUME NEW s \in Scheduler, NEW r \in Requests, NEW bad \in SUBSET CallSet(r)
  PROVE  enqueueCalls(s, r, bad) \in Scheduler
<1> DEFINE queue == s.toolCallQueue \o CallsOf[r]
           status == [c \in Calls |->
                        IF c \notin CallSet(r) THEN s.status[c]
                        ELSE IF c \in bad THEN "error" ELSE "validating"]
<1>1. queue \in Seq(Calls) /\ <<>> \in Seq(Calls)
  BY SchedulerAssumption DEF Scheduler
<1>2. status \in [Calls -> Status]
  BY DEF Scheduler, Status, Terminal
<1>3. enqueueCalls(s, r, bad)
        = [s EXCEPT !.isCancelling = FALSE, !.isScheduling = TRUE,
                    !.completed = <<>>, !.toolCallQueue = queue, !.status = status]
  BY DEF enqueueCalls
<1> HIDE DEF queue, status
<1> QED BY <1>1, <1>2, <1>3 DEF Scheduler

LEMMA scheduleType ==
  ASSUME NEW s \in Scheduler, NEW r \in Requests, NEW bad \in SUBSET CallSet(r)
  PROVE  schedule(s, r, bad) \in Scheduler
<1>1. ScheduleChain(r) \in Owner /\ SignalOf[r] \in Signals
  BY SchedulerAssumption DEF Owner, ScheduleChain
<1>2. [s EXCEPT !.isCancelling = FALSE, !.isScheduling = FALSE] \in Scheduler
  BY DEF Scheduler
<1> QED BY <1>1, <1>2, enqueueCallsType, ReturnType, advanceType DEF schedule

LEMMA setArgsType ==
  ASSUME NEW s \in Scheduler, NEW c, NEW built
  PROVE  setArgs(s, c, built) \in Scheduler
  BY DEF Scheduler, setArgs, Status, Terminal

LEMMA respondType ==
  ASSUME NEW s \in Scheduler, NEW o \in Owner, NEW c \in Calls, NEW outcome,
         NEW sig \in Signals, NEW found
  PROVE  respond(s, o, c, outcome, sig, found) \subseteq Scheduler
<1>1. "awaiting_approval" \in Status
  BY DEF Status
<1>2. {"editing", "inlining"} \subseteq ForACall
  BY DEF ForACall
<1>3. Suspend(setStatusInternal(s, c, "awaiting_approval"), o, "editing", c, sig) \in Scheduler
  BY <1>1, <1>2, setStatusType, SuspendType
<1>4. Suspend(s, o, "inlining", c, sig) \in Scheduler
  BY <1>1, <1>2, SuspendType
<1> QED BY <1>3, <1>4, cancelAllType, ReturnType, scheduleAndRunType DEF respond

------------------------------------------------------------------------------
(* Every state the scheduler reaches is well formed: in particular a chain *)
(* that waits for a call has one, and knows the signal it runs under.      *)
LEMMA InitType == Init => TypeOK
<1> SUFFICES ASSUME Init PROVE TypeOK
  OBVIOUS
<1>1. /\ [c \in Calls |-> "none"] \in [Calls -> Status]
      /\ [c \in Calls |-> None] \in [Calls -> Signals \cup {None}]
      /\ [o \in Owner |-> Idle] \in [Owner -> Wait]
  BY DEF Status, Idle, Waiting, Wait, ForNoCall
<1>2. <<>> \in Seq(Calls) /\ <<>> \in Seq(Requests) /\ <<>> \in Seq(Seq(Calls))
  OBVIOUS
<1>3. sch \in Scheduler
  BY <1>1, <1>2 DEF Init, Scheduler
<1>4. turn \in 0..Turns
  BY SchedulerAssumption DEF Init
<1> QED BY <1>3, <1>4 DEF Init, TypeOK

(* What the client does.                                                   *)
LEMMA ClientType ==
  ASSUME TypeOK,
         NewTurn \/ (\E r \in Requests : Schedule(r))
                 \/ (\E sig \in Signals : Abort(sig) \/ Escape(sig))
  PROVE  TypeOK'
<1>1. CASE NewTurn
  BY <1>1, SchedulerAssumption DEF NewTurn, TypeOK
<1>2. ASSUME NEW r \in Requests, Schedule(r) PROVE TypeOK'
  <2>1. sch' \in Scheduler
    <3>1. CASE sch' = [sch EXCEPT !.requestQueue = Append(@, r)]
      <4>1. Append(sch.requestQueue, r) \in Seq(Requests)
        BY DEF TypeOK, Scheduler
      <4> QED BY <3>1, <4>1 DEF TypeOK, Scheduler
    <3>2. CASE \E bad \in SUBSET CallSet(r) : sch' = schedule(sch, r, bad)
      BY <3>2, scheduleType DEF TypeOK
    <3> QED BY <1>2, <3>1, <3>2 DEF Schedule
  <2>2. sent' \in Seq(Requests)
    BY <1>2 DEF Schedule, TypeOK
  <2> QED BY <1>2, <2>1, <2>2 DEF Schedule, TypeOK
<1>3. ASSUME NEW sig \in Signals, NEW s \in Scheduler
      PROVE  dropped(s, sig) \subseteq Requests
  <2>1. \A r \in Range(s.requestQueue) : r \in Requests
    BY DEF Range, Scheduler
  <2> QED BY <2>1 DEF dropped
<1>4. ASSUME NEW sig \in Signals, Abort(sig) PROVE TypeOK'
  <2>1. sch' \in Scheduler /\ rejected' \subseteq Requests
    BY <1>3, <1>4, abortType DEF Abort, TypeOK
  <2> QED BY <1>4, <2>1 DEF Abort, TypeOK
<1>5. ASSUME NEW sig \in Signals, Escape(sig) PROVE TypeOK'
  <2>1. [kind |-> "cancel", of |-> sig] \in Owner
    BY DEF Owner
  <2>2. sch' \in Scheduler /\ rejected' \subseteq Requests
    BY <1>3, <1>5, <2>1, abortType, cancelAllType DEF Escape, TypeOK
  <2> QED BY <1>5, <2>2 DEF Escape, TypeOK
<1> QED BY <1>1, <1>2, <1>4, <1>5

(* A chain that waits for a call.                                          *)
LEMMA ForACallType ==
  ASSUME TypeOK, NEW o \in Owner, sch.chain[o].at \in ForACall
  PROVE  /\ sch.chain[o].call \in Calls
         /\ sch.chain[o].signal \in Signals
         /\ sch.chain[o].outcome \in Outcomes \cup {None}
<1>1. sch.chain[o] \in Wait
  BY DEF TypeOK, Scheduler
<1> QED BY <1>1 DEF Wait, ForACall, ForNoCall

LEMMA startedType ==
  ASSUME TypeOK, NEW c \in Calls, NEW n \in Nat
  PROVE  [started EXCEPT ![c] = Append(@, n)] \in [Calls -> Seq(Nat)]
  BY DEF TypeOK

(* What the policy check and the confirmation details lead to.             *)
LEMMA ValidationType ==
  ASSUME TypeOK, NEW o \in Owner,
         PolicyAllows(o) \/ PolicyDenies(o) \/ PolicyAsks(o) \/ ValidationFails(o)
  PROVE  TypeOK'
<1> DEFINE c == sch.chain[o].call
           sig == sch.chain[o].signal
<1>1. /\ c \in Calls /\ sig \in Signals
      /\ sch \in Scheduler /\ args \in [Calls -> Nat]
      /\ {"error", "cancelled", "awaiting_approval"} \subseteq Status
  <2>1. sch.chain[o].at \in ForACall
    BY DEF PolicyAllows, PolicyDenies, PolicyAsks, ValidationFails, Now, ForACall
  <2> QED BY <2>1, ForACallType DEF TypeOK, Status, Terminal
<1>2. CASE PolicyAllows(o)
  <2>1. sch' \in Scheduler
    BY <1>1, <1>2, scheduleAndRunType DEF PolicyAllows
  <2>2. approved' \subseteq Calls \X Nat
    BY <1>1, <1>2 DEF PolicyAllows, TypeOK
  <2>3. started' \in [Calls -> Seq(Nat)]
    <3>1. args[c] \in Nat
      BY <1>1
    <3> QED BY <1>1, <1>2, <3>1, startedType DEF PolicyAllows, TypeOK
  <2> QED BY <1>2, <2>1, <2>2, <2>3 DEF PolicyAllows, TypeOK
<1>3. CASE PolicyDenies(o)
  <2>1. sch' \in Scheduler
    BY <1>1, <1>3, setStatusType, checkAndNotifyCompletionType DEF PolicyDenies
  <2> QED BY <1>3, <2>1 DEF PolicyDenies, TypeOK
<1>4. CASE PolicyAsks(o)
  <2> DEFINE asked == IF Live(sch, c) \/ Ide THEN [sch EXCEPT !.prompted[c] = sig] ELSE sch
  <2>1. asked \in Scheduler
    BY <1>1 DEF Scheduler
  <2>2. sch' = attemptExecution(setStatusInternal(asked, c, "awaiting_approval"), o, sig)
    BY <1>4 DEF PolicyAsks
  <2>3. sch' \in Scheduler
    <3> HIDE DEF asked
    <3> QED BY <1>1, <2>1, <2>2, setStatusType, attemptType
  <2> QED BY <1>4, <2>3 DEF PolicyAsks, TypeOK
<1>5. CASE ValidationFails(o)
  <2>1. sch' \in Scheduler
    BY <1>1, <1>5, setStatusType, checkAndNotifyCompletionType DEF ValidationFails
  <2> QED BY <1>5, <2>1 DEF ValidationFails, TypeOK
<1> QED BY <1>2, <1>3, <1>4, <1>5

(* What follows an execution, and the client's handler.                    *)
LEMMA CompletionType ==
  ASSUME TypeOK, NEW o \in Owner,
         (\E result \in Terminal : Executed(o, result))
           \/ HandlerReturns(o) \/ HandlerThrows(o) \/ Unwind(o)
  PROVE  TypeOK'
<1>1. ASSUME NEW result \in Terminal, Executed(o, result) PROVE TypeOK'
  <2> DEFINE c == sch.chain[o].call
             sig == sch.chain[o].signal
             s == IF sch.active = c THEN [sch EXCEPT !.status[c] = result] ELSE sch
  <2>1. sig \in Signals
    BY <1>1, ForACallType DEF Executed, Now, ForACall
  <2>2. s \in Scheduler
    BY DEF TypeOK, Scheduler, Status
  <2>3. sch' = checkAndNotifyCompletion(s, o, sig)
    BY <1>1 DEF Executed
  <2>4. sch' \in Scheduler
    <3> HIDE DEF s
    <3> QED BY <2>1, <2>2, <2>3, checkAndNotifyCompletionType
  <2> QED BY <1>1, <2>4 DEF Executed, TypeOK
<1>2. CASE HandlerReturns(o)
  <2> DEFINE t == [sch EXCEPT !.completed = <<>>, !.isFinalizing = FALSE, !.isCancelling = FALSE]
             s == Return(t, o)
             r == Head(s.requestQueue)
             u == [s EXCEPT !.requestQueue = Tail(@)]
  <2>1. s \in Scheduler
    <3>1. t \in Scheduler
      <4>1. <<>> \in Seq(Calls)
        OBVIOUS
      <4> QED BY <4>1 DEF TypeOK, Scheduler
    <3> HIDE DEF t
    <3> QED BY <3>1, ReturnType
  <2>2. s.requestQueue \in Seq(Requests)
    <3> HIDE DEF s
    <3> QED BY <2>1 DEF Scheduler
  <2>3. ASSUME s.requestQueue # <<>> PROVE r \in Requests /\ u \in Scheduler
    <3> HIDE DEF s
    <3>1. r \in Requests /\ Tail(s.requestQueue) \in Seq(Requests)
      BY <2>2, <2>3, HeadTailProperties
    <3>2. u \in Scheduler
      BY <2>1, <3>1 DEF Scheduler
    <3> QED BY <3>1, <3>2
  <2>4. \/ sch' = s /\ UNCHANGED rejected
        \/ /\ s.requestQueue # <<>>
           /\ \E bad \in SUBSET CallSet(r) : sch' = schedule(u, r, bad)
           /\ rejected' \subseteq rejected \cup {r}
    BY <1>2 DEF HandlerReturns
  <2>5. sch' \in Scheduler /\ rejected' \subseteq Requests
    <3> HIDE DEF s, r, u
    <3> QED BY <2>1, <2>3, <2>4, scheduleType DEF TypeOK
  <2> QED BY <1>2, <2>5 DEF HandlerReturns, TypeOK
<1>3. CASE HandlerThrows(o)
  BY <1>3, ReturnType DEF HandlerThrows, TypeOK
<1>4. CASE Unwind(o)
  <2>1. Idle \in Wait
    BY DEF Idle, Waiting, Wait, ForNoCall
  <2>2. sch' \in Scheduler
    BY <1>4, <2>1 DEF Unwind, TypeOK, Scheduler
  <2> QED BY <1>4, <2>2 DEF Unwind, TypeOK
<1> QED BY <1>1, <1>2, <1>3, <1>4

(* What responses and modifications lead to.                               *)
LEMMA RespondType ==
  ASSUME TypeOK, NEW o \in Answerer, NEW outcome \in Outcomes, Respond(o, outcome)
  PROVE  TypeOK'
<1> DEFINE c == o.of
           sig == sch.prompted[c]
           found == sch.active = c /\ sch.status[c] = "awaiting_approval"
           wait == Waiting("confirming", c, sig, outcome)
<1>1. c \in Calls /\ o \in Owner
  BY DEF Answerer, Owner
<1>2. sig \in Signals
  BY <1>1 DEF Respond, TypeOK, Scheduler
<1>3. sch' \in Scheduler
  <2>1. CASE sch' = [sch EXCEPT !.chain[o] = wait]
    <3>1. wait \in Wait
      BY <1>1, <1>2 DEF Waiting, Wait, ForACall
    <3> HIDE DEF wait
    <3> QED BY <1>1, <2>1, <3>1 DEF TypeOK, Scheduler
  <2>2. CASE sch' \in respond(sch, o, c, outcome, sig, FALSE)
    <3>1. sch \in Scheduler
      BY DEF TypeOK
    <3> HIDE DEF c, sig
    <3>2. respond(sch, o, c, outcome, sig, FALSE) \subseteq Scheduler
      BY <1>1, <1>2, <3>1, respondType
    <3> QED BY <2>2, <3>2
  <2> QED BY <2>1, <2>2 DEF Respond
<1>4. started' \in [Calls -> Seq(Nat)]
  <2> DEFINE more == [started EXCEPT ![c] = Append(@, args[c])]
  <2>1. args[c] \in Nat
    BY <1>1 DEF TypeOK
  <2>2. more \in [Calls -> Seq(Nat)]
    BY <1>1, <2>1, startedType
  <2>3. started' = started \/ started' = more
    BY DEF Respond
  <2> QED BY <2>2, <2>3 DEF TypeOK
<1>5. approved' \subseteq Calls \X Nat
  BY <1>1 DEF Respond, TypeOK
<1>6. answers' \in [Answerer -> Nat]
  BY DEF Respond, TypeOK
<1> QED BY <1>3, <1>4, <1>5, <1>6 DEF Respond, TypeOK

LEMMA ConfirmedType ==
  ASSUME TypeOK, NEW o \in Owner, Confirmed(o) \/ ConfirmThrows(o)
  PROVE  TypeOK'
<1>1. CASE Confirmed(o)
  <2> DEFINE w == sch.chain[o]
  <2>1. w.call \in Calls /\ w.signal \in Signals
    BY <1>1, ForACallType DEF Confirmed, Now, ForACall
  <2>2. sch' \in Scheduler
    BY <1>1, <2>1, respondType DEF Confirmed, TypeOK
  <2>3. started' \in [Calls -> Seq(Nat)]
    <3>1. args[w.call] \in Nat
      BY <2>1 DEF TypeOK
    <3> QED BY <1>1, <2>1, <3>1, startedType DEF Confirmed, TypeOK
  <2> QED BY <1>1, <2>2, <2>3 DEF Confirmed, TypeOK
<1>2. CASE ConfirmThrows(o)
  BY <1>2, ReturnType DEF ConfirmThrows, TypeOK
<1> QED BY <1>1, <1>2

LEMMA ModificationType ==
  ASSUME TypeOK, NEW o \in Owner,
         (\E built \in BOOLEAN : Modified(o, built))
           \/ NotEdited(o) \/ NotInlined(o) \/ ModifyThrows(o)
  PROVE  TypeOK'
<1> DEFINE c == sch.chain[o].call
           sig == sch.chain[o].signal
<1>1. c \in Calls /\ sig \in Signals /\ "awaiting_approval" \in Status
  <2>1. sch.chain[o].at \in ForACall
    BY DEF Modified, NotEdited, NotInlined, ModifyThrows, Now, ForACall
  <2> QED BY <2>1, ForACallType DEF Status
<1>2. ASSUME NEW built \in BOOLEAN, Modified(o, built) PROVE TypeOK'
  <2>1. sch' \in Scheduler
    BY <1>1, <1>2, setArgsType, setStatusType, attemptType DEF Modified, TypeOK
  <2>2. args' \in [Calls -> Nat]
    BY <1>1, <1>2 DEF Modified, TypeOK
  <2> QED BY <1>2, <2>1, <2>2 DEF Modified, TypeOK
<1>3. CASE NotEdited(o)
  <2>1. sch' \in Scheduler
    BY <1>1, <1>3, setStatusType, attemptType DEF NotEdited, TypeOK
  <2> QED BY <1>3, <2>1 DEF NotEdited, TypeOK
<1>4. CASE NotInlined(o)
  <2>1. sch' \in Scheduler
    BY <1>1, <1>4, scheduleAndRunType DEF NotInlined, TypeOK
  <2>2. approved' \subseteq Calls \X Nat
    BY <1>1, <1>4 DEF NotInlined, TypeOK
  <2>3. started' \in [Calls -> Seq(Nat)]
    <3>1. args[c] \in Nat
      BY <1>1 DEF TypeOK
    <3> QED BY <1>1, <1>4, <3>1, startedType DEF NotInlined, TypeOK
  <2> QED BY <1>4, <2>1, <2>2, <2>3 DEF NotInlined, TypeOK
<1>5. CASE ModifyThrows(o)
  BY <1>5, ReturnType DEF ModifyThrows, TypeOK
<1> QED BY <1>2, <1>3, <1>4, <1>5

LEMMA NextType == TypeOK /\ [Next]_vars => TypeOK'
<1> SUFFICES ASSUME TypeOK, [Next]_vars PROVE TypeOK'
  OBVIOUS
<1>1. CASE UNCHANGED vars
  BY <1>1 DEF vars, TypeOK
<1>2. CASE NewTurn \/ (\E r \in Requests : Schedule(r))
             \/ (\E sig \in Signals : Abort(sig) \/ Escape(sig))
  BY <1>2, ClientType
<1>3. ASSUME NEW o \in Answerer, NEW outcome \in Outcomes,
             UserResponds(o, outcome) \/ IdeResponds(o, outcome)
      PROVE  TypeOK'
  BY <1>3, RespondType DEF UserResponds, IdeResponds
<1>4. ASSUME NEW o \in Owner, Resume(o) PROVE TypeOK'
  BY <1>4, ValidationType, CompletionType, ConfirmedType, ModificationType DEF Resume
<1> QED BY <1>1, <1>2, <1>3, <1>4 DEF Next

(* Type correctness: whatever the client, the user, the IDE and the tools  *)
(* do, and in whatever order the awaits resolve, the fields of the class   *)
(* stay well formed.                                                       *)
THEOREM TypeCorrect == Spec => []TypeOK
<1>1. Init => TypeOK
  BY InitType
<1>2. TypeOK /\ [Next]_vars => TypeOK'
  BY NextType
<1> QED BY <1>1, <1>2, PTL DEF Spec

------------------------------------------------------------------------------
(***************************************************************************)
(* A tool runs only with arguments that were approved, for any number of   *)
(* requests, calls and turns, any order of the awaits, and any failures of *)
(* the awaited calls; proved for a scheduler that no IDE answers.          *)
(***************************************************************************)

(* The inductive invariant.  Between an approval and the execution it      *)
(* leads to, the chain of the user's answer waits for onConfirm.  The      *)
(* arguments of a call are replaced only by a chain that waits for the     *)
(* editor or the inline change, and one call has one chain of answers.     *)
Answering == {"confirming", "editing", "inlining"}

AnswersItsCall(o) == o.kind = "user" /\ o \in Answerer /\ sch.chain[o].call = o.of
Proceeds(o) == Now(o, "confirming") /\ sch.chain[o].outcome = "ProceedOnce"

AnswersAreApprovals ==
  \A o \in Owner :
    /\ sch.chain[o].at \in Answering => AnswersItsCall(o)
    /\ Proceeds(o) => <<o.of, args[o.of]>> \in approved

ApprovalInv == TypeOK /\ RunsWhatWasApproved /\ AnswersAreApprovals

------------------------------------------------------------------------------
(* No method makes a chain wait for an answer; t is the state after it.    *)
NoNewAnswer(s, t) ==
  \A p \in Owner : t.chain[p] = s.chain[p] \/ t.chain[p].at \notin Answering

LEMMA ReturnAnswers ==
  ASSUME NEW s \in Scheduler, NEW o \in Owner
  PROVE  NoNewAnswer(s, Return(s, o)) /\ Return(s, o).chain[o].at \notin Answering
  BY DEF NoNewAnswer, Return, Returned, Idle, Waiting, Answering, Scheduler

LEMMA SuspendAnswers ==
  ASSUME NEW s \in Scheduler, NEW o \in Owner, NEW p, NEW c, NEW sig, p \notin Answering
  PROVE  NoNewAnswer(s, Suspend(s, o, p, c, sig))
           /\ Suspend(s, o, p, c, sig).chain[o].at \notin Answering
  BY DEF NoNewAnswer, Suspend, Waiting, Answering, Scheduler

LEMMA deliverAnswers ==
  ASSUME NEW s \in Scheduler, NEW o \in Owner, NEW sig
  PROVE  NoNewAnswer(s, deliver(s, o, sig))
  BY DEF NoNewAnswer, deliver, Waiting, Answering, Scheduler

(* These leave the chains alone.                                           *)
LEMMA SameChains ==
  ASSUME NEW s \in Scheduler, NEW c, NEW new, NEW built, NEW sig
  PROVE  /\ setStatusInternal(s, c, new).chain = s.chain
         /\ setArgs(s, c, built).chain = s.chain
         /\ cancelAllQueuedCalls(s).chain = s.chain
         /\ abort(s, sig).chain = s.chain
  BY DEF setStatusInternal, setArgs, cancelAllQueuedCalls, abort, dropAborted, Scheduler

LEMMA NoNewAnswerTransitive ==
  ASSUME NEW s, NEW t, NEW u, NoNewAnswer(s, t), NoNewAnswer(t, u)
  PROVE  NoNewAnswer(s, u)
  BY DEF NoNewAnswer

LEMMA SameChainsNoNewAnswer ==
  ASSUME NEW s, NEW t, t.chain = s.chain
  PROVE  NoNewAnswer(s, t)
  BY DEF NoNewAnswer

LEMMA attemptAnswers ==
  ASSUME NEW s \in Scheduler, NEW o \in Owner, NEW sig \in Signals
  PROVE  /\ NoNewAnswer(s, attemptExecution(s, o, sig))
         /\ attemptExecution(s, o, sig).chain[o].at \notin Answering
<1> DEFINE t == [s EXCEPT !.status[s.active] = "executing"]
<1>1. t \in Scheduler /\ t.chain = s.chain
  BY DEF Scheduler, Status
<1>2. "executing" \notin Answering
  BY DEF Answering
<1>3. attemptExecution(s, o, sig) = Return(s, o)
        \/ attemptExecution(s, o, sig) = Suspend(t, o, "executing", s.active, sig)
  BY DEF attemptExecution
<1> HIDE DEF t
<1>4. NoNewAnswer(s, t)
  BY <1>1, SameChainsNoNewAnswer
<1>5. LET u == Suspend(t, o, "executing", s.active, sig)
      IN NoNewAnswer(s, u) /\ u.chain[o].at \notin Answering
  BY <1>1, <1>2, <1>4, SuspendAnswers, NoNewAnswerTransitive
<1> QED BY <1>3, <1>5, ReturnAnswers

LEMMA scheduleAndRunAnswers ==
  ASSUME NEW s \in Scheduler, NEW o \in Owner, NEW c, NEW sig \in Signals
  PROVE  /\ NoNewAnswer(s, scheduleAndRun(s, o, c, sig))
         /\ scheduleAndRun(s, o, c, sig).chain[o].at \notin Answering
<1> DEFINE t == setStatusInternal(s, c, "scheduled")
<1>1. t \in Scheduler /\ t.chain = s.chain
  BY setStatusType, SameChains DEF Status
<1>2. scheduleAndRun(s, o, c, sig) = attemptExecution(t, o, sig)
  BY DEF scheduleAndRun
<1> HIDE DEF t
<1>3. NoNewAnswer(s, t)
  BY <1>1, SameChainsNoNewAnswer
<1> QED BY <1>1, <1>2, <1>3, attemptAnswers, NoNewAnswerTransitive

LEMMA advanceAnswers ==
  ASSUME NEW s \in Scheduler, NEW o \in Owner, NEW sig \in Signals
  PROVE  NoNewAnswer(s, advance(s, o, sig))
<1>1. CASE sig \in s.aborted
  <2> DEFINE w == cancelAllQueuedCalls(s)
  <2>1. w \in Scheduler /\ w.chain = s.chain
    BY cancelAllQueuedCallsType, SameChains
  <2>2. advance(s, o, sig) = deliver(w, o, sig)
    BY <1>1 DEF advance
  <2> HIDE DEF w
  <2> QED BY <2>1, <2>2, deliverAnswers, SameChainsNoNewAnswer, NoNewAnswerTransitive
<1>2. CASE sig \notin s.aborted
  <2> DEFINE t == skipFailed(s)
             u == takeNext(t)
             c == Head(t.toolCallQueue)
  <2>1. t \in Scheduler /\ t.chain = s.chain
    BY skipFailedType DEF skipFailed, Scheduler
  <2>2. advance(s, o, sig) =
          IF t.toolCallQueue # <<>> THEN Suspend(u, o, "validating", c, sig)
          ELSE IF t.completed = <<>> THEN Return(t, o) ELSE deliver(t, o, sig)
    BY <1>2 DEF advance
  <2> HIDE DEF t
  <2>3. NoNewAnswer(s, t)
    BY <2>1, SameChainsNoNewAnswer
  <2>4. ASSUME t.toolCallQueue # <<>>
        PROVE  NoNewAnswer(s, Suspend(u, o, "validating", c, sig))
    <3>1. u \in Scheduler
      BY <2>1, <2>4, takeNextType
    <3>2. u.chain = t.chain
      BY <2>1 DEF takeNext, Scheduler
    <3> HIDE DEF u, c
    <3>3. NoNewAnswer(u, Suspend(u, o, "validating", c, sig))
      BY <3>1, SuspendAnswers DEF Answering
    <3> QED BY <2>3, <3>2, <3>3, SameChainsNoNewAnswer, NoNewAnswerTransitive
  <2>5. NoNewAnswer(s, Return(t, o)) /\ NoNewAnswer(s, deliver(t, o, sig))
    BY <2>1, <2>3, ReturnAnswers, deliverAnswers, NoNewAnswerTransitive
  <2> HIDE DEF u, c
  <2> QED BY <2>2, <2>4, <2>5
<1> QED BY <1>1, <1>2

LEMMA checkAndNotifyCompletionAnswers ==
  ASSUME NEW s \in Scheduler, NEW o \in Owner, NEW sig \in Signals
  PROVE  NoNewAnswer(s, checkAndNotifyCompletion(s, o, sig))
<1> DEFINE t == [s EXCEPT !.completed = Append(@, s.active), !.active = None]
<1>1. ASSUME s.active # None PROVE t \in Scheduler /\ t.chain = s.chain
  <2>1. Append(s.completed, s.active) \in Seq(Calls)
    BY <1>1 DEF Scheduler
  <2> QED BY <2>1 DEF Scheduler
<1> HIDE DEF t
<1>2. checkAndNotifyCompletion(s, o, sig) =
        IF s.active = None THEN advance(s, o, sig)
        ELSE IF s.status[s.active] \notin Terminal THEN Return(s, o)
        ELSE advance(t, o, sig)
  BY DEF checkAndNotifyCompletion, t
<1>3. ASSUME s.active # None PROVE NoNewAnswer(s, advance(t, o, sig))
  BY <1>1, <1>3, advanceAnswers, SameChainsNoNewAnswer, NoNewAnswerTransitive
<1> QED BY <1>2, <1>3, ReturnAnswers, advanceAnswers

LEMMA cancelAllAnswers ==
  ASSUME NEW s \in Scheduler, NEW o \in Owner, NEW sig \in Signals
  PROVE  NoNewAnswer(s, cancelAll(s, o, sig))
<1> DEFINE t == [s EXCEPT !.isCancelling = TRUE]
           u == setStatusInternal(t, s.active, "cancelled")
           v == cancelAllQueuedCalls(u)
<1>1. t \in Scheduler /\ t.chain = s.chain
  BY DEF Scheduler
<1>2. u \in Scheduler /\ u.chain = t.chain
  <2> HIDE DEF t
  <2> QED BY <1>1, setStatusType, SameChains DEF Status, Terminal
<1>3. v \in Scheduler /\ v.chain = u.chain
  <2> HIDE DEF u
  <2> QED BY <1>2, cancelAllQueuedCallsType, SameChains
<1>4. cancelAll(s, o, sig) =
        IF s.isCancelling THEN Return(s, o) ELSE checkAndNotifyCompletion(v, o, sig)
  BY DEF cancelAll
<1> HIDE DEF t, u, v
<1>5. NoNewAnswer(s, v)
  BY <1>1, <1>2, <1>3, SameChainsNoNewAnswer
<1>6. NoNewAnswer(s, checkAndNotifyCompletion(v, o, sig))
  BY <1>3, <1>5, checkAndNotifyCompletionAnswers, NoNewAnswerTransitive
<1> QED BY <1>4, <1>6, ReturnAnswers

LEMMA scheduleAnswers ==
  ASSUME NEW s \in Scheduler, NEW r \in Requests, NEW bad \in SUBSET CallSet(r)
  PROVE  NoNewAnswer(s, schedule(s, r, bad))
<1> DEFINE o == ScheduleChain(r)
           t == enqueueCalls(s, r, bad)
           u == [s EXCEPT !.isCancelling = FALSE, !.isScheduling = FALSE]
<1>1. o \in Owner /\ SignalOf[r] \in Signals
  BY SchedulerAssumption DEF Owner, ScheduleChain
<1>2. t \in Scheduler /\ t.chain = s.chain
  <2>1. t.chain = s.chain
    BY DEF enqueueCalls, Scheduler
  <2> QED BY <2>1, enqueueCallsType
<1>3. NoNewAnswer(s, u)
  <2>1. u.chain = s.chain
    BY DEF Scheduler
  <2> HIDE DEF u
  <2> QED BY <2>1, SameChainsNoNewAnswer
<1>4. schedule(s, r, bad) =
        IF isRunning(s) THEN u
        ELSE IF t.active # None THEN Return(t, o) ELSE advance(t, o, SignalOf[r])
  BY DEF schedule
<1> HIDE DEF t, u, o
<1>5. NoNewAnswer(s, t)
  BY <1>2, SameChainsNoNewAnswer
<1>6. NoNewAnswer(s, Return(t, o)) /\ NoNewAnswer(s, advance(t, o, SignalOf[r]))
  BY <1>1, <1>2, <1>5, ReturnAnswers, advanceAnswers, NoNewAnswerTransitive
<1> QED BY <1>3, <1>4, <1>6

------------------------------------------------------------------------------
(* Approvals are never withdrawn, so what was started stays approved; and  *)
(* a tool that is started with approved arguments keeps the property.      *)
LEMMA StillApproved ==
  ASSUME TypeOK, RunsWhatWasApproved, approved \subseteq approved', UNCHANGED started
  PROVE  RunsWhatWasApproved'
  BY DEF RunsWhatWasApproved

LEMMA StartIsApproved ==
  ASSUME TypeOK, RunsWhatWasApproved, NEW c \in Calls, approved \subseteq approved',
         <<c, args[c]>> \in approved',
         started' = started \/ started' = [started EXCEPT ![c] = Append(@, args[c])]
  PROVE  RunsWhatWasApproved'
<1>1. CASE started' = started
  BY <1>1, StillApproved
<1>2. CASE started' = [started EXCEPT ![c] = Append(@, args[c])]
  <2> SUFFICES ASSUME NEW d \in Calls, NEW i \in DOMAIN started'[d]
               PROVE  <<d, started'[d][i]>> \in approved'
    BY DEF RunsWhatWasApproved
  <2>1. started[d] \in Seq(Nat) /\ args[c] \in Nat
    BY DEF TypeOK
  <2>2. CASE d # c
    BY <1>2, <2>2 DEF RunsWhatWasApproved, TypeOK
  <2>3. CASE d = c
    <3>1. started'[d] = Append(started[d], args[c])
      BY <1>2, <2>3 DEF TypeOK
    <3>2. CASE i \in DOMAIN started[d]
      <4>1. started'[d][i] = started[d][i]
        BY <2>1, <3>1, <3>2
      <4> QED BY <3>2, <4>1 DEF RunsWhatWasApproved
    <3>3. CASE i \notin DOMAIN started[d]
      <4>1. started'[d][i] = args[c]
        BY <2>1, <3>1, <3>3
      <4> QED BY <2>3, <4>1
    <3> QED BY <3>2, <3>3
  <2> QED BY <2>2, <2>3
<1> QED BY <1>1, <1>2

(* A step after which no further chain answers, and that replaces no       *)
(* arguments, keeps the invariant's last part.                             *)
LEMMA NobodyAnswers ==
  ASSUME AnswersAreApprovals, NoNewAnswer(sch, sch'), approved \subseteq approved',
         UNCHANGED args
  PROVE  AnswersAreApprovals'
<1> SUFFICES ASSUME NEW o \in Owner, sch'.chain[o].at \in Answering
             PROVE  /\ AnswersItsCall(o)'
                    /\ Proceeds(o)' => <<o.of, args'[o.of]>> \in approved'
  BY DEF AnswersAreApprovals, Proceeds, Now, Answering
<1>1. sch'.chain[o] = sch.chain[o]
  BY DEF NoNewAnswer
<1> QED BY <1>1 DEF AnswersAreApprovals, AnswersItsCall, Proceeds, Now, Answering

(* The client schedules, aborts or goes on.                                *)
LEMMA ClientApproval ==
  ASSUME ApprovalInv,
         NewTurn \/ (\E r \in Requests : Schedule(r))
                 \/ (\E sig \in Signals : Abort(sig) \/ Escape(sig))
  PROVE  RunsWhatWasApproved' /\ AnswersAreApprovals'
<1>1. sch \in Scheduler
  BY DEF ApprovalInv, TypeOK
<1>2. UNCHANGED <<args, approved, started>>
  BY DEF NewTurn, Schedule, Abort, Escape
<1>3. NoNewAnswer(sch, sch')
  <2>1. CASE NewTurn
    BY <2>1, SameChainsNoNewAnswer DEF NewTurn
  <2>2. ASSUME NEW r \in Requests, Schedule(r) PROVE NoNewAnswer(sch, sch')
    <3>1. CASE sch' = [sch EXCEPT !.requestQueue = Append(@, r)]
      <4>1. sch'.chain = sch.chain
        BY <1>1, <3>1 DEF Scheduler
      <4> QED BY <4>1, SameChainsNoNewAnswer
    <3>2. CASE \E bad \in SUBSET CallSet(r) : sch' = schedule(sch, r, bad)
      BY <1>1, <3>2, scheduleAnswers
    <3> QED BY <2>2, <3>1, <3>2 DEF Schedule
  <2>3. ASSUME NEW sig \in Signals, Abort(sig) PROVE NoNewAnswer(sch, sch')
    <3>1. sch'.chain = sch.chain
      BY <1>1, <2>3, SameChains DEF Abort
    <3> QED BY <3>1, SameChainsNoNewAnswer
  <2>4. ASSUME NEW sig \in Signals, Escape(sig) PROVE NoNewAnswer(sch, sch')
    <3> DEFINE s == abort(sch, sig)
               o == [kind |-> "cancel", of |-> sig]
    <3>1. s \in Scheduler /\ s.chain = sch.chain
      BY <1>1, abortType, SameChains
    <3>2. o \in Owner /\ sch' = cancelAll(s, o, sig)
      BY <2>4 DEF Escape, Owner
    <3> HIDE DEF s, o
    <3> QED BY <3>1, <3>2, cancelAllAnswers, SameChainsNoNewAnswer, NoNewAnswerTransitive
  <2> QED BY <2>1, <2>2, <2>3, <2>4
<1> QED BY <1>2, <1>3, StillApproved, NobodyAnswers DEF ApprovalInv

(* The policy check and the confirmation details.                          *)
LEMMA ValidationApproval ==
  ASSUME ApprovalInv, NEW o \in Owner,
         PolicyAllows(o) \/ PolicyDenies(o) \/ PolicyAsks(o) \/ ValidationFails(o)
  PROVE  RunsWhatWasApproved' /\ AnswersAreApprovals'
<1> DEFINE c == sch.chain[o].call
           sig == sch.chain[o].signal
<1>1. c \in Calls /\ sig \in Signals /\ sch \in Scheduler
  <2>1. sch.chain[o].at \in ForACall
    BY DEF PolicyAllows, PolicyDenies, PolicyAsks, ValidationFails, Now, ForACall
  <2> QED BY <2>1, ForACallType DEF ApprovalInv, TypeOK
<1>2. UNCHANGED args
  BY DEF PolicyAllows, PolicyDenies, PolicyAsks, ValidationFails
<1>3. CASE PolicyAllows(o)
  <2>1. NoNewAnswer(sch, sch')
    BY <1>1, <1>3, scheduleAndRunAnswers DEF PolicyAllows
  <2>2. approved \subseteq approved' /\ <<c, args[c]>> \in approved'
    BY <1>3 DEF PolicyAllows
  <2>3. started' = started \/ started' = [started EXCEPT ![c] = Append(@, args[c])]
    BY <1>3 DEF PolicyAllows
  <2> QED BY <1>1, <1>2, <2>1, <2>2, <2>3, StartIsApproved, NobodyAnswers DEF ApprovalInv
<1>4. ASSUME NEW t \in Scheduler, t.chain = sch.chain, NEW new \in Status
      PROVE  /\ NoNewAnswer(sch, checkAndNotifyCompletion(setStatusInternal(t, c, new), o, sig))
             /\ NoNewAnswer(sch, attemptExecution(setStatusInternal(t, c, new), o, sig))
  <2> DEFINE u == setStatusInternal(t, c, new)
  <2>1. u \in Scheduler /\ u.chain = sch.chain
    BY <1>4, setStatusType, SameChains
  <2> HIDE DEF u
  <2>2. NoNewAnswer(sch, u)
    BY <2>1, SameChainsNoNewAnswer
  <2>3. /\ NoNewAnswer(sch, checkAndNotifyCompletion(u, o, sig))
        /\ NoNewAnswer(sch, attemptExecution(u, o, sig))
    BY <1>1, <2>1, <2>2, checkAndNotifyCompletionAnswers, attemptAnswers, NoNewAnswerTransitive
  <2> QED BY <2>3 DEF u
<1>5. {"error", "cancelled", "awaiting_approval"} \subseteq Status
  BY DEF Status, Terminal
<1>6. CASE PolicyDenies(o) \/ ValidationFails(o)
  <2>1. NoNewAnswer(sch, sch')
    BY <1>1, <1>4, <1>5, <1>6 DEF PolicyDenies, ValidationFails
  <2>2. UNCHANGED <<approved, started>>
    BY <1>6 DEF PolicyDenies, ValidationFails
  <2> QED BY <1>2, <2>1, <2>2, StillApproved, NobodyAnswers DEF ApprovalInv
<1>7. CASE PolicyAsks(o)
  <2> DEFINE asked == IF Live(sch, c) \/ Ide THEN [sch EXCEPT !.prompted[c] = sig] ELSE sch
  <2>1. asked \in Scheduler /\ asked.chain = sch.chain
    BY <1>1 DEF Scheduler
  <2>2. sch' = attemptExecution(setStatusInternal(asked, c, "awaiting_approval"), o, sig)
    BY <1>7 DEF PolicyAsks
  <2>3. NoNewAnswer(sch, sch')
    <3> HIDE DEF asked
    <3> QED BY <1>4, <1>5, <2>1, <2>2
  <2>4. UNCHANGED <<approved, started>>
    BY <1>7 DEF PolicyAsks
  <2> QED BY <1>2, <2>3, <2>4, StillApproved, NobodyAnswers DEF ApprovalInv
<1> QED BY <1>3, <1>6, <1>7

(* An execution ends, the client's handler returns, a chain unwinds.       *)
LEMMA CompletionApproval ==
  ASSUME ApprovalInv, NEW o \in Owner,
         (\E result \in Terminal : Executed(o, result))
           \/ HandlerReturns(o) \/ HandlerThrows(o) \/ Unwind(o)
  PROVE  RunsWhatWasApproved' /\ AnswersAreApprovals'
<1>1. sch \in Scheduler
  BY DEF ApprovalInv, TypeOK
<1>2. UNCHANGED <<args, approved, started>>
  BY DEF Executed, HandlerReturns, HandlerThrows, Unwind
<1>3. ASSUME NEW result \in Terminal, Executed(o, result) PROVE NoNewAnswer(sch, sch')
  <2> DEFINE c == sch.chain[o].call
             sig == sch.chain[o].signal
             s == IF sch.active = c THEN [sch EXCEPT !.status[c] = result] ELSE sch
  <2>1. sig \in Signals
    BY <1>3, ForACallType DEF Executed, Now, ForACall, ApprovalInv
  <2>2. s \in Scheduler /\ s.chain = sch.chain
    BY <1>1 DEF Scheduler, Status
  <2>3. sch' = checkAndNotifyCompletion(s, o, sig)
    BY <1>3 DEF Executed
  <2> HIDE DEF s, sig
  <2> QED BY <2>1, <2>2, <2>3, checkAndNotifyCompletionAnswers, SameChainsNoNewAnswer,
             NoNewAnswerTransitive
<1>4. ASSUME HandlerReturns(o) PROVE NoNewAnswer(sch, sch')
  <2> DEFINE t == [sch EXCEPT !.completed = <<>>, !.isFinalizing = FALSE, !.isCancelling = FALSE]
             s == Return(t, o)
             r == Head(s.requestQueue)
             u == [s EXCEPT !.requestQueue = Tail(@)]
  <2>1. t \in Scheduler /\ t.chain = sch.chain
    <3>1. <<>> \in Seq(Calls)
      OBVIOUS
    <3> QED BY <1>1, <3>1 DEF Scheduler
  <2>2. s \in Scheduler /\ NoNewAnswer(sch, s)
    <3> HIDE DEF t
    <3> QED BY <2>1, ReturnType, ReturnAnswers, SameChainsNoNewAnswer, NoNewAnswerTransitive
  <2>3. ASSUME s.requestQueue # <<>>
        PROVE  r \in Requests /\ u \in Scheduler /\ u.chain = s.chain
    <3> HIDE DEF s
    <3>1. r \in Requests /\ Tail(s.requestQueue) \in Seq(Requests)
      BY <2>2, <2>3, HeadTailProperties DEF Scheduler
    <3>2. u \in Scheduler /\ u.chain = s.chain
      BY <2>2, <3>1 DEF Scheduler
    <3> QED BY <3>1, <3>2
  <2>4. \/ sch' = s
        \/ /\ s.requestQueue # <<>>
           /\ \E bad \in SUBSET CallSet(r) : sch' = schedule(u, r, bad)
    BY <1>4 DEF HandlerReturns
  <2> HIDE DEF s, r, u
  <2>5. ASSUME s.requestQueue # <<>>, NEW bad \in SUBSET CallSet(r)
        PROVE  NoNewAnswer(sch, schedule(u, r, bad))
    <3>1. NoNewAnswer(sch, u)
      BY <2>2, <2>3, <2>5, SameChainsNoNewAnswer, NoNewAnswerTransitive
    <3>2. NoNewAnswer(u, schedule(u, r, bad))
      BY <2>3, <2>5, scheduleAnswers
    <3> QED BY <3>1, <3>2, NoNewAnswerTransitive
  <2> QED BY <2>2, <2>4, <2>5
<1>5. ASSUME HandlerThrows(o) PROVE NoNewAnswer(sch, sch')
  <2>1. sch' = Return(sch, o)
    BY <1>5 DEF HandlerThrows
  <2>2. NoNewAnswer(sch, Return(sch, o))
    BY <1>1, ReturnAnswers
  <2> QED BY <2>1, <2>2
<1>6. ASSUME Unwind(o) PROVE NoNewAnswer(sch, sch')
  <2> DEFINE s == [sch EXCEPT !.isScheduling = FALSE, !.chain[o] = Idle]
  <2>1. sch' = s
    BY <1>6 DEF Unwind
  <2>2. \A p \in Owner : s.chain[p] = IF p = o THEN Idle ELSE sch.chain[p]
    BY <1>1 DEF Scheduler
  <2>3. Idle.at \notin Answering
    BY DEF Idle, Waiting, Answering
  <2> HIDE DEF s
  <2> QED BY <2>1, <2>2, <2>3 DEF NoNewAnswer
<1>7. NoNewAnswer(sch, sch')
  BY <1>3, <1>4, <1>5, <1>6
<1> QED BY <1>2, <1>7, StillApproved, NobodyAnswers DEF ApprovalInv

(* After onConfirm, only the chain of the response itself may wait again,  *)
(* and for the same call.                                                  *)
OnlyModifies(s, t, o, c) ==
  /\ t.chain[o].call = c
  /\ t.chain[o].at \in {"editing", "inlining"}
  /\ \A p \in Owner \ {o} : t.chain[p] = s.chain[p]

LEMMA respondAnswers ==
  ASSUME NEW s \in Scheduler, NEW o \in Owner, NEW c \in Calls, NEW outcome,
         NEW sig \in Signals, NEW t, t \in respond(s, o, c, outcome, sig, TRUE)
  PROVE  NoNewAnswer(s, t) \/ OnlyModifies(s, t, o, c)
<1> DEFINE u == setStatusInternal(s, c, "awaiting_approval")
<1>1. u \in Scheduler /\ u.chain = s.chain
  BY setStatusType, SameChains DEF Status
<1>2. \/ t = cancelAll(s, o, sig) \/ t = Return(s, o) \/ t = scheduleAndRun(s, o, c, sig)
      \/ t = Suspend(u, o, "editing", c, sig) \/ t = Suspend(s, o, "inlining", c, sig)
  BY DEF respond
<1> HIDE DEF u
<1>3. CASE t = Suspend(u, o, "editing", c, sig)
  BY <1>1, <1>3 DEF OnlyModifies, Suspend, Waiting, Scheduler
<1>4. CASE t = Suspend(s, o, "inlining", c, sig)
  BY <1>4 DEF OnlyModifies, Suspend, Waiting, Scheduler
<1>5. NoNewAnswer(s, cancelAll(s, o, sig)) /\ NoNewAnswer(s, Return(s, o))
        /\ NoNewAnswer(s, scheduleAndRun(s, o, c, sig))
  BY cancelAllAnswers, ReturnAnswers, scheduleAndRunAnswers
<1> QED BY <1>2, <1>3, <1>4, <1>5

(* The user responds: what is approved is what the screen shows.  A        *)
(* response that finds no waiting call is a Cancel.                        *)
LEMMA UserApproval ==
  ASSUME ApprovalInv, NEW o \in Answerer, NEW outcome \in Outcomes, UserResponds(o, outcome)
  PROVE  RunsWhatWasApproved' /\ AnswersAreApprovals'
<1> DEFINE c == o.of
           sig == sch.prompted[c]
           found == sch.active = c /\ sch.status[c] = "awaiting_approval"
<1>1. c \in Calls /\ o \in Owner /\ o.kind = "user" /\ sch \in Scheduler
  BY DEF Answerer, Owner, UserResponds, ApprovalInv, TypeOK
<1>2. sig \in Signals
  BY <1>1 DEF UserResponds, Respond, Scheduler
<1>3. UNCHANGED args /\ approved \subseteq approved'
  BY DEF UserResponds, Respond
<1>4. CASE found
  <2>1. sch' = [sch EXCEPT !.chain[o] = Waiting("confirming", c, sig, outcome)]
          /\ UNCHANGED started
    BY <1>4 DEF UserResponds, Respond
  <2>2. \A p \in Owner : sch'.chain[p] = IF p = o THEN Waiting("confirming", c, sig, outcome)
                                          ELSE sch.chain[p]
    BY <1>1, <2>1 DEF Scheduler
  <2>3. outcome = "ProceedOnce" => <<c, args[c]>> \in approved'
    BY <1>1 DEF UserResponds, Respond
  <2>4. AnswersAreApprovals'
    <3> SUFFICES ASSUME NEW p \in Owner
                 PROVE  /\ sch'.chain[p].at \in Answering => AnswersItsCall(p)'
                        /\ Proceeds(p)' => <<p.of, args'[p.of]>> \in approved'
      BY DEF AnswersAreApprovals
    <3>1. CASE p = o
      BY <1>1, <1>3, <2>2, <2>3, <3>1 DEF AnswersItsCall, Proceeds, Now, Waiting
    <3>2. CASE p # o
      BY <1>3, <2>2, <3>2
         DEF ApprovalInv, AnswersAreApprovals, AnswersItsCall, Proceeds, Now
    <3> QED BY <3>1, <3>2
  <2> QED BY <1>3, <2>1, <2>4, StillApproved DEF ApprovalInv
<1>5. CASE ~found
  <2>1. outcome = "Cancel"
    BY <1>5 DEF UserResponds
  <2>2. sch' \in respond(sch, o, c, outcome, sig, FALSE)
    BY <1>5 DEF UserResponds, Respond
  <2>3. sch' = cancelAll(sch, o, sig)
    BY <2>1, <2>2 DEF respond
  <2>4. UNCHANGED started
    BY <1>5, <2>1 DEF UserResponds, Respond, RunsNow
  <2>5. NoNewAnswer(sch, sch')
    <3> HIDE DEF sig
    <3> QED BY <1>1, <1>2, <2>3, cancelAllAnswers
  <2> QED BY <1>3, <2>4, <2>5, StillApproved, NobodyAnswers DEF ApprovalInv
<1> QED BY <1>4, <1>5

(* onConfirm returns: a tool that is started now was approved, and no      *)
(* answer replaced its arguments since.                                    *)
LEMMA ConfirmedApproval ==
  ASSUME ApprovalInv, NEW o \in Owner, Confirmed(o) \/ ConfirmThrows(o)
  PROVE  RunsWhatWasApproved' /\ AnswersAreApprovals'
<1> DEFINE w == sch.chain[o]
<1>1. w.call \in Calls /\ w.signal \in Signals /\ sch \in Scheduler
  BY ForACallType DEF Confirmed, ConfirmThrows, Now, ForACall, ApprovalInv, TypeOK
<1>2. AnswersItsCall(o) /\ (w.outcome = "ProceedOnce" => <<o.of, args[o.of]>> \in approved)
  BY DEF ApprovalInv, AnswersAreApprovals, Confirmed, ConfirmThrows, Now, Answering, Proceeds
<1>3. UNCHANGED <<args, approved>>
  BY DEF Confirmed, ConfirmThrows
<1>4. CASE Confirmed(o)
  <2>1. sch' \in respond(sch, o, w.call, w.outcome, w.signal, TRUE)
    BY <1>4 DEF Confirmed
  <2>2. RunsWhatWasApproved'
    <3>1. CASE w.outcome = "ProceedOnce"
      <4>1. <<w.call, args[w.call]>> \in approved'
        BY <1>2, <1>3, <3>1 DEF AnswersItsCall
      <4>2. started' = started
              \/ started' = [started EXCEPT ![w.call] = Append(@, args[w.call])]
        BY <1>4 DEF Confirmed
      <4> HIDE DEF w
      <4> QED BY <1>1, <1>3, <4>1, <4>2, StartIsApproved DEF ApprovalInv
    <3>2. CASE w.outcome # "ProceedOnce"
      <4>1. UNCHANGED started
        BY <1>4, <3>2 DEF Confirmed, RunsNow
      <4> QED BY <1>3, <4>1, StillApproved DEF ApprovalInv
    <3> QED BY <3>1, <3>2
  <2>3. CASE NoNewAnswer(sch, sch')
    BY <1>3, <2>2, <2>3, NobodyAnswers DEF ApprovalInv
  <2>4. CASE OnlyModifies(sch, sch', o, w.call)
    <3> SUFFICES ASSUME NEW p \in Owner
                 PROVE  /\ sch'.chain[p].at \in Answering => AnswersItsCall(p)'
                        /\ Proceeds(p)' => <<p.of, args'[p.of]>> \in approved'
      BY <2>2 DEF AnswersAreApprovals
    <3>1. CASE p = o
      BY <1>2, <2>4, <3>1 DEF OnlyModifies, AnswersItsCall, Proceeds, Now
    <3>2. CASE p # o
      BY <1>3, <2>4, <3>2
         DEF ApprovalInv, OnlyModifies, AnswersAreApprovals, AnswersItsCall, Proceeds, Now
    <3> QED BY <3>1, <3>2
  <2>5. NoNewAnswer(sch, sch') \/ OnlyModifies(sch, sch', o, w.call)
    BY <1>1, <2>1, respondAnswers
  <2> QED BY <2>3, <2>4, <2>5
<1>5. CASE ConfirmThrows(o)
  <2>1. NoNewAnswer(sch, sch')
    BY <1>1, <1>5, ReturnAnswers DEF ConfirmThrows
  <2>2. UNCHANGED started
    BY <1>5 DEF ConfirmThrows
  <2> QED BY <1>3, <2>1, <2>2, StillApproved, NobodyAnswers DEF ApprovalInv
<1> QED BY <1>4, <1>5

(* The arguments of a call are replaced: no other chain holds an approval  *)
(* for the old ones, since the call's only answerer is the one that waits  *)
(* for the editor.                                                         *)
LEMMA ModifiedApproval ==
  ASSUME ApprovalInv, NEW o \in Owner, NEW built \in BOOLEAN, Modified(o, built)
  PROVE  RunsWhatWasApproved' /\ AnswersAreApprovals'
<1> DEFINE c == sch.chain[o].call
           sig == sch.chain[o].signal
           s == setStatusInternal(setArgs(sch, c, built), c, "awaiting_approval")
<1>1. c \in Calls /\ sig \in Signals /\ sch \in Scheduler
  BY ForACallType DEF Modified, ForACall, ApprovalInv, TypeOK
<1>2. AnswersItsCall(o)
  BY DEF ApprovalInv, AnswersAreApprovals, Modified, Answering
<1>3. RunsWhatWasApproved'
  BY StillApproved DEF ApprovalInv, Modified
<1>4. \A d \in Calls : d # c => args'[d] = args[d]
  BY <1>1 DEF Modified, ApprovalInv, TypeOK
<1>5. UNCHANGED approved
  BY DEF Modified
<1>6. NoNewAnswer(sch, sch') /\ sch'.chain[o].at \notin Answering
  <2>1. s \in Scheduler /\ s.chain = sch.chain
    BY <1>1, setArgsType, setStatusType, SameChains DEF Status
  <2>2. sch' = attemptExecution(s, o, sig)
    BY DEF Modified
  <2> HIDE DEF s, sig
  <2> QED BY <1>1, <2>1, <2>2, attemptAnswers, SameChainsNoNewAnswer, NoNewAnswerTransitive
<1>7. AnswersAreApprovals'
  <2> SUFFICES ASSUME NEW p \in Owner, sch'.chain[p].at \in Answering
               PROVE  /\ AnswersItsCall(p)'
                      /\ Proceeds(p)' => <<p.of, args'[p.of]>> \in approved'
    BY DEF AnswersAreApprovals, Proceeds, Now, Answering
  <2>1. p # o /\ sch'.chain[p] = sch.chain[p]
    BY <1>6 DEF NoNewAnswer
  <2>2. AnswersItsCall(p) /\ (Proceeds(p) => <<p.of, args[p.of]>> \in approved)
    BY <2>1 DEF ApprovalInv, AnswersAreApprovals
  <2>3. p.of \in Calls /\ p.of # o.of
    BY <1>2, <2>1, <2>2 DEF AnswersItsCall, Answerer
  <2>4. args'[p.of] = args[p.of]
    BY <1>2, <1>4, <2>3 DEF AnswersItsCall
  <2> QED BY <1>5, <2>1, <2>2, <2>4 DEF AnswersItsCall, Proceeds, Now
<1> QED BY <1>3, <1>7

(* A modification that does not happen.                                    *)
LEMMA NotModifiedApproval ==
  ASSUME ApprovalInv, NEW o \in Owner, NotEdited(o) \/ NotInlined(o) \/ ModifyThrows(o)
  PROVE  RunsWhatWasApproved' /\ AnswersAreApprovals'
<1> DEFINE c == sch.chain[o].call
           sig == sch.chain[o].signal
<1>1. c \in Calls /\ sig \in Signals /\ sch \in Scheduler
  BY ForACallType DEF NotEdited, NotInlined, ModifyThrows, Now, ForACall, ApprovalInv, TypeOK
<1>2. UNCHANGED args /\ approved \subseteq approved'
  BY DEF NotEdited, NotInlined, ModifyThrows
<1>3. CASE NotEdited(o)
  <2> DEFINE s == setStatusInternal(sch, c, "awaiting_approval")
  <2>1. s \in Scheduler /\ s.chain = sch.chain
    BY <1>1, setStatusType, SameChains DEF Status
  <2>2. sch' = attemptExecution(s, o, sig) /\ UNCHANGED started
    BY <1>3 DEF NotEdited
  <2>3. NoNewAnswer(sch, sch')
    <3> HIDE DEF s, sig
    <3> QED BY <1>1, <2>1, <2>2, attemptAnswers, SameChainsNoNewAnswer, NoNewAnswerTransitive
  <2> QED BY <1>2, <2>2, <2>3, StillApproved, NobodyAnswers DEF ApprovalInv
<1>4. CASE NotInlined(o)
  <2>1. NoNewAnswer(sch, sch')
    BY <1>1, <1>4, scheduleAndRunAnswers DEF NotInlined
  <2>2. <<c, args[c]>> \in approved'
    BY <1>4 DEF NotInlined
  <2>3. started' = started \/ started' = [started EXCEPT ![c] = Append(@, args[c])]
    BY <1>4 DEF NotInlined
  <2> QED BY <1>1, <1>2, <2>1, <2>2, <2>3, StartIsApproved, NobodyAnswers DEF ApprovalInv
<1>5. CASE ModifyThrows(o)
  <2>1. NoNewAnswer(sch, sch')
    BY <1>1, <1>5, ReturnAnswers DEF ModifyThrows
  <2>2. UNCHANGED started
    BY <1>5 DEF ModifyThrows
  <2> QED BY <1>2, <2>1, <2>2, StillApproved, NobodyAnswers DEF ApprovalInv
<1> QED BY <1>3, <1>4, <1>5

LEMMA ApprovalInit == Init => ApprovalInv
<1> SUFFICES ASSUME Init PROVE ApprovalInv
  OBVIOUS
<1>1. RunsWhatWasApproved
  BY DEF Init, RunsWhatWasApproved
<1>2. AnswersAreApprovals
  BY DEF Init, AnswersAreApprovals, Answering, Proceeds, Now, Idle, Waiting
<1> QED BY <1>1, <1>2, InitType DEF ApprovalInv

LEMMA ApprovalNext ==
  ASSUME Ide = FALSE, ApprovalInv, [Next]_vars
  PROVE  ApprovalInv'
<1>1. TypeOK'
  BY NextType DEF ApprovalInv
<1>2. CASE UNCHANGED vars
  BY <1>1, <1>2 DEF vars, ApprovalInv, RunsWhatWasApproved, AnswersAreApprovals,
                    AnswersItsCall, Proceeds, Now
<1>3. CASE NewTurn \/ (\E r \in Requests : Schedule(r))
             \/ (\E sig \in Signals : Abort(sig) \/ Escape(sig))
  BY <1>1, <1>3, ClientApproval DEF ApprovalInv
<1>4. ASSUME NEW o \in Answerer, NEW outcome \in Outcomes,
             UserResponds(o, outcome) \/ IdeResponds(o, outcome)
      PROVE  RunsWhatWasApproved' /\ AnswersAreApprovals'
  BY <1>4, UserApproval DEF IdeResponds
<1>5. ASSUME NEW o \in Owner, Resume(o)
      PROVE  RunsWhatWasApproved' /\ AnswersAreApprovals'
  BY <1>5, ValidationApproval, CompletionApproval, ConfirmedApproval, ModifiedApproval,
     NotModifiedApproval DEF Resume
<1> QED BY <1>1, <1>2, <1>3, <1>4, <1>5 DEF Next, ApprovalInv

(* Where no IDE answers, every execution of a tool has arguments that      *)
(* policy or the user approved: neither a modification, nor an answer that *)
(* arrives late, nor an abort between approval and execution changes what  *)
(* runs (handleConfirmationResponse and attemptExecutionOfScheduledCalls). *)
THEOREM RunsOnlyApproved ==
  ASSUME Ide = FALSE
  PROVE  Spec => []RunsWhatWasApproved
<1>1. Init => ApprovalInv
  BY ApprovalInit
<1>2. ApprovalInv /\ [Next]_vars => ApprovalInv'
  BY ApprovalNext
<1>3. ApprovalInv => RunsWhatWasApproved
  BY DEF ApprovalInv
<1> QED BY <1>1, <1>2, <1>3, PTL DEF Spec
==============================================================================
