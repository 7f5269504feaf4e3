--------------------------- MODULE SchedulerSafety ----------------------------
(***************************************************************************)
(* Theorems about the steps of CoreToolScheduler, for all values of its    *)
(* constants: what they overwrite, start and cancel, what they leave behind, *)
(* and that they are steps of ToolBatches.                                 *)
(***************************************************************************)
EXTENDS SchedulerInvariants

------------------------------------------------------------------------------
(***************************************************************************)
(* The steps, by their effect.                                             *)
(***************************************************************************)

(* A chain goes on with the call it waits for;                             *)
Works(o, c, sig) ==
  /\ sch.chain[o].call = c /\ sch.chain[o].signal = sig
  /\ Moves(sch, sch', o)
  /\ \/ /\ Now(o, "validating")
        /\ \/ Proceeding(sch, sch', o, c, sig)
           \/ Asks(sch, sch', o, c, sig) /\ Interactive
           \/ Fails(sch, sch', o)
     \/ Now(o, "executing") /\ Finished(sch, sch', o)
     \/ /\ Now(o, "confirming")
        /\ \/ Handles(sch, sch', o, c, sch.chain[o].outcome, sig, TRUE)
           \/ Returns(sch, sch', o)
     \/ /\ sch.chain[o].at \in {"editing", "inlining"}
        /\ \/ Reopens(sch, sch', o, c, "awaiting_approval")
           \/ Reopens(sch, sch', o, c, "error") /\ "rebuild" \in MayThrow
           \/ Proceeding(sch, sch', o, c, sig)
           \/ Returns(sch, sch', o)
(* a response arrives;                                                     *)
Responds(o, c, sig, outcome) ==
  /\ sch.chain[o] = Idle /\ o \in Answerer /\ o.of = c /\ sch.prompted[c] = sig
  /\ o.kind = "user" \/ Ide
  /\ Drained /\ Moves(sch, sch', o)
  /\ \/ /\ sch.active = c /\ sch.status[c] = "awaiting_approval"
        /\ Answers(sch, sch', o, Waiting("confirming", c, sig, outcome))
     \/ /\ ~(sch.active = c /\ sch.status[c] = "awaiting_approval")
        /\ Handles(sch, sch', o, c, outcome, sig, FALSE)
        /\ Ide \/ (outcome = "Cancel" /\ sig = turn /\ turn \in sch.aborted)
(* a chain has its returns left, or loses its handler;                     *)
Ends(o) ==
  \/ Now(o, "finalizing") /\ "handler" \in MayThrow /\ Returns(sch, sch', o)
  \/ /\ Now(o, "unwinding")
     /\ sch' = [sch EXCEPT !.isScheduling = FALSE, !.chain[o] = Idle]
(* the calls of a request enter the scheduler, after the client asked for  *)
(* it or after the handler of an earlier batch returned;                   *)
Begins(s, t, r) ==
  /\ CallSet(r) \cap Taken = {}
  /\ ScheduleChain(r) \in Owner /\ s.chain[ScheduleChain(r)].call = None
  /\ Placed(s, Taken) /\ SlotOpen(s)
  /\ \E bad \in SUBSET CallSet(r) : Enters(s, t, r, bad)
Scheduling(r) ==
  /\ Ready /\ ~isRunning(sch) /\ ~sch.isScheduling /\ SignalOf[r] = turn
  /\ Begins(sch, sch', r)
NextBatch(o, u, r) ==
  /\ Now(o, "finalizing") /\ Resets(sch, u, o)
  /\ sch.requestQueue # <<>> /\ u.requestQueue = Tail(sch.requestQueue)
  /\ r = Head(sch.requestQueue) /\ r \in Range(sch.requestQueue)
  /\ IF isRunning(u) THEN Refused(u, sch') ELSE Begins(u, sch', r)
NoBatch(o) ==
  /\ Now(o, "finalizing") /\ Resets(sch, sch', o)
  /\ sch.requestQueue = <<>> /\ sch'.requestQueue = <<>>
(* a signal is aborted.                                                    *)
Queues(r) ==
  /\ Drained
  /\ isRunning(sch) \/ sch.isScheduling
  /\ sch' = [sch EXCEPT !.requestQueue = Append(@, r)]
Cuts(sig) == sig \in Abortable /\ Aborts(sch, sch', sig)
Escapes(sig, o, u) ==
  /\ Drained /\ sig = turn /\ sig \in Escapable /\ sch.chain[o] = Idle
  /\ Aborts(sch, u, sig) /\ Placed(u, Taken) /\ SlotOpen(u)
  /\ Clears(u, sch', o, sig)

LEMMA ContinuesSteps ==
  ASSUME OwnInv, TypeOK', NEW o \in Owner, Continues(o)
  PROVE  \/ Ends(o)
         \/ \E c \in Calls, sig \in Signals : Works(o, c, sig)
<1>0. Moves(sch, sch', o)
  BY ContinuesMoves, OwnFacts
<1>1. sch \in Scheduler /\ sch' \in Scheduler /\ PlaceInv /\ TypeOK
        /\ \A d \in Calls : sch.status[d] # "scheduled"
        /\ SlotOpen(sch) /\ Queued(sch) \cap Slot(sch) = {}
  BY OwnFacts, PlaceFacts DEF TypeOK
<1>2. CASE HandlerThrows(o) \/ Unwind(o)
  BY <1>1, <1>2, ReturnReturns DEF HandlerThrows, Unwind, Ends
<1>3. ASSUME sch.chain[o].at \in ForACall
      PROVE  \E c \in Calls, sig \in Signals :
               c = sch.chain[o].call /\ sig = sch.chain[o].signal
  BY <1>1, <1>3, ForACallType
<1>4. CASE PolicyAllows(o) \/ PolicyDenies(o) \/ PolicyAsks(o) \/ ValidationFails(o)
  <2>1. /\ Now(o, "validating")
        /\ \/ Proceeding(sch, sch', o, sch.chain[o].call, sch.chain[o].signal)
           \/ Fails(sch, sch', o)
           \/ Asks(sch, sch', o, sch.chain[o].call, sch.chain[o].signal) /\ Interactive
    BY <1>1, <1>4, ValidationSteps
  <2>2. PICK c \in Calls, sig \in Signals : c = sch.chain[o].call /\ sig = sch.chain[o].signal
    BY <1>3, <2>1 DEF Now, ForACall
  <2>3. Works(o, c, sig)
    BY <1>0, <2>1, <2>2 DEF Works
  <2> QED BY <2>3
<1>5. CASE \E result \in Terminal : Executed(o, result)
  <2>1. Now(o, "executing") /\ Finished(sch, sch', o)
    BY <1>1, <1>5, ExecutedSteps DEF Executed
  <2>2. PICK c \in Calls, sig \in Signals : c = sch.chain[o].call /\ sig = sch.chain[o].signal
    BY <1>3, <2>1 DEF Now, ForACall
  <2>3. Works(o, c, sig)
    BY <1>0, <2>1, <2>2 DEF Works
  <2> QED BY <2>3
<1>6. CASE Confirmed(o) \/ ConfirmThrows(o)
  <2>1. Now(o, "confirming")
    BY <1>6 DEF Confirmed, ConfirmThrows
  <2>2. PICK c \in Calls, sig \in Signals : c = sch.chain[o].call /\ sig = sch.chain[o].signal
    BY <1>3, <2>1 DEF Now, ForACall
  <2>3. CASE Confirmed(o)
    <3>1. PICK outcome : outcome = sch.chain[o].outcome
      OBVIOUS
    <3>2. sch' \in respond(sch, o, c, outcome, sig, TRUE)
      BY <2>2, <2>3, <3>1 DEF Confirmed
    <3>3. Handles(sch, sch', o, c, outcome, sig, TRUE)
      BY <1>1, <3>2, respondSteps
    <3>4. Works(o, c, sig)
      BY <1>0, <2>1, <2>2, <3>1, <3>3 DEF Works
    <3> QED BY <3>4
  <2>4. CASE ConfirmThrows(o)
    <3>1. Returns(sch, sch', o)
      BY <1>1, <2>4, ReturnReturns DEF ConfirmThrows
    <3>2. Works(o, c, sig)
      BY <1>0, <2>1, <2>2, <3>1 DEF Works
    <3> QED BY <3>2
  <2> QED BY <1>6, <2>3, <2>4
<1>7. CASE \/ \E built \in BOOLEAN : Modified(o, built)
           \/ NotEdited(o) \/ NotInlined(o) \/ ModifyThrows(o)
  <2>1. sch.chain[o].at \in {"editing", "inlining"}
    BY <1>7 DEF Modified, NotEdited, NotInlined, ModifyThrows, Now
  <2>2. PICK c \in Calls, sig \in Signals : c = sch.chain[o].call /\ sig = sch.chain[o].signal
    BY <1>3, <2>1 DEF ForACall
  <2>3. \/ Reopens(sch, sch', o, c, "awaiting_approval")
        \/ Reopens(sch, sch', o, c, "error") /\ "rebuild" \in MayThrow
        \/ Proceeding(sch, sch', o, c, sig)
        \/ Returns(sch, sch', o)
    BY <1>1, <1>7, <2>1, <2>2, ModificationSteps
  <2>4. Works(o, c, sig)
    BY <1>0, <2>1, <2>2, <2>3 DEF Works
  <2> QED BY <2>4
<1> QED BY <1>2, <1>4, <1>5, <1>6, <1>7 DEF Continues

LEMMA RespondsSteps ==
  ASSUME OwnInv, TypeOK', NEW o \in Answerer, NEW outcome,
         UserResponds(o, outcome) \/ IdeResponds(o, outcome)
  PROVE  \E c \in Calls, sig \in Signals :
           /\ o \in Owner /\ Responds(o, c, sig, outcome)
           /\ answers'[o] # answers[o]
<1>1. Respond(o, outcome) /\ Drained
  BY DEF UserResponds, IdeResponds
<1>2. PICK c \in Calls, sig \in Signals : c = o.of /\ sig = sch.prompted[o.of]
  BY <1>1, OwnFacts, RespondSteps
<1>3. o \in Owner /\ sch.chain[o] = Idle
  BY <1>1, OwnFacts, RespondSteps
<1>4. \/ /\ sch.active = c /\ sch.status[c] = "awaiting_approval"
         /\ Answers(sch, sch', o, Waiting("confirming", c, sig, outcome))
      \/ /\ ~(sch.active = c /\ sch.status[c] = "awaiting_approval")
         /\ Handles(sch, sch', o, c, outcome, sig, FALSE)
  BY <1>1, <1>2, OwnFacts, RespondSteps
<1>5. ~(sch.active = c /\ sch.status[c] = "awaiting_approval")
        => Ide \/ (outcome = "Cancel" /\ sig = turn /\ turn \in sch.aborted)
  <2>1. CASE UserResponds(o, outcome)
    <3>1. \/ sch.active = o.of /\ sch.status[o.of] = "awaiting_approval"
          \/ outcome = "Cancel" /\ sch.prompted[o.of] = turn /\ turn \in sch.aborted
      BY <2>1 DEF UserResponds
    <3> QED BY <1>2, <3>1
  <2>2. CASE IdeResponds(o, outcome)
    <3>1. Ide
      BY <2>2 DEF IdeResponds
    <3> QED BY <3>1
  <2> QED BY <2>1, <2>2
<1>6. answers'[o] # answers[o]
  BY <1>1, OwnFacts DEF Respond, TypeOK
<1>7. Moves(sch, sch', o)
  BY <1>1, OwnFacts, RespondMoves
<1>8. o.kind = "user" \/ Ide
  BY DEF UserResponds, IdeResponds
<1>9. Responds(o, c, sig, outcome)
  BY <1>1, <1>2, <1>3, <1>4, <1>5, <1>7, <1>8 DEF Responds
<1> QED BY <1>3, <1>6, <1>9

LEMMA ScheduleKinds ==
  ASSUME OwnInv, TypeOK', NEW r \in Requests, Schedule(r)
  PROVE  Queues(r) \/ Scheduling(r)
<1>1. sch \in Scheduler /\ PlaceInv /\ QueueInv /\ TypeOK /\ Placed(sch, Taken) /\ SlotOpen(sch)
  BY OwnFacts
<1>2. r \notin Entered /\ CallSet(r) \cap Taken = {}
  BY <1>1, TakenCalls DEF Schedule, Entered
<1>3. ScheduleChain(r) \in Owner /\ sch.chain[ScheduleChain(r)].call = None
  BY <1>1, <1>2 DEF QueueInv, Fresh, Owner, ScheduleChain, Idle, Waiting
<1>4. /\ Ready /\ SignalOf[r] = turn
      /\ \/ /\ isRunning(sch) \/ sch.isScheduling
            /\ sch' = [sch EXCEPT !.requestQueue = Append(@, r)]
         \/ /\ ~isRunning(sch) /\ ~sch.isScheduling
            /\ \E bad \in SUBSET CallSet(r) : Enters(sch, sch', r, bad)
  BY <1>1, ScheduleSteps
<1>5. Ready => Drained
  BY DEF Ready
<1> QED BY <1>1, <1>2, <1>3, <1>4, <1>5 DEF Queues, Scheduling, Begins

LEMMA AbortKinds ==
  ASSUME OwnInv, TypeOK', NEW sig \in Signals, Abort(sig) \/ Escape(sig)
  PROVE  \/ Cuts(sig)
         \/ \E o \in Owner, u \in Scheduler : Escapes(sig, o, u)
<1>1. sch \in Scheduler /\ PlaceInv /\ QueueInv
  BY OwnFacts
<1>2. PICK u \in Scheduler : u = abort(sch, sig)
  BY <1>1, abortType
<1>3. Aborts(sch, u, sig)
  BY <1>1, <1>2, abortSteps
<1>4. CASE Abort(sig)
  BY <1>2, <1>3, <1>4 DEF Abort, Cuts
<1>5. CASE Escape(sig)
  <2>1. PICK o \in Owner : o = CancelChain(sig)
    BY DEF Owner, CancelChain
  <2>2. sch' = cancelAll(u, o, sig)
    BY <1>2, <1>5, <2>1 DEF Escape, CancelChain
  <2>3. Placed(u, Taken) /\ SlotOpen(u)
    BY <1>1, <1>2, abortPlaced
  <2>4. Clears(u, sch', o, sig)
    BY <2>2, <2>3, cancelAllSteps DEF Placed
  <2>5. sch.chain[o] = Idle
    BY <1>1, <1>5, <2>1 DEF Escape, QueueInv, Fresh
  <2>6. Escapes(sig, o, u)
    BY <1>3, <1>5, <2>3, <2>4, <2>5 DEF Escape, Escapes
  <2> QED BY <2>6
<1> QED BY <1>4, <1>5

LEMMA HandlerKinds ==
  ASSUME OwnInv, TypeOK', NEW o \in Owner, HandlerReturns(o)
  PROVE  \/ NoBatch(o)
         \/ \E u \in Scheduler, r \in Requests : NextBatch(o, u, r)
<1>1. sch \in Scheduler /\ sch' \in Scheduler /\ PlaceInv /\ QueueInv /\ TypeOK
        /\ Placed(sch, Taken) /\ SlotOpen(sch) /\ RequestsKept
  BY OwnFacts DEF TypeOK, PlaceInv
<1>2. Now(o, "finalizing")
  BY DEF HandlerReturns
<1>3. ASSUME NEW u \in Scheduler, NEW r \in Requests, Next1(sch, u, sch', o, r)
      PROVE  NextBatch(o, u, r)
  <2>1. /\ Resets(sch, u, o) /\ sch.requestQueue # <<>> /\ u.requestQueue = Tail(sch.requestQueue)
        /\ r = Head(sch.requestQueue)
    BY <1>3 DEF Next1
  <2>2. r \in Range(sch.requestQueue)
    <3>1. sch.requestQueue \in Seq(Requests)
      BY <1>1 DEF Scheduler
    <3> QED BY <1>3, <3>1, HeadRemoved, <1>1 DEF Next1, RequestsKept
  <2>3. r \notin Entered /\ CallSet(r) \cap Taken = {}
    BY <1>1, <2>2, TakenCalls DEF Entered
  <2>4. Placed(u, Taken) /\ SlotOpen(u)
    BY <1>1, <2>1, resetsPlaced
  <2>5. ScheduleChain(r) \in Owner /\ u.chain[ScheduleChain(r)].call = None
    <3>1. ScheduleChain(r) \in Owner /\ sch.chain[ScheduleChain(r)].call = None
      BY <1>1, <2>3 DEF QueueInv, Fresh, Owner, ScheduleChain, Idle, Waiting
    <3>2. \A p \in Owner : u.chain[p] = IF p = o THEN Returned(o) ELSE sch.chain[p]
      BY <1>1, <2>1 DEF Resets, Scheduler
    <3> QED BY <3>1, <3>2 DEF Returned, Idle, Waiting
  <2>6. ~isRunning(u) => Begins(u, sch', r)
    BY <1>3, <2>3, <2>4, <2>5 DEF Next1, Begins
  <2>7. isRunning(u) => Refused(u, sch')
    BY <1>3 DEF Next1
  <2> QED BY <1>2, <2>1, <2>2, <2>6, <2>7 DEF NextBatch
<1> QED BY <1>1, <1>2, <1>3, HandlerSteps DEF NoBatch

(* Every step is one of these.                                             *)
Begun == \E r \in Requests : Queues(r) \/ Scheduling(r)
Stopped == \E sig \in Signals : Cuts(sig) \/ \E o \in Owner, u \in Scheduler : Escapes(sig, o, u)
Responded ==
  \E o \in Owner, c \in Calls, sig \in Signals, outcome \in Outcomes :
    Responds(o, c, sig, outcome) /\ answers'[o] # answers[o]
Continued ==
  \E o \in Owner :
    \/ Ends(o) \/ NoBatch(o)
    \/ \E c \in Calls, sig \in Signals : Works(o, c, sig)
    \/ \E u \in Scheduler, r \in Requests : NextBatch(o, u, r)

LEMMA NextKinds ==
  ASSUME OwnInv, [Next]_vars
  PROVE  \/ sch' = sch /\ (turn' = turn \/ Ready)
         \/ turn' = turn /\ (Begun \/ Stopped \/ Responded \/ Continued)
<1>1. TypeOK'
  BY OwnNext DEF OwnInv, QueueInv, PlaceInv
<1>2. CASE UNCHANGED vars \/ NewTurn
  BY <1>2 DEF vars, NewTurn
<1>3. ASSUME NEW r \in Requests, Schedule(r) PROVE turn' = turn /\ Begun
  BY <1>1, <1>3, ScheduleKinds DEF Begun, Schedule
<1>4. ASSUME NEW sig \in Signals, Abort(sig) \/ Escape(sig) PROVE turn' = turn /\ Stopped
  BY <1>1, <1>4, AbortKinds DEF Stopped, Abort, Escape
<1>5. ASSUME NEW o \in Answerer, NEW outcome \in Outcomes,
             UserResponds(o, outcome) \/ IdeResponds(o, outcome)
      PROVE  turn' = turn /\ Responded
  <2>1. turn' = turn
    BY <1>5 DEF UserResponds, IdeResponds, Respond
  <2>2. PICK c \in Calls, sig \in Signals :
          /\ o \in Owner /\ Responds(o, c, sig, outcome)
          /\ answers'[o] # answers[o]
    BY <1>1, <1>5, RespondsSteps
  <2> QED BY <2>1, <2>2 DEF Responded
<1>6. ASSUME NEW o \in Owner, Resume(o) PROVE turn' = turn /\ Continued
  <2>1. CASE HandlerReturns(o)
    BY <1>1, <2>1, HandlerKinds DEF Continued, HandlerReturns
  <2>2. CASE Continues(o)
    <3>1. turn' = turn
      BY <1>1, <2>2, ContinuesMoves, OwnFacts
    <3> QED BY <1>1, <2>2, <3>1, ContinuesSteps DEF Continued
  <2> QED BY <1>6, <2>1, <2>2 DEF Resume, Continues
<1> QED BY <1>2, <1>3, <1>4, <1>5, <1>6 DEF Next

(* Finished calls keep their status from s to t.                           *)
Keeps(s, t) == \A c \in Calls : s.status[c] \in Terminal => t.status[c] = s.status[c]

LEMMA advanceKeeps ==
  ASSUME NEW s \in Scheduler, NEW t \in Scheduler, NEW o, NEW sig, Advances(s, t, o, sig),
         NEW T, Placed(s, T)
  PROVE  Keeps(s, t)
<1>1. \A c \in Calls : \/ t.status[c] = s.status[c]
                       \/ c \in Queued(s) /\ s.status[c] # "error"
  <2>1. CASE Finishes(s, t, o, sig)
    BY <2>1 DEF Finishes
  <2>2. CASE Takes(s, t, o, sig) \/ Rests(s, t, o, sig)
    BY <2>2 DEF Takes, Rests
  <2> QED BY <2>1, <2>2 DEF Advances
<1> QED BY <1>1 DEF Placed, Keeps, Terminal

LEMMA settlesKeeps ==
  ASSUME NEW s \in Scheduler, NEW t \in Scheduler, NEW o, NEW sig, Settles(s, t, o, sig),
         NEW T, Placed(s, T)
  PROVE  Keeps(s, t)
<1>1. CASE Returns(s, t, o)
  BY <1>1 DEF Returns, Keeps
<1>2. ASSUME NEW u \in Scheduler, Emptied(s, u), Advances(u, t, o, sig) PROVE Keeps(s, t)
  <2>1. Keeps(u, t)
    BY <1>2, emptiedPlaced, advanceKeeps
  <2> QED BY <1>2, <2>1 DEF Emptied, Keeps
<1> QED BY <1>1, <1>2 DEF Settles

LEMMA clearsKeeps ==
  ASSUME NEW s \in Scheduler, NEW t \in Scheduler, NEW o, NEW sig, Clears(s, t, o, sig),
         NEW T, Placed(s, T), SlotOpen(s)
  PROVE  Keeps(s, t)
<1>1. CASE Returns(s, t, o)
  BY <1>1 DEF Returns, Keeps
<1>2. ASSUME NEW u \in Scheduler, Dropped(s, u), Advances(u, t, o, sig) PROVE Keeps(s, t)
  <2>1. Keeps(u, t)
    BY <1>2, droppedPlaced, advanceKeeps
  <2>2. \A c \in Calls : \/ u.status[c] = s.status[c]
                         \/ c \in Queued(s) /\ s.status[c] # "error"
                         \/ Live(s, c)
    BY <1>2 DEF Dropped
  <2>3. Keeps(s, u)
    BY <2>2 DEF Placed, Live, Keeps, Terminal
  <2> QED BY <2>1, <2>3 DEF Keeps
<1> QED BY <1>1, <1>2 DEF Clears

LEMMA handlesKeeps ==
  ASSUME NEW s \in Scheduler, NEW t \in Scheduler, NEW o, NEW c \in Calls, NEW outcome, NEW sig,
         NEW found, Handles(s, t, o, c, outcome, sig, found), NEW T, Placed(s, T), SlotOpen(s)
  PROVE  Keeps(s, t)
<1>1. CASE Clears(s, t, o, sig)
  BY <1>1, clearsKeeps
<1>2. CASE Returns(s, t, o) \/ Runs(s, t, o, c, sig)
  BY <1>2 DEF Returns, Runs, Keeps
<1>3. ASSUME NEW w, Answers(s, t, o, w) PROVE Keeps(s, t)
  BY <1>3 DEF Answers, Live, Keeps
<1> QED BY <1>1, <1>2, <1>3 DEF Handles, Proceeding

LEMMA beginsKeeps ==
  ASSUME NEW s \in Scheduler, NEW t \in Scheduler, NEW r \in Requests, Begins(s, t, r)
  PROVE  Keeps(s, t)
<1>1. PICK bad \in SUBSET CallSet(r), u \in Scheduler :
        /\ Enqueued(s, u, r, bad)
        /\ IF s.active # None THEN Returns(u, t, ScheduleChain(r))
           ELSE Advances(u, t, ScheduleChain(r), SignalOf[r])
  BY DEF Begins, Enters
<1>2. Placed(u, Taken \cup CallSet(r))
  BY <1>1, enqueuedPlaced DEF Begins
<1>3. \A c \in Calls : s.status[c] \in Terminal => c \notin CallSet(r)
  BY DEF Begins, Placed, Terminal
<1>4. Keeps(s, u)
  BY <1>1, <1>3 DEF Enqueued, Keeps
<1>5. CASE s.active # None
  BY <1>1, <1>4, <1>5 DEF Returns, Keeps
<1>6. CASE s.active = None
  <2>1. Keeps(u, t)
    BY <1>1, <1>2, <1>6, advanceKeeps
  <2> QED BY <1>4, <2>1 DEF Keeps
<1> QED BY <1>5, <1>6

(* The call in the slot is not finished when the tool that runs for it     *)
(* returns.                                                                *)
LEMMA RunningOpen ==
  ASSUME OwnInv, ~Ide \/ "rebuild" \notin MayThrow, NEW o \in Owner, Now(o, "executing"),
         sch.active # None, sch.chain[o].call = sch.active
  PROVE  sch.status[sch.active] \notin Terminal
<1>1. CASE ~Ide
  <2>1. SlotOwned(sch)
    BY <1>1 DEF OwnInv
  <2>2. Fits(sch, o)
    BY <2>1 DEF SlotOwned, Holds
  <2>3. sch.status[sch.active] = "executing"
    BY <2>2 DEF Fits, Now
  <2> QED BY <2>3 DEF Terminal
<1>2. CASE "rebuild" \notin MayThrow
  <2>1. ActiveOpen(sch) /\ SlotOpen(sch)
    BY <1>2, OwnFacts DEF OwnInv
  <2> QED BY <2>1 DEF ActiveOpen, SlotOpen, Unfinished, Terminal
<1> QED BY <1>1, <1>2

LEMMA WorksKeeps ==
  ASSUME OwnInv, TypeOK', ~Ide \/ "rebuild" \notin MayThrow,
         NEW o \in Owner, NEW c \in Calls, NEW sig \in Signals, Works(o, c, sig)
  PROVE  Keeps(sch, sch')
<1>1. sch \in Scheduler /\ sch' \in Scheduler /\ Placed(sch, Taken) /\ SlotOpen(sch)
  BY OwnFacts DEF TypeOK
<1>2. CASE Proceeding(sch, sch', o, c, sig) \/ Returns(sch, sch', o)
  BY <1>2 DEF Proceeding, Returns, Runs, Keeps
<1>3. CASE Asks(sch, sch', o, c, sig) \/ Reopens(sch, sch', o, c, "awaiting_approval")
             \/ Reopens(sch, sch', o, c, "error")
  BY <1>3 DEF Asks, Reopens, Live, Keeps
<1>4. CASE Fails(sch, sch', o)
  <2>1. PICK v \in Scheduler, new \in {"error", "cancelled"} :
          Sets(sch, v, c, new) /\ Settles(v, sch', o, sig)
    BY <1>4 DEF Fails, Works
  <2>2. Placed(v, Taken)
    BY <1>1, <2>1, setsPlaced DEF Terminal
  <2>3. Keeps(v, sch')
    BY <1>1, <2>1, <2>2, settlesKeeps
  <2>4. Keeps(sch, v)
    BY <2>1 DEF Sets, Live, Keeps
  <2> QED BY <2>3, <2>4 DEF Keeps
<1>5. CASE Now(o, "executing") /\ Finished(sch, sch', o)
  <2>1. PICK v \in Scheduler, new \in Terminal : Marks(sch, v, c, new) /\ Settles(v, sch', o, sig)
    BY <1>5 DEF Finished, Works
  <2>2. sch.active = c => sch.status[c] \notin Terminal
    BY <1>5, SchedulerAssumption, RunningOpen DEF Works
  <2>3. Keeps(sch, v)
    BY <2>1, <2>2 DEF Marks, Keeps
  <2>4. Placed(v, Taken)
    BY <1>1, <2>1, marksPlaced
  <2>5. Keeps(v, sch')
    BY <1>1, <2>1, <2>4, settlesKeeps
  <2> QED BY <2>3, <2>5 DEF Keeps
<1>6. CASE Handles(sch, sch', o, c, sch.chain[o].outcome, sig, TRUE)
  <2>1. PICK outcome : outcome = sch.chain[o].outcome
    OBVIOUS
  <2> QED BY <1>1, <1>6, <2>1, handlesKeeps
<1> QED BY <1>2, <1>3, <1>4, <1>5, <1>6 DEF Works

LEMMA NextKeeps ==
  ASSUME OwnInv, [Next]_vars, ~Ide \/ "rebuild" \notin MayThrow
  PROVE  Keeps(sch, sch')
<1>1. sch \in Scheduler /\ sch' \in Scheduler /\ Placed(sch, Taken) /\ SlotOpen(sch) /\ TypeOK'
  BY OwnFacts, OwnNext DEF OwnInv, QueueInv, PlaceInv, TypeOK
<1>2. CASE sch' = sch
  BY <1>2 DEF Keeps
<1>3. ASSUME NEW r \in Requests, Queues(r) PROVE Keeps(sch, sch')
  <2>1. sch'.status = sch.status
    BY <1>1, <1>3 DEF Queues, Scheduler
  <2> QED BY <2>1 DEF Keeps
<1>4. ASSUME NEW r \in Requests, Scheduling(r) PROVE Keeps(sch, sch')
  BY <1>1, <1>4, beginsKeeps DEF Scheduling
<1>5. ASSUME NEW sig \in Signals, Cuts(sig) PROVE Keeps(sch, sch')
  BY <1>5 DEF Cuts, Aborts, Keeps
<1>6. ASSUME NEW sig \in Signals, NEW o \in Owner, NEW u \in Scheduler, Escapes(sig, o, u)
      PROVE  Keeps(sch, sch')
  <2>1. Keeps(u, sch')
    BY <1>1, <1>6, clearsKeeps DEF Escapes
  <2> QED BY <1>6, <2>1 DEF Escapes, Aborts, Keeps
<1>7. ASSUME NEW o \in Owner, NEW c \in Calls, NEW sig \in Signals, NEW outcome \in Outcomes,
             Responds(o, c, sig, outcome)
      PROVE  Keeps(sch, sch')
  <2>1. CASE Answers(sch, sch', o, Waiting("confirming", c, sig, outcome))
    BY <2>1 DEF Answers, Live, Keeps
  <2>2. CASE Handles(sch, sch', o, c, outcome, sig, FALSE)
    BY <1>1, <2>2, handlesKeeps
  <2> QED BY <1>7, <2>1, <2>2 DEF Responds
<1>8. ASSUME NEW o \in Owner, Ends(o) \/ NoBatch(o) PROVE Keeps(sch, sch')
  <2>1. sch'.status = sch.status
    BY <1>1, <1>8 DEF Ends, NoBatch, Returns, Resets, Scheduler
  <2> QED BY <2>1 DEF Keeps
<1>9. ASSUME NEW o \in Owner, NEW u \in Scheduler, NEW r \in Requests, NextBatch(o, u, r)
      PROVE  Keeps(sch, sch')
  <2>1. u.status = sch.status
    BY <1>9 DEF NextBatch, Resets
  <2>2. CASE Refused(u, sch')
    <3>1. sch'.status = u.status
      BY <2>2 DEF Refused, Scheduler
    <3> QED BY <2>1, <3>1 DEF Keeps
  <2>3. CASE Begins(u, sch', r)
    <3>1. Keeps(u, sch')
      BY <1>1, <2>3, beginsKeeps
    <3> QED BY <2>1, <3>1 DEF Keeps
  <2> QED BY <1>9, <2>2, <2>3 DEF NextBatch
<1> QED
  BY <1>1, <1>2, <1>3, <1>4, <1>5, <1>6, <1>7, <1>8, <1>9, WorksKeeps, NextKinds
  DEF Begun, Stopped, Responded, Continued

(* No late answer, result or modification overwrites the result of a call, *)
(* unless edits are shown in the IDE and an invocation may fail to be      *)
(* rebuilt: ToolExecutor's result is then written over the error           *)
(* (coreToolScheduler.ts, attemptExecutionOfScheduledCalls).               *)
THEOREM ResultsStay ==
  Spec /\ (~Ide \/ "rebuild" \notin MayThrow) => TerminalStays
<1> SUFFICES ASSUME ~Ide \/ "rebuild" \notin MayThrow PROVE Spec => TerminalStays
  OBVIOUS
<1>1. Init => OwnInv
  BY OwnInit
<1>2. OwnInv /\ [Next]_vars => OwnInv'
  BY OwnNext
<1>3. OwnInv /\ [Next]_vars
        => [\A c \in Calls : sch.status[c] \in Terminal => sch'.status[c] = sch.status[c]]_vars
  BY NextKeeps DEF Keeps
<1> QED BY <1>1, <1>2, <1>3, PTL DEF Spec, TerminalStays

(* The chains that may start the tool in the slot.                         *)
Unaborted(s) ==
  \A p \in Owner : Holds(s, p) /\ s.chain[p].at \in {"validating", "editing", "inlining"}
    => s.chain[p].signal \notin s.aborted

(* A step to t that starts no tool for an aborted signal.                  *)
Clean(s, t) ==
  /\ Unaborted(t)
  /\ \A p \in Owner : t.chain[p].at = "executing" /\ s.chain[p].at # "executing"
       => t.chain[p].signal \notin t.aborted

LEMMA sameClean ==
  ASSUME NEW s, NEW t, NEW o \in Owner, t.active = s.active, t.aborted = s.aborted,
         \A p \in Owner \ {o} : t.chain[p] = s.chain[p],
         t.chain[o].at \in {"validating", "editing", "inlining", "executing"}
           => t.chain[o].signal \notin s.aborted,
         Unaborted(s)
  PROVE  Clean(s, t)
<1>1. ASSUME NEW p \in Owner, Holds(t, p), t.chain[p].at \in {"validating", "editing", "inlining"}
      PROVE  t.chain[p].signal \notin t.aborted
  <2>1. CASE p = o
    BY <1>1, <2>1
  <2>2. CASE p # o
    BY <1>1, <2>2 DEF Unaborted, Holds
  <2> QED BY <2>1, <2>2
<1> QED BY <1>1 DEF Clean, Unaborted

LEMMA returnClean ==
  ASSUME NEW s \in Scheduler, NEW t, NEW o \in Owner, Returns(s, t, o), Unaborted(s)
  PROVE  Clean(s, t)
<1>1. \A p \in Owner : t.chain[p] = IF p = o THEN Returned(o) ELSE s.chain[p]
  BY DEF Returns, Scheduler
<1>2. Returned(o).at \in {"idle", "unwinding"}
  BY DEF Returned, Idle, Waiting
<1>3. t.active = s.active /\ t.aborted = s.aborted
  BY DEF Returns, SameRest
<1> QED BY <1>1, <1>2, <1>3, sameClean

LEMMA advanceClean ==
  ASSUME NEW s \in Scheduler, NEW t \in Scheduler, NEW o \in Owner, NEW sig,
         s.active = None, Advances(s, t, o, sig), NEW T, Placed(s, T)
  PROVE  Clean(s, t) /\ (sig \in s.aborted => t.active = None)
<1>1. CASE Finishes(s, t, o, sig) \/ Rests(s, t, o, sig)
  <2>1. t.active = None
    BY <1>1 DEF Finishes, Rests
  <2>2. \A p \in Owner : \/ t.chain[p] = s.chain[p]
                         \/ t.chain[p] = Waiting("finalizing", None, sig, None)
                         \/ t.chain[p] = Returned(p)
    BY <1>1 DEF Finishes, Rests, Scheduler
  <2>3. \A p \in Owner : t.chain[p].at = "executing" => s.chain[p].at = "executing"
    BY <2>2 DEF Returned, Idle, Waiting
  <2> QED BY <2>1, <2>3 DEF Clean, Unaborted, Holds
<1>2. CASE Takes(s, t, o, sig)
  <2>1. t.active \in Queued(s) /\ sig \notin s.aborted
    <3>1. t.active \in Queued(s)
      BY <1>2, TakesSets DEF Placed
    <3> QED BY <1>2, <3>1 DEF Takes
  <2>2. \A p \in Owner : t.chain[p] = IF p = o THEN Waiting("validating", t.active, sig, None)
                                      ELSE s.chain[p]
    BY <1>2 DEF Takes, Scheduler
  <2>3. \A p \in Owner : Holds(t, p) => p = o
    BY <2>1, <2>2 DEF Holds, Placed
  <2>4. t.aborted = s.aborted
    BY DEF Advances, SameRest
  <2> QED BY <2>1, <2>2, <2>3, <2>4 DEF Clean, Unaborted, Waiting
<1> QED BY <1>1, <1>2 DEF Advances

LEMMA settlesClean ==
  ASSUME NEW s \in Scheduler, NEW t \in Scheduler, NEW o \in Owner, NEW sig,
         Settles(s, t, o, sig), NEW T, Placed(s, T), Unaborted(s)
  PROVE  Clean(s, t)
<1>1. CASE Returns(s, t, o)
  BY <1>1, returnClean
<1>2. ASSUME NEW u \in Scheduler, Emptied(s, u), Advances(u, t, o, sig) PROVE Clean(s, t)
  <2>1. Clean(u, t)
    BY <1>2, emptiedPlaced, advanceClean DEF Emptied
  <2> QED BY <1>2, <2>1 DEF Emptied, Clean
<1> QED BY <1>1, <1>2 DEF Settles

LEMMA clearsClean ==
  ASSUME NEW s \in Scheduler, NEW t \in Scheduler, NEW o \in Owner, NEW sig,
         Clears(s, t, o, sig), NEW T, Placed(s, T), SlotOpen(s)
  PROVE  /\ Unaborted(s) => Clean(s, t)
         /\ sig \in s.aborted /\ (s.isCancelling => s.active = None) => Clean(s, t)
<1>1. CASE s.isCancelling /\ Returns(s, t, o)
  <2>1. s.active = None => Unaborted(s)
    BY DEF Unaborted, Holds
  <2>2. Unaborted(s) => Clean(s, t)
    BY <1>1, returnClean
  <2> QED BY <1>1, <2>1, <2>2
<1>2. ASSUME NEW u \in Scheduler, Dropped(s, u), Advances(u, t, o, sig) PROVE Clean(s, t)
  <2>1. Clean(u, t)
    BY <1>2, droppedPlaced, advanceClean DEF Dropped
  <2> QED BY <1>2, <2>1 DEF Dropped, Clean
<1> QED BY <1>1, <1>2 DEF Clears

LEMMA runsClean ==
  ASSUME NEW s \in Scheduler, NEW t, NEW o \in Owner, NEW c, NEW sig, Runs(s, t, o, c, sig),
         Unaborted(s), sig \notin s.aborted
  PROVE  Clean(s, t)
<1>1. /\ t.active = s.active /\ t.aborted = s.aborted
      /\ \A p \in Owner : t.chain[p] = IF p = o THEN Waiting("executing", c, sig, None)
                                       ELSE s.chain[p]
  BY DEF Runs, SameRest, Scheduler
<1> QED BY <1>1, sameClean DEF Waiting

LEMMA handlesClean ==
  ASSUME NEW s \in Scheduler, NEW t \in Scheduler, NEW o \in Owner, NEW c, NEW outcome, NEW sig,
         NEW found, Handles(s, t, o, c, outcome, sig, found), NEW T, Placed(s, T), SlotOpen(s),
         Unaborted(s)
  PROVE  Clean(s, t)
<1>1. CASE Clears(s, t, o, sig)
  BY <1>1, clearsClean
<1>2. CASE Returns(s, t, o)
  BY <1>2, returnClean
<1>3. CASE sig \notin s.aborted /\ Runs(s, t, o, c, sig)
  BY <1>3, runsClean
<1>4. ASSUME NEW w, Answers(s, t, o, w), w.signal \notin s.aborted PROVE Clean(s, t)
  <2>1. /\ t.active = s.active /\ t.aborted = s.aborted
        /\ \A p \in Owner : t.chain[p] = IF p = o THEN w ELSE s.chain[p]
    BY <1>4 DEF Answers, Same, Scheduler
  <2> QED BY <1>4, <2>1, sameClean
<1>5. /\ Waiting("editing", c, sig, None).signal = sig
      /\ Waiting("inlining", c, sig, None).signal = sig
  BY DEF Waiting
<1> QED BY <1>1, <1>2, <1>3, <1>4, <1>5 DEF Handles, Proceeding

LEMMA beginsClean ==
  ASSUME NEW s \in Scheduler, NEW t \in Scheduler, NEW r \in Requests, Begins(s, t, r),
         Unaborted(s)
  PROVE  Clean(s, t)
<1>1. PICK o \in Owner : o = ScheduleChain(r)
  BY DEF Begins
<1>2. PICK bad \in SUBSET CallSet(r), u \in Scheduler :
        /\ Enqueued(s, u, r, bad)
        /\ IF s.active # None THEN Returns(u, t, o) ELSE Advances(u, t, o, SignalOf[r])
  BY <1>1 DEF Begins, Enters
<1>3. u.active = s.active /\ u.chain = s.chain /\ u.aborted = s.aborted
  BY <1>2 DEF Enqueued
<1>4. CASE s.active # None
  <2>1. Unaborted(u)
    BY <1>3 DEF Unaborted, Holds
  <2>2. Clean(u, t)
    BY <1>2, <1>4, <2>1, returnClean
  <2> QED BY <1>3, <2>2 DEF Clean
<1>5. CASE s.active = None
  <2>1. Placed(u, Taken \cup CallSet(r))
    BY <1>2, enqueuedPlaced DEF Begins
  <2>2. Clean(u, t)
    BY <1>2, <1>3, <1>5, <2>1, advanceClean
  <2> QED BY <1>3, <2>2 DEF Clean
<1> QED BY <1>4, <1>5

LEMMA WorksClean ==
  ASSUME OwnInv, TypeOK', Unaborted(sch),
         NEW o \in Owner, NEW c \in Calls, NEW sig \in Signals, Works(o, c, sig)
  PROVE  Clean(sch, sch')
<1>1. sch \in Scheduler /\ sch' \in Scheduler /\ Placed(sch, Taken) /\ SlotOpen(sch)
  BY OwnFacts DEF TypeOK
<1>2. CASE Returns(sch, sch', o)
  BY <1>1, <1>2, returnClean
<1>3. CASE /\ sch.chain[o].at \in {"validating", "editing", "inlining"}
           /\ Runs(sch, sch', o, c, sig)
  <2>1. Holds(sch, o) /\ sch.chain[o].signal = sig
    BY <1>3, SchedulerAssumption DEF Works, Runs, Holds
  <2>2. sig \notin sch.aborted
    BY <1>3, <2>1 DEF Unaborted
  <2> QED BY <1>1, <1>3, <2>2, runsClean
<1>4. CASE Asks(sch, sch', o, c, sig) \/ Reopens(sch, sch', o, c, "awaiting_approval")
             \/ Reopens(sch, sch', o, c, "error")
  <2>1. /\ sch'.active = sch.active /\ sch'.aborted = sch.aborted
        /\ \A p \in Owner : sch'.chain[p] = IF p = o THEN Returned(o) ELSE sch.chain[p]
    BY <1>1, <1>4 DEF Asks, Reopens, Same, Scheduler
  <2>2. Returned(o).at \in {"idle", "unwinding"}
    BY DEF Returned, Idle, Waiting
  <2> QED BY <2>1, <2>2, sameClean
<1>5. ASSUME NEW v \in Scheduler, Placed(v, Taken), Settles(v, sch', o, sig), v.active = sch.active,
             v.chain = sch.chain, v.aborted = sch.aborted
      PROVE  Clean(sch, sch')
  <2>1. Unaborted(v)
    BY <1>5 DEF Unaborted, Holds
  <2>2. Clean(v, sch')
    BY <1>1, <1>5, <2>1, settlesClean
  <2> QED BY <1>5, <2>2 DEF Clean
<1>6. CASE Fails(sch, sch', o)
  <2>1. PICK v \in Scheduler, new \in {"error", "cancelled"} :
          Sets(sch, v, c, new) /\ Settles(v, sch', o, sig)
    BY <1>6 DEF Fails, Works
  <2>2. Placed(v, Taken)
    BY <1>1, <2>1, setsPlaced DEF Terminal
  <2> QED BY <1>5, <2>1, <2>2 DEF Sets, SameRest
<1>7. CASE Finished(sch, sch', o)
  <2>1. PICK v \in Scheduler, new \in Terminal : Marks(sch, v, c, new) /\ Settles(v, sch', o, sig)
    BY <1>7 DEF Finished, Works
  <2>2. Placed(v, Taken)
    BY <1>1, <2>1, marksPlaced
  <2> QED BY <1>5, <2>1, <2>2 DEF Marks, Same
<1>8. CASE Handles(sch, sch', o, c, sch.chain[o].outcome, sig, TRUE)
  <2>1. PICK outcome : outcome = sch.chain[o].outcome
    OBVIOUS
  <2> QED BY <1>1, <1>8, <2>1, handlesClean
<1> QED BY <1>2, <1>3, <1>4, <1>6, <1>7, <1>8 DEF Works, Now, Proceeding

LEMMA NextClean ==
  ASSUME OwnInv, [Next]_vars, Unaborted(sch), Abortable = {}
  PROVE  Clean(sch, sch')
<1>1. sch \in Scheduler /\ sch' \in Scheduler /\ Placed(sch, Taken) /\ SlotOpen(sch) /\ TypeOK'
        /\ QueueInv
  BY OwnFacts, OwnNext DEF OwnInv, QueueInv, PlaceInv, TypeOK
<1>2. ASSUME sch'.active = sch.active, sch'.chain = sch.chain, sch'.aborted = sch.aborted
      PROVE  Clean(sch, sch')
  BY <1>2 DEF Clean, Unaborted, Holds
<1>3. ASSUME NEW r \in Requests, Queues(r) PROVE Clean(sch, sch')
  BY <1>1, <1>2, <1>3 DEF Queues, Scheduler
<1>4. ASSUME NEW r \in Requests, Scheduling(r) PROVE Clean(sch, sch')
  BY <1>1, <1>4, beginsClean DEF Scheduling
<1>5. ASSUME NEW sig \in Signals, Cuts(sig) PROVE Clean(sch, sch')
  BY <1>5 DEF Cuts
<1>6. ASSUME NEW sig \in Signals, NEW o \in Owner, NEW u \in Scheduler, Escapes(sig, o, u)
      PROVE  Clean(sch, sch')
  <2>1. /\ u.chain = sch.chain /\ u.active = sch.active /\ u.isCancelling = sch.isCancelling
        /\ sig \in u.aborted
    BY <1>6 DEF Escapes, Aborts
  <2>2. u.isCancelling => u.active = None
    BY <1>1, <2>1 DEF QueueInv
  <2>3. Clean(u, sch')
    BY <1>1, <1>6, <2>1, <2>2, clearsClean DEF Escapes
  <2> QED BY <2>1, <2>3 DEF Clean
<1>7. ASSUME NEW o \in Owner, NEW c \in Calls, NEW sig \in Signals, NEW outcome \in Outcomes,
             Responds(o, c, sig, outcome)
      PROVE  Clean(sch, sch')
  <2>1. CASE Answers(sch, sch', o, Waiting("confirming", c, sig, outcome))
    <3>1. /\ sch'.active = sch.active /\ sch'.aborted = sch.aborted
          /\ \A p \in Owner : sch'.chain[p] = IF p = o THEN Waiting("confirming", c, sig, outcome)
                                              ELSE sch.chain[p]
      BY <1>1, <2>1 DEF Answers, Same, Scheduler
    <3> QED BY <3>1, sameClean DEF Waiting
  <2>2. CASE Handles(sch, sch', o, c, outcome, sig, FALSE)
    BY <1>1, <2>2, handlesClean
  <2> QED BY <1>7, <2>1, <2>2 DEF Responds
<1>8. ASSUME NEW o \in Owner, NEW u \in Scheduler, u.active = sch.active, u.aborted = sch.aborted,
             \A p \in Owner \ {o} : u.chain[p] = sch.chain[p],
             u.chain[o].at \in {"idle", "unwinding"}
      PROVE  Clean(sch, u)
  BY <1>1, <1>8, sameClean
<1>9. ASSUME NEW o \in Owner, NEW u \in Scheduler, Resets(sch, u, o) PROVE Clean(sch, u)
  <2>1. /\ u.active = sch.active /\ u.aborted = sch.aborted
        /\ \A p \in Owner : u.chain[p] = IF p = o THEN Returned(o) ELSE sch.chain[p]
    BY <1>1, <1>9 DEF Resets, Scheduler
  <2> QED BY <1>8, <2>1 DEF Returned, Idle, Waiting
<1>10. ASSUME NEW o \in Owner, Ends(o) \/ NoBatch(o) PROVE Clean(sch, sch')
  <2>1. CASE Returns(sch, sch', o)
    BY <1>1, <2>1, returnClean
  <2>2. CASE sch' = [sch EXCEPT !.isScheduling = FALSE, !.chain[o] = Idle]
    <3>1. /\ sch'.active = sch.active /\ sch'.aborted = sch.aborted
          /\ \A p \in Owner : sch'.chain[p] = IF p = o THEN Idle ELSE sch.chain[p]
      BY <1>1, <2>2 DEF Scheduler
    <3> QED BY <1>1, <1>8, <3>1 DEF Idle, Waiting
  <2> QED BY <1>1, <1>9, <1>10, <2>1, <2>2 DEF Ends, NoBatch
<1>11. ASSUME NEW o \in Owner, NEW u \in Scheduler, NEW r \in Requests, NextBatch(o, u, r)
      PROVE  Clean(sch, sch')
  <2>1. /\ Clean(sch, u)
        /\ \A p \in Owner : u.chain[p].at = "executing" => sch.chain[p].at = "executing"
    <3>1. Resets(sch, u, o)
      BY <1>11 DEF NextBatch
    <3>2. \A p \in Owner : u.chain[p] = IF p = o THEN Returned(o) ELSE sch.chain[p]
      BY <1>1, <3>1 DEF Resets, Scheduler
    <3> QED BY <1>9, <3>1, <3>2 DEF Returned, Idle, Waiting
  <2>2. Clean(u, sch')
    <3>1. CASE Refused(u, sch')
      <4>1. sch'.active = u.active /\ sch'.chain = u.chain /\ sch'.aborted = u.aborted
        BY <3>1 DEF Refused, Scheduler
      <4> QED BY <2>1, <4>1 DEF Clean, Unaborted, Holds
    <3>2. CASE Begins(u, sch', r)
      BY <1>1, <2>1, <3>2, beginsClean DEF Clean
    <3> QED BY <1>11, <3>1, <3>2 DEF NextBatch
  <2> QED BY <2>1, <2>2 DEF Clean
<1> QED
  BY <1>1, <1>2, <1>3, <1>4, <1>5, <1>6, <1>7, <1>10, <1>11, WorksClean, NextKinds
  DEF Begun, Stopped, Responded, Continued

(* Where signals are aborted by Escape alone, which cancels the active     *)
(* call in the same statement, a policy check, a confirmation or an editor *)
(* that returns late does not run its tool (CoreToolScheduler.cancelAll).  *)
THEOREM AbortedToolsStayDown ==
  Spec /\ Abortable = {} => NothingStartsAfterAbort
<1> SUFFICES ASSUME Abortable = {} PROVE Spec => NothingStartsAfterAbort
  OBVIOUS
<1>1. Init => OwnInv /\ Unaborted(sch)
  BY OwnInit DEF Init, Unaborted, Holds
<1>2. OwnInv /\ Unaborted(sch) /\ [Next]_vars => (OwnInv /\ Unaborted(sch))'
  BY OwnNext, NextClean DEF Clean
<1>3. OwnInv /\ Unaborted(sch) /\ [Next]_vars
        => [\A o \in Owner : sch'.chain[o].at = "executing" /\ ~Now(o, "executing")
              => sch'.chain[o].signal \notin sch'.aborted]_vars
  BY NextClean DEF Clean, Now
<1> QED BY <1>1, <1>2, <1>3, PTL DEF Spec, NothingStartsAfterAbort

(* The terminal client: edits are not shown in the IDE, the client waits   *)
(* for each batch, and the tool's own onConfirm returns at once.           *)
Calm == ~Ide /\ ~Overlap /\ ~SlowConfirm

(* Chain p goes on for an aborted turn.                                    *)
Stale(s, p) ==
  s.chain[p].call # None => s.chain[p].signal \in s.aborted /\ s.chain[p].at # "confirming"

(* The call in the slot is of turn n, and so is the chain that waits for   *)
(* it; every other chain is stale.                                         *)
OfTurn(s, n) ==
  /\ \A p \in Owner : IF Holds(s, p) THEN s.chain[p].signal = n ELSE Stale(s, p)
  /\ s.active # None /\ s.status[s.active] = "awaiting_approval" => s.prompted[s.active] = n

OthersStale(s, o) == \A p \in Owner \ {o} : Stale(s, p)

LEMMA advanceOfTurn ==
  ASSUME NEW s \in Scheduler, NEW t \in Scheduler, NEW o \in Owner, NEW sig, NEW n,
         s.active = None, Advances(s, t, o, sig), NEW T, Placed(s, T),
         OthersStale(s, o), sig = n \/ sig \in s.aborted
  PROVE  OfTurn(t, n)
<1>0. t.aborted = s.aborted
  BY DEF Advances, SameRest
<1>1. CASE Finishes(s, t, o, sig) \/ Rests(s, t, o, sig)
  <2>1. t.active = None
    BY <1>1 DEF Finishes, Rests
  <2>2. \A p \in Owner : \/ p # o /\ t.chain[p] = s.chain[p]
                         \/ t.chain[p] = Waiting("finalizing", None, sig, None)
                         \/ t.chain[p] = Returned(p)
    BY <1>1 DEF Finishes, Rests, Scheduler
  <2>3. \A p \in Owner : Stale(t, p)
    BY <1>0, <2>2 DEF OthersStale, Stale, Returned, Idle, Waiting
  <2> QED BY <2>1, <2>3 DEF OfTurn, Holds
<1>2. CASE Takes(s, t, o, sig)
  <2>1. t.active \in Queued(s)
    BY <1>2, TakesSets DEF Placed
  <2>2. /\ t.active \in Calls /\ t.status = s.status /\ sig \notin s.aborted
        /\ \A p \in Owner : t.chain[p] = IF p = o THEN Waiting("validating", t.active, sig, None)
                                         ELSE s.chain[p]
    BY <1>2 DEF Takes, Scheduler
  <2>3. t.status[t.active] # "awaiting_approval"
    BY <2>1, <2>2 DEF Placed
  <2>4. \A p \in Owner : IF Holds(t, p) THEN t.chain[p].signal = n ELSE Stale(t, p)
    <3>1. Holds(t, o) /\ t.chain[o].signal = n
      BY <2>2, SchedulerAssumption DEF Holds, Waiting
    <3>2. \A p \in Owner \ {o} : ~Holds(t, p) /\ Stale(t, p)
      BY <1>0, <2>1, <2>2 DEF Holds, Placed, OthersStale, Stale
    <3> QED BY <3>1, <3>2
  <2> QED BY <2>3, <2>4 DEF OfTurn
<1> QED BY <1>1, <1>2 DEF Advances

(* Chain o goes on without a call, or with the same call.                  *)
LEMMA sameOfTurn ==
  ASSUME NEW s, NEW t, NEW o \in Owner, NEW n,
         t.active = s.active, t.aborted = s.aborted, OfTurn(s, n),
         \A p \in Owner \ {o} : t.chain[p] = s.chain[p],
         \/ t.chain[o].call = None
         \/ t.chain[o].call = s.active /\ t.chain[o].signal = n,
         \/ s.active = None
         \/ t.status[s.active] # "awaiting_approval"
         \/ t.status[s.active] = s.status[s.active] /\ t.prompted[s.active] = s.prompted[s.active]
         \/ t.prompted[s.active] = n
  PROVE  OfTurn(t, n)
<1>1. \A p \in Owner \ {o} : IF Holds(t, p) THEN t.chain[p].signal = n ELSE Stale(t, p)
  BY DEF OfTurn, Holds, Stale
<1>2. IF Holds(t, o) THEN t.chain[o].signal = n ELSE Stale(t, o)
  BY DEF Holds, Stale
<1>3. t.active # None /\ t.status[t.active] = "awaiting_approval" => t.prompted[t.active] = n
  BY DEF OfTurn
<1>4. \A p \in Owner : IF Holds(t, p) THEN t.chain[p].signal = n ELSE Stale(t, p)
  BY <1>1, <1>2
<1> QED BY <1>3, <1>4 DEF OfTurn

LEMMA returnOfTurn ==
  ASSUME NEW s \in Scheduler, NEW t, NEW o \in Owner, Returns(s, t, o), NEW n, OfTurn(s, n)
  PROVE  OfTurn(t, n)
<1>1. \A p \in Owner : t.chain[p] = IF p = o THEN Returned(o) ELSE s.chain[p]
  BY DEF Returns, Scheduler
<1>2. Returned(o).call = None
  BY DEF Returned, Idle, Waiting
<1>3. t.active = s.active /\ t.aborted = s.aborted /\ t.status = s.status /\ t.prompted = s.prompted
  BY DEF Returns, SameRest
<1> QED BY <1>1, <1>2, <1>3, sameOfTurn

LEMMA settlesOfTurn ==
  ASSUME NEW s \in Scheduler, NEW t \in Scheduler, NEW o \in Owner, NEW sig, NEW n,
         Settles(s, t, o, sig), NEW T, Placed(s, T), OfTurn(s, n),
         s.active = None \/ s.status[s.active] \in Terminal
           => OthersStale(s, o) /\ (sig = n \/ sig \in s.aborted)
  PROVE  OfTurn(t, n)
<1>1. CASE Returns(s, t, o)
  BY <1>1, returnOfTurn
<1>2. ASSUME NEW u \in Scheduler, Emptied(s, u), Advances(u, t, o, sig) PROVE OfTurn(t, n)
  <2>1. s.active = None \/ s.status[s.active] \in Terminal
    BY <1>2 DEF Emptied
  <2>2. Placed(u, T)
    BY <1>2, emptiedPlaced
  <2>3. u.active = None /\ u.chain = s.chain /\ u.aborted = s.aborted
    BY <1>2 DEF Emptied, SameRest
  <2>4. OthersStale(u, o)
    BY <2>1, <2>3 DEF OthersStale, Stale
  <2> QED BY <1>2, <2>1, <2>2, <2>3, <2>4, advanceOfTurn
<1> QED BY <1>1, <1>2 DEF Settles

LEMMA clearsOfTurn ==
  ASSUME NEW s \in Scheduler, NEW t \in Scheduler, NEW o \in Owner, NEW sig, NEW n,
         Clears(s, t, o, sig), NEW T, Placed(s, T), SlotOpen(s),
         s.isCancelling => OfTurn(s, n),
         OthersStale(s, o), sig = n \/ sig \in s.aborted
  PROVE  OfTurn(t, n)
<1>1. CASE s.isCancelling /\ Returns(s, t, o)
  BY <1>1, returnOfTurn
<1>2. ASSUME NEW u \in Scheduler, Dropped(s, u), Advances(u, t, o, sig) PROVE OfTurn(t, n)
  <2>1. Placed(u, T)
    BY <1>2, droppedPlaced
  <2>2. u.active = None /\ u.chain = s.chain /\ u.aborted = s.aborted
    BY <1>2 DEF Dropped, SameRest
  <2>3. OthersStale(u, o)
    BY <2>2 DEF OthersStale, Stale
  <2> QED BY <1>2, <2>1, <2>2, <2>3, advanceOfTurn
<1> QED BY <1>1, <1>2 DEF Clears

LEMMA beginsOfTurn ==
  ASSUME NEW s \in Scheduler, NEW t \in Scheduler, NEW r \in Requests, NEW n, Begins(s, t, r),
         OfTurn(s, n), s.active = None, SignalOf[r] = n
  PROVE  OfTurn(t, n)
<1>1. PICK o \in Owner : o = ScheduleChain(r)
  BY DEF Begins
<1>2. PICK bad \in SUBSET CallSet(r), u \in Scheduler :
        Enqueued(s, u, r, bad) /\ Advances(u, t, o, n)
  BY <1>1 DEF Begins, Enters
<1>3. u.active = None /\ u.chain = s.chain /\ u.aborted = s.aborted
  BY <1>2 DEF Enqueued
<1>4. OthersStale(u, o)
  BY <1>3 DEF OfTurn, Holds, OthersStale, Stale
<1>5. Placed(u, Taken \cup CallSet(r))
  BY <1>2, enqueuedPlaced DEF Begins
<1> QED BY <1>2, <1>3, <1>4, <1>5, advanceOfTurn

LEMMA proceedingOfTurn ==
  ASSUME NEW s \in Scheduler, NEW t, NEW o \in Owner, NEW c, NEW sig, NEW n,
         Proceeding(s, t, o, c, sig), OfTurn(s, n), c = s.active => sig = n
  PROVE  OfTurn(t, n)
<1>1. CASE Returns(s, t, o)
  BY <1>1, returnOfTurn
<1>2. CASE Runs(s, t, o, c, sig)
  <2>1. /\ t.active = s.active /\ t.aborted = s.aborted /\ c = s.active
        /\ \A p \in Owner : t.chain[p] = IF p = o THEN Waiting("executing", c, sig, None)
                                         ELSE s.chain[p]
    BY <1>2 DEF Runs, SameRest, Scheduler
  <2>2. s.active = None \/ t.status[s.active] = "executing"
    BY <1>2 DEF Runs, Scheduler
  <2> QED BY <2>1, <2>2, sameOfTurn DEF Waiting
<1> QED BY <1>1, <1>2 DEF Proceeding

(* When a chain goes on and the slot is empty, holds its call or a call    *)
(* that is finished, the other chains are stale.                           *)
LEMMA HolderOrStale ==
  ASSUME SlotOwned(sch), NEW n, OfTurn(sch, n), NEW o \in Owner, NEW c \in Calls,
         c = sch.chain[o].call,
         \/ sch.active = None \/ c = sch.active
         \/ sch.status[sch.active] \in Terminal
  PROVE  /\ OthersStale(sch, o)
         /\ sch.chain[o].signal = n \/ sch.chain[o].signal \in sch.aborted
<1>1. c # None
  BY SchedulerAssumption
<1>2. \A p \in Owner \ {o} : ~Holds(sch, p)
  <2>1. CASE sch.active = None
    BY <2>1 DEF Holds
  <2>2. CASE c = sch.active
    <3>1. Holds(sch, o)
      BY <1>1, <2>2 DEF Holds
    <3> QED BY <3>1 DEF SlotOwned
  <2>3. CASE sch.status[sch.active] \in Terminal
    BY <2>3 DEF SlotOwned, Fits, Terminal
  <2> QED BY <2>1, <2>2, <2>3
<1>3. OthersStale(sch, o)
  BY <1>2 DEF OfTurn, OthersStale
<1>4. sch.chain[o].signal = n \/ sch.chain[o].signal \in sch.aborted
  BY <1>1 DEF OfTurn, Stale
<1> QED BY <1>3, <1>4

LEMMA WorksOfTurn ==
  ASSUME OwnInv, TypeOK', Calm, OfTurn(sch, turn),
         NEW o \in Owner, NEW c \in Calls, NEW sig \in Signals, Works(o, c, sig)
  PROVE  OfTurn(sch', turn)
<1>1. sch \in Scheduler /\ sch' \in Scheduler /\ Placed(sch, Taken) /\ SlotOpen(sch)
        /\ SlotOwned(sch)
  BY OwnFacts DEF TypeOK, OwnInv, Calm
<1>2. sch.chain[o].call = c /\ sch.chain[o].signal = sig /\ c # None
  BY SchedulerAssumption DEF Works
<1>3. c = sch.active => sig = turn /\ Holds(sch, o)
  BY <1>2 DEF OfTurn, Holds
<1>4. CASE Returns(sch, sch', o)
  BY <1>1, <1>4, returnOfTurn
<1>5. CASE Proceeding(sch, sch', o, c, sig)
  BY <1>1, <1>3, <1>5, proceedingOfTurn
<1>6. CASE Asks(sch, sch', o, c, sig)
  <2>1. /\ sch'.active = sch.active /\ sch'.aborted = sch.aborted
        /\ \A p \in Owner : sch'.chain[p] = IF p = o THEN Returned(o) ELSE sch.chain[p]
    BY <1>1, <1>6 DEF Asks, Same, Scheduler
  <2>2. Returned(o).call = None
    BY DEF Returned, Idle, Waiting
  <2>3. \/ sch.active = None
        \/ /\ sch'.status[sch.active] = sch.status[sch.active]
           /\ sch'.prompted[sch.active] = sch.prompted[sch.active]
        \/ sch'.prompted[sch.active] = turn
    <3>1. CASE Live(sch, c)
      BY <1>1, <1>3, <1>6, <3>1 DEF Asks, Live, Scheduler
    <3>2. CASE ~Live(sch, c)
      BY <1>1, <1>6, <3>2, OwnFacts DEF Asks, Calm
    <3> QED BY <3>1, <3>2
  <2> QED BY <2>1, <2>2, <2>3, sameOfTurn
<1>7. ASSUME NEW new \in {"awaiting_approval", "error"}, Reopens(sch, sch', o, c, new),
             sch.chain[o].at \in {"editing", "inlining"}
      PROVE  OfTurn(sch', turn)
  <2>1. /\ sch'.active = sch.active /\ sch'.aborted = sch.aborted
        /\ sch'.prompted = sch.prompted
        /\ \A p \in Owner : sch'.chain[p] = IF p = o THEN Returned(o) ELSE sch.chain[p]
    BY <1>1, <1>7 DEF Reopens, Same, Scheduler
  <2>2. Returned(o).call = None
    BY DEF Returned, Idle, Waiting
  <2>3. c = sch.active => sch.status[c] = "awaiting_approval"
    BY <1>1, <1>3, <1>7 DEF SlotOwned, Fits
  <2>4. \/ sch.active = None
        \/ sch'.status[sch.active] # "awaiting_approval"
        \/ sch'.status[sch.active] = sch.status[sch.active]
    BY <1>7, <2>3, OwnFacts DEF Reopens
  <2> QED BY <2>1, <2>2, <2>4, sameOfTurn
<1>8. ASSUME NEW v \in Scheduler, Placed(v, Taken), Settles(v, sch', o, sig),
             v.active = sch.active, v.chain = sch.chain, v.aborted = sch.aborted,
             v.prompted = sch.prompted,
             \A d \in Calls : \/ v.status[d] = sch.status[d]
                              \/ d = c /\ d = sch.active /\ v.status[d] \in Terminal
      PROVE  OfTurn(sch', turn)
  <2>1. /\ \A p \in Owner : /\ Holds(v, p) <=> Holds(sch, p)
                            /\ Stale(v, p) <=> Stale(sch, p)
    BY <1>8 DEF Holds, Stale
  <2>2. sch.active # None => \/ v.status[sch.active] = sch.status[sch.active]
                             \/ v.status[sch.active] \in Terminal
    BY <1>8, OwnFacts
  <2>3. v.active # None /\ v.status[v.active] = "awaiting_approval"
          => v.prompted[v.active] = turn
    BY <1>8, <2>2 DEF OfTurn, Terminal
  <2>4. OfTurn(v, turn)
    BY <1>8, <2>1, <2>3 DEF OfTurn
  <2>5. ASSUME v.active = None \/ v.status[v.active] \in Terminal
        PROVE  OthersStale(v, o) /\ (sig = turn \/ sig \in v.aborted)
    <3>1. \/ sch.active = None \/ c = sch.active
          \/ sch.status[sch.active] \in Terminal
      BY <1>8, <2>5, OwnFacts
    <3>2. /\ OthersStale(sch, o)
          /\ sig = turn \/ sig \in sch.aborted
      BY <1>1, <1>2, <3>1, HolderOrStale
    <3> QED BY <1>8, <2>1, <3>2 DEF OthersStale
  <2> QED BY <1>1, <1>8, <2>4, <2>5, settlesOfTurn
<1>9. CASE Fails(sch, sch', o)
  <2>1. PICK v \in Scheduler, new \in {"error", "cancelled"} :
          Sets(sch, v, c, new) /\ Settles(v, sch', o, sig)
    BY <1>9 DEF Fails, Works
  <2>2. Placed(v, Taken)
    BY <1>1, <2>1, setsPlaced DEF Terminal
  <2>3. \A d \in Calls : \/ v.status[d] = sch.status[d]
                         \/ d = c /\ d = sch.active /\ v.status[d] \in Terminal
    BY <2>1 DEF Sets, Live, Terminal
  <2> QED BY <1>8, <2>1, <2>2, <2>3 DEF Sets, SameRest
<1>10. CASE Finished(sch, sch', o)
  <2>1. PICK v \in Scheduler, new \in Terminal : Marks(sch, v, c, new) /\ Settles(v, sch', o, sig)
    BY <1>10 DEF Finished, Works
  <2>2. Placed(v, Taken)
    BY <1>1, <2>1, marksPlaced
  <2>3. \A d \in Calls : \/ v.status[d] = sch.status[d]
                         \/ d = c /\ d = sch.active /\ v.status[d] \in Terminal
    BY <2>1 DEF Marks
  <2> QED BY <1>8, <2>1, <2>2, <2>3 DEF Marks, Same
<1>11. CASE Now(o, "confirming") /\ Handles(sch, sch', o, c, sch.chain[o].outcome, sig, TRUE)
  <2>1. PICK outcome : outcome = sch.chain[o].outcome
    OBVIOUS
  <2>2. c = sch.active /\ sig = turn /\ Holds(sch, o)
    BY <1>2, <1>3, <1>11 DEF OfTurn, Holds, Stale, Now
  <2>3. OthersStale(sch, o)
    BY <1>1, <1>2, <2>2, HolderOrStale
  <2>4. CASE Clears(sch, sch', o, sig)
    BY <1>1, <2>2, <2>3, <2>4, clearsOfTurn
  <2>5. ASSUME NEW w, Answers(sch, sch', o, w), w.call = c, w.signal = sig
        PROVE  OfTurn(sch', turn)
    <3>1. /\ sch'.active = sch.active /\ sch'.aborted = sch.aborted
          /\ sch'.prompted = sch.prompted
          /\ \A p \in Owner : sch'.chain[p] = IF p = o THEN w ELSE sch.chain[p]
      BY <1>1, <2>5 DEF Answers, Same, Scheduler
    <3>2. sch.status[c] = "awaiting_approval"
      BY <1>1, <1>11, <2>2 DEF SlotOwned, Fits, Now
    <3>3. sch'.status[c] = sch.status[c]
      BY <2>5, <3>2 DEF Answers
    <3> QED BY <2>2, <2>5, <3>1, <3>3, sameOfTurn
  <2>6. /\ Waiting("editing", c, sig, None).call = c
        /\ Waiting("inlining", c, sig, None).call = c
        /\ Waiting("editing", c, sig, None).signal = sig
        /\ Waiting("inlining", c, sig, None).signal = sig
    BY DEF Waiting
  <2> QED BY <1>4, <1>5, <1>11, <2>1, <2>4, <2>5, <2>6 DEF Handles
<1> QED BY <1>4, <1>5, <1>6, <1>7, <1>9, <1>10, <1>11 DEF Works

(* When no chain is at "confirming" and turn n is aborted, all are stale.  *)
LEMMA AllStale ==
  ASSUME NEW s \in Scheduler, NEW n \in s.aborted, OfTurn(s, n),
         \A p \in Owner : s.chain[p].at # "confirming"
  PROVE  \A p \in Owner : Stale(s, p)
BY DEF OfTurn, Stale

LEMMA NextOfTurn ==
  ASSUME OwnInv, [Next]_vars, Calm, OfTurn(sch, turn)
  PROVE  OfTurn(sch', turn')
<1>1. sch \in Scheduler /\ sch' \in Scheduler /\ Placed(sch, Taken) /\ SlotOpen(sch) /\ TypeOK'
        /\ QueueInv /\ PlaceInv /\ SlotOwned(sch) /\ Alone
  BY OwnFacts, OwnNext DEF OwnInv, QueueInv, PlaceInv, TypeOK, Calm
<1>2. Drained => \A p \in Owner : sch.chain[p].at # "confirming"
  BY DEF Drained, Calm
<1>3. CASE sch' = sch /\ (turn' = turn \/ Ready)
  <2>1. CASE Ready
    <3>1. sch.active = None
      BY <1>1, <2>1, ReadyEmpty DEF Calm
    <3> QED BY <1>3, <3>1 DEF OfTurn, Holds
  <2> QED BY <1>3, <2>1
<1>4. ASSUME NEW r \in Requests, Queues(r) PROVE OfTurn(sch', turn)
  <2>1. /\ sch'.active = sch.active /\ sch'.chain = sch.chain /\ sch'.aborted = sch.aborted
        /\ sch'.status = sch.status /\ sch'.prompted = sch.prompted
    BY <1>1, <1>4 DEF Queues, Scheduler
  <2> QED BY <2>1 DEF OfTurn, Holds, Stale
<1>5. ASSUME NEW r \in Requests, Scheduling(r) PROVE OfTurn(sch', turn)
  <2>1. sch.active = None
    BY <1>1, <1>5, ReadyEmpty DEF Calm, Scheduling
  <2> QED BY <1>1, <1>5, <2>1, beginsOfTurn DEF Scheduling
<1>6. ASSUME NEW sig \in Signals, NEW u \in Scheduler, Aborts(sch, u, sig) PROVE OfTurn(u, turn)
  BY <1>6 DEF Aborts, OfTurn, Holds, Stale
<1>7. ASSUME NEW sig \in Signals, NEW o \in Owner, NEW u \in Scheduler, Escapes(sig, o, u)
      PROVE  OfTurn(sch', turn)
  <2>1. /\ OfTurn(u, turn) /\ turn \in u.aborted /\ sig = turn
        /\ \A p \in Owner : u.chain[p].at # "confirming"
    BY <1>2, <1>6, <1>7 DEF Escapes, Aborts
  <2>2. OthersStale(u, o)
    BY <2>1, AllStale DEF OthersStale
  <2> QED BY <1>1, <1>7, <2>1, <2>2, clearsOfTurn DEF Escapes
<1>8. ASSUME NEW o \in Owner, NEW c \in Calls, NEW sig \in Signals, NEW outcome \in Outcomes,
             Responds(o, c, sig, outcome)
      PROVE  OfTurn(sch', turn)
  <2>1. CASE /\ sch.active = c /\ sch.status[c] = "awaiting_approval"
             /\ Answers(sch, sch', o, Waiting("confirming", c, sig, outcome))
    <3>1. sig = turn
      BY <1>8, <2>1, SchedulerAssumption DEF Responds, OfTurn
    <3>2. /\ sch'.active = sch.active /\ sch'.aborted = sch.aborted
          /\ sch'.prompted = sch.prompted /\ sch'.status = sch.status
          /\ \A p \in Owner : sch'.chain[p] = IF p = o THEN Waiting("confirming", c, sig, outcome)
                                              ELSE sch.chain[p]
      BY <1>1, <2>1 DEF Answers, Same, Scheduler, Waiting
    <3> QED BY <2>1, <3>1, <3>2, sameOfTurn DEF Waiting
  <2>2. CASE /\ Handles(sch, sch', o, c, outcome, sig, FALSE)
             /\ outcome = "Cancel" /\ sig = turn /\ turn \in sch.aborted
    <3>1. Clears(sch, sch', o, sig)
      BY <2>2 DEF Handles
    <3>2. OthersStale(sch, o)
      BY <1>1, <1>2, <1>8, <2>2, AllStale DEF OthersStale, Responds
    <3> QED BY <1>1, <2>2, <3>1, <3>2, clearsOfTurn
  <2> QED BY <1>8, <2>1, <2>2 DEF Responds, Calm
<1>9. ASSUME NEW o \in Owner, NEW u \in Scheduler, Resets(sch, u, o) PROVE OfTurn(u, turn)
  <2>1. /\ u.active = sch.active /\ u.aborted = sch.aborted
        /\ u.status = sch.status /\ u.prompted = sch.prompted
        /\ \A p \in Owner : u.chain[p] = IF p = o THEN Returned(o) ELSE sch.chain[p]
    BY <1>1, <1>9 DEF Resets, Scheduler
  <2>2. Returned(o).call = None
    BY DEF Returned, Idle, Waiting
  <2> QED BY <2>1, <2>2, sameOfTurn
<1>10. ASSUME NEW o \in Owner, Ends(o) \/ NoBatch(o) PROVE OfTurn(sch', turn)
  <2>1. CASE Returns(sch, sch', o)
    BY <1>1, <2>1, returnOfTurn
  <2>2. CASE sch' = [sch EXCEPT !.isScheduling = FALSE, !.chain[o] = Idle]
    <3>1. /\ sch'.active = sch.active /\ sch'.aborted = sch.aborted
          /\ sch'.status = sch.status /\ sch'.prompted = sch.prompted
          /\ \A p \in Owner : sch'.chain[p] = IF p = o THEN Idle ELSE sch.chain[p]
      BY <1>1, <2>2 DEF Scheduler
    <3> QED BY <3>1, sameOfTurn DEF Idle, Waiting
  <2> QED BY <1>1, <1>9, <1>10, <2>1, <2>2 DEF Ends, NoBatch
<1>11. ASSUME NEW o \in Owner, NEW u \in Scheduler, NEW r \in Requests, NextBatch(o, u, r)
      PROVE  OfTurn(sch', turn)
  <2>1. Resets(sch, u, o) /\ OfTurn(u, turn)
    BY <1>9, <1>11 DEF NextBatch
  <2>2. CASE Refused(u, sch')
    <3>1. /\ sch'.active = u.active /\ sch'.chain = u.chain /\ sch'.aborted = u.aborted
          /\ sch'.status = u.status /\ sch'.prompted = u.prompted
      BY <2>2 DEF Refused, Scheduler
    <3> QED BY <2>1, <3>1 DEF OfTurn, Holds, Stale
  <2>3. CASE Begins(u, sch', r)
    <3>1. u.active = None
      BY <1>1, <1>11, <2>1 DEF NextBatch, Alone, Resets
    <3>2. SignalOf[r] = turn
      <4>1. r \in Range(sch.requestQueue) /\ r \in Range(sent) /\ r \notin rejected
        BY <1>1, <1>11 DEF NextBatch, PlaceInv, RequestsKept
      <4>2. PICK c \in CallSet(r) : c \notin Taken
        BY <1>1, <2>3, TakenCalls DEF Begins, PlaceInv
      <4>3. ~Settled(r)
        BY <1>1, <4>1, <4>2, SettledHanded DEF Placed
      <4> QED BY <1>1, <4>1, <4>3 DEF Alone
    <3> QED BY <1>1, <2>1, <2>3, <3>1, <3>2, beginsOfTurn
  <2> QED BY <1>11, <2>2, <2>3 DEF NextBatch
<1>12. ASSUME Begun \/ Stopped \/ Responded \/ Continued PROVE OfTurn(sch', turn)
  BY <1>1, <1>4, <1>5, <1>6, <1>7, <1>8, <1>10, <1>11, <1>12, WorksOfTurn
  DEF Begun, Stopped, Responded, Continued, Cuts
<1> QED BY <1>3, <1>12, NextKinds

(* In the terminal client at most one tool runs that was not aborted,      *)
(* whatever the user answers and when (coreToolScheduler.ts).              *)
THEOREM ToolsRunOneAtATime == Spec /\ Calm => []OneToolAtATime
<1> SUFFICES ASSUME Calm PROVE Spec => []OneToolAtATime
  OBVIOUS
<1>1. Init => OwnInv /\ OfTurn(sch, turn)
  BY OwnInit DEF Init, OfTurn, Holds, Stale, Idle, Waiting
<1>2. OwnInv /\ OfTurn(sch, turn) /\ [Next]_vars => (OwnInv /\ OfTurn(sch, turn))'
  BY OwnNext, NextOfTurn
<1>3. OwnInv /\ OfTurn(sch, turn) => OneToolAtATime
  <2> SUFFICES ASSUME OwnInv, OfTurn(sch, turn) PROVE OneToolAtATime
    OBVIOUS
  <2>1. \A o \in RunningTools : Holds(sch, o)
    <3> SUFFICES ASSUME NEW o \in RunningTools PROVE Holds(sch, o)
      OBVIOUS
    <3>1. sch.chain[o].at = "executing" /\ sch.chain[o].signal \notin sch.aborted /\ o \in Owner
      BY DEF RunningTools, Now
    <3>2. sch.chain[o].call \in Calls
      BY <3>1, OwnFacts, ForACallType DEF ForACall
    <3> QED BY <3>1, <3>2, SchedulerAssumption DEF OfTurn, Stale
  <2>2. \A o, p \in RunningTools : o = p
    BY <2>1 DEF OwnInv, SlotOwned, RunningTools, Calm
  <2>3. CASE RunningTools = {}
    BY <2>3, FS_EmptySet DEF OneToolAtATime
  <2>4. CASE RunningTools # {}
    <3>1. PICK o \in RunningTools : TRUE
      BY <2>4
    <3>2. RunningTools = {o}
      BY <2>2, <3>1
    <3>3. Cardinality(RunningTools) = 1
      BY <3>2, FS_Singleton
    <3> QED BY <3>3 DEF OneToolAtATime
  <2> QED BY <2>3, <2>4
<1> QED BY <1>1, <1>2, <1>3, PTL DEF Spec

(* Call d is cancelled between s and t.                                    *)
Gone(s, t, d) == s.status[d] # "cancelled" /\ t.status[d] = "cancelled"

LEMMA advanceCancels ==
  ASSUME NEW s \in Scheduler, NEW t, NEW o, NEW sig, Advances(s, t, o, sig),
         NEW d \in Calls, Gone(s, t, d)
  PROVE  sig \in s.aborted /\ d \in Queued(s)
<1>1. CASE Finishes(s, t, o, sig)
  BY <1>1 DEF Finishes, Gone
<1>2. CASE Takes(s, t, o, sig) \/ Rests(s, t, o, sig)
  BY <1>2 DEF Takes, Rests, Gone
<1> QED BY <1>1, <1>2 DEF Advances

LEMMA settlesCancels ==
  ASSUME NEW s \in Scheduler, NEW t, NEW o, NEW sig, Settles(s, t, o, sig),
         NEW d \in Calls, Gone(s, t, d)
  PROVE  /\ sig \in s.aborted /\ d \in Queued(s)
         /\ s.active = None \/ s.status[s.active] \in Terminal
<1>1. ~Returns(s, t, o)
  BY DEF Returns, Gone
<1>2. PICK u \in Scheduler : Emptied(s, u) /\ Advances(u, t, o, sig)
  BY <1>1 DEF Settles
<1>3. Gone(u, t, d)
  BY <1>2 DEF Emptied, Gone
<1>4. sig \in u.aborted /\ d \in Queued(u)
  BY <1>2, <1>3, advanceCancels
<1> QED BY <1>2, <1>4 DEF Emptied, SameRest, Queued

LEMMA clearsCancels ==
  ASSUME NEW s \in Scheduler, NEW t, NEW o, NEW sig, Clears(s, t, o, sig),
         NEW d \in Calls, Gone(s, t, d)
  PROVE  d \in Queued(s) \cup Slot(s)
<1>1. ~Returns(s, t, o)
  BY DEF Returns, Gone
<1>2. PICK u \in Scheduler : Dropped(s, u) /\ Advances(u, t, o, sig)
  BY <1>1 DEF Clears
<1>3. ~Gone(u, t, d)
  <2>1. Queued(u) = {}
    BY <1>2 DEF Dropped, Queued, Range
  <2> QED BY <1>2, <2>1, advanceCancels
<1>4. d \in Queued(s) \/ Live(s, d)
  BY <1>2, <1>3 DEF Dropped, Gone
<1> QED BY <1>4 DEF Live, Slot

LEMMA handlesCancels ==
  ASSUME NEW s \in Scheduler, NEW t, NEW o, NEW c \in Calls, NEW outcome, NEW sig, NEW found,
         Handles(s, t, o, c, outcome, sig, found), NEW d \in Calls, Gone(s, t, d)
  PROVE  d \in Queued(s) \cup Slot(s) /\ (outcome = "Cancel" \/ sig \in s.aborted)
<1>1. CASE (outcome = "Cancel" \/ sig \in s.aborted) /\ Clears(s, t, o, sig)
  BY <1>1, clearsCancels
<1>2. ~Returns(s, t, o) /\ ~Runs(s, t, o, c, sig)
  BY DEF Returns, Runs, Gone
<1>3. ASSUME NEW w, Answers(s, t, o, w) PROVE FALSE
  BY <1>3 DEF Answers, Gone
<1> QED BY <1>1, <1>2, <1>3 DEF Handles, Proceeding

LEMMA beginsCancels ==
  ASSUME NEW s \in Scheduler, NEW t \in Scheduler, NEW r \in Requests, Begins(s, t, r),
         s.active = None, NEW d \in Calls, Gone(s, t, d)
  PROVE  d \in CallSet(r) /\ SignalOf[r] \in s.aborted
<1>1. PICK bad \in SUBSET CallSet(r), u \in Scheduler :
        Enqueued(s, u, r, bad) /\ Advances(u, t, ScheduleChain(r), SignalOf[r])
  BY DEF Begins, Enters
<1>2. Gone(u, t, d)
  BY <1>1 DEF Enqueued, Gone
<1>3. SignalOf[r] \in u.aborted /\ d \in Queued(u)
  BY <1>1, <1>2, advanceCancels
<1>4. Queued(u) = CallSet(r)
  <2>1. s.toolCallQueue = <<>> /\ CallsOf[r] \in Seq(Calls)
    BY SchedulerAssumption DEF Begins, SlotOpen
  <2>2. u.toolCallQueue = CallsOf[r]
    BY <1>1, <2>1 DEF Enqueued
  <2> QED BY <2>2 DEF Queued, CallSet
<1> QED BY <1>1, <1>3, <1>4 DEF Enqueued

LEMMA beginsAborted ==
  ASSUME NEW s \in Scheduler, NEW t \in Scheduler, NEW r \in Requests, Begins(s, t, r)
  PROVE  t.aborted = s.aborted
<1>1. PICK bad \in SUBSET CallSet(r), u \in Scheduler :
        /\ Enqueued(s, u, r, bad)
        /\ IF s.active # None THEN Returns(u, t, ScheduleChain(r))
           ELSE Advances(u, t, ScheduleChain(r), SignalOf[r])
  BY DEF Begins, Enters
<1>2. u.aborted = s.aborted
  BY <1>1 DEF Enqueued
<1>3. t.aborted = u.aborted
  BY <1>1 DEF Returns, Advances, SameRest
<1> QED BY <1>2, <1>3

(* Without Overlap the open calls are of the client's turn.                *)
LEMMA OpenOfTurn ==
  ASSUME QueueInv, ~Overlap, NEW r \in Requests, NEW d \in CallSet(r),
         d \in Queued(sch) \cup Slot(sch)
  PROVE  SignalOf[r] = turn
<1>1. Placed(sch, Taken) /\ TypeOK /\ Alone
  BY DEF QueueInv, PlaceInv
<1>2. d \in Taken /\ d \notin Handed(sch)
  BY <1>1 DEF Placed
<1>3. r \in Entered
  BY <1>1, <1>2, TakenCalls
<1>4. ~Settled(r)
  BY <1>2, <1>3, SettledHanded DEF Entered
<1> QED BY <1>1, <1>3, <1>4 DEF Alone, Entered

(* Why call d may be cancelled.                                            *)
Rightly(d) ==
  \/ FailedRebuild
  \/ /\ d \in Queued(sch) \cup Slot(sch)
     /\ \/ turn \in sch'.aborted
        \/ \E o \in Answerer : o.of \in Slot(sch) /\ Answered(o)

LEMMA WorksCancels ==
  ASSUME OwnInv, TypeOK', Calm, OfTurn(sch, turn),
         NEW o \in Owner, NEW c \in Calls, NEW sig \in Signals, Works(o, c, sig),
         NEW d \in Calls, Gone(sch, sch', d)
  PROVE  Rightly(d)
<1>1. sch \in Scheduler /\ sch' \in Scheduler /\ Placed(sch, Taken) /\ SlotOpen(sch)
        /\ SlotOwned(sch) /\ PlaceInv /\ sch'.aborted = sch.aborted
  <2>1. sch'.aborted = sch.aborted
    BY DEF Works, Moves
  <2> QED BY <2>1, OwnFacts DEF TypeOK, OwnInv, Calm
<1>2. sch.chain[o].call = c /\ sch.chain[o].signal = sig /\ c # None
  BY SchedulerAssumption DEF Works
<1>3. c = sch.active => sig = turn /\ Holds(sch, o)
  BY <1>2 DEF OfTurn, Holds
<1>4. ~Returns(sch, sch', o) /\ ~Proceeding(sch, sch', o, c, sig) /\ ~Asks(sch, sch', o, c, sig)
        /\ ~Reopens(sch, sch', o, c, "awaiting_approval") /\ ~Reopens(sch, sch', o, c, "error")
  BY DEF Returns, Proceeding, Runs, Asks, Reopens, Gone
<1>5. ASSUME NEW v \in Scheduler, NEW new, Settles(v, sch', o, sig),
             v.active = sch.active, v.toolCallQueue = sch.toolCallQueue, v.aborted = sch.aborted,
             \A e \in Calls : v.status[e] = IF e = c /\ c = sch.active THEN new ELSE sch.status[e],
             new = "cancelled" => sig \in sch.aborted
      PROVE  Rightly(d)
  <2>1. CASE Gone(sch, v, d)
    <3>1. d = sch.active /\ sig = turn /\ sig \in sch.aborted
      BY <1>3, <1>5, <2>1 DEF Gone
    <3> QED BY <1>1, <3>1, SchedulerAssumption DEF Rightly, Slot
  <2>2. CASE Gone(v, sch', d)
    <3>1. /\ sig \in v.aborted /\ d \in Queued(v)
          /\ v.active = None \/ v.status[v.active] \in Terminal
      BY <1>5, <2>2, settlesCancels
    <3>2. d \in Queued(sch) /\ sig \in sch.aborted
      BY <1>5, <3>1 DEF Queued
    <3>3. sch.active # None
      BY <1>1, <3>2 DEF Queued, Range, SlotOpen
    <3>4. CASE c = sch.active
      BY <1>1, <1>3, <3>2, <3>4 DEF Rightly
    <3>5. CASE c # sch.active
      <4>1. sch.status[sch.active] \in Terminal
        BY <1>5, <3>1, <3>3, <3>5, OwnFacts
      <4> QED BY <1>1, <3>3, <4>1 DEF SlotOpen, Unfinished, Terminal, Rightly, FailedRebuild
    <3> QED BY <3>4, <3>5
  <2> QED BY <2>1, <2>2 DEF Gone
<1>6. CASE Fails(sch, sch', o)
  <2>1. PICK v \in Scheduler, new \in {"error", "cancelled"} :
          /\ Sets(sch, v, c, new) /\ Settles(v, sch', o, sig)
          /\ new = "cancelled" => sig \in sch.aborted
    BY <1>2, <1>6 DEF Fails
  <2>2. CASE Live(sch, c)
    <3>1. \A e \in Calls : v.status[e] = IF e = c /\ c = sch.active THEN new ELSE sch.status[e]
      BY <2>1, <2>2 DEF Sets, Live
    <3> QED BY <1>5, <2>1, <3>1 DEF Sets, SameRest
  <2>3. CASE ~Live(sch, c)
    <3>1. \A e \in Calls : v.status[e] = IF e = c /\ c = sch.active THEN sch.status[c]
                                         ELSE sch.status[e]
      BY <2>1, <2>3 DEF Sets
    <3>2. c = sch.active => sch.status[c] # "cancelled"
      BY <1>1, <1>2 DEF SlotOpen, Unfinished
    <3> QED BY <1>5, <2>1, <3>1, <3>2 DEF Sets, SameRest
  <2> QED BY <2>2, <2>3
<1>7. CASE Finished(sch, sch', o)
  <2>1. PICK v \in Scheduler, new \in Terminal :
          /\ Marks(sch, v, c, new) /\ Settles(v, sch', o, sig)
          /\ new = "cancelled" => sig \in sch.aborted
    BY <1>2, <1>7 DEF Finished
  <2> QED BY <1>5, <2>1 DEF Marks, Same
<1>8. CASE Now(o, "confirming") /\ Handles(sch, sch', o, c, sch.chain[o].outcome, sig, TRUE)
  <2>1. PICK outcome : outcome = sch.chain[o].outcome
    OBVIOUS
  <2>2. c = sch.active /\ sig = turn /\ Holds(sch, o)
    BY <1>2, <1>3, <1>8 DEF OfTurn, Holds, Stale, Now
  <2>3. d \in Queued(sch) \cup Slot(sch) /\ (outcome = "Cancel" \/ sig \in sch.aborted)
    <3>1. PICK x \in Scheduler, y \in Scheduler : x = sch /\ y = sch'
      BY <1>1
    <3>2. Handles(x, y, o, c, outcome, sig, TRUE) /\ Gone(x, y, d)
      BY <1>8, <2>1, <3>1
    <3>3. d \in Queued(x) \cup Slot(x) /\ (outcome = "Cancel" \/ sig \in x.aborted)
      <4>1. PICK found : found = TRUE
        OBVIOUS
      <4>2. Handles(x, y, o, c, outcome, sig, found)
        BY <3>2, <4>1
      <4> QED BY <3>2, <4>2, handlesCancels
    <3> QED BY <3>1, <3>3
  <2>4. o = [kind |-> "user", of |-> c] /\ o \in Answerer
    BY <1>1, <1>8, <2>2 DEF SlotOwned, Fits, Now, Answerer
  <2>5. o.of \in Slot(sch)
    BY <1>2, <2>2, <2>4 DEF Slot
  <2> QED BY <1>1, <2>1, <2>2, <2>3, <2>4, <2>5 DEF Rightly, Answered
<1> QED BY <1>4, <1>6, <1>7, <1>8 DEF Works

LEMMA NextCancels ==
  ASSUME OwnInv, [Next]_vars, Calm, OfTurn(sch, turn),
         NEW r \in Requests, NEW d \in CallSet(r), Gone(sch, sch', d)
  PROVE  SignalOf[r] \in sch'.aborted \/ Rightly(d)
<1>1. sch \in Scheduler /\ sch' \in Scheduler /\ Placed(sch, Taken) /\ SlotOpen(sch) /\ TypeOK'
        /\ QueueInv /\ PlaceInv /\ SlotOwned(sch) /\ Alone
  BY OwnFacts, OwnNext DEF OwnInv, QueueInv, PlaceInv, TypeOK, Calm
<1>2. d \in Calls
  BY <1>1, TakenCalls DEF PlaceInv
<1>3. ASSUME sch'.status = sch.status PROVE FALSE
  BY <1>3 DEF Gone
<1>4. ASSUME NEW q \in Requests, Queues(q) PROVE FALSE
  BY <1>1, <1>3, <1>4 DEF Queues, Scheduler
<1>5. ASSUME NEW s \in Scheduler, s.status = sch.status, s.aborted = sch.aborted, s.active = None,
             NEW q \in Requests, Begins(s, sch', q)
      PROVE  SignalOf[r] \in sch'.aborted
  <2>1. Gone(s, sch', d)
    BY <1>5 DEF Gone
  <2>2. d \in CallSet(q) /\ SignalOf[q] \in s.aborted
    BY <1>1, <1>2, <1>5, <2>1, beginsCancels
  <2>3. q = r
    BY <2>2, DistinctCalls DEF CallSet, Range
  <2>4. sch'.aborted = s.aborted
    BY <1>1, <1>5, beginsAborted
  <2> QED BY <1>5, <2>2, <2>3, <2>4
<1>6. ASSUME NEW q \in Requests, Scheduling(q) PROVE SignalOf[r] \in sch'.aborted
  <2>1. sch.active = None
    BY <1>1, <1>6, ReadyEmpty DEF Calm, Scheduling
  <2> QED BY <1>1, <1>5, <1>6, <2>1 DEF Scheduling
<1>7. ASSUME NEW sig \in Signals, NEW o \in Owner, NEW u \in Scheduler, Escapes(sig, o, u)
      PROVE  Rightly(d)
  <2>1. /\ u.status = sch.status /\ u.active = sch.active /\ u.toolCallQueue = sch.toolCallQueue
        /\ turn \in u.aborted
    BY <1>7 DEF Escapes, Aborts
  <2>2. Gone(u, sch', d) /\ Clears(u, sch', o, sig)
    BY <1>7, <2>1 DEF Gone, Escapes
  <2>3. d \in Queued(u) \cup Slot(u)
    BY <1>2, <2>2, clearsCancels
  <2>4. sch'.aborted = u.aborted
    BY <1>1, <2>2, clearsMoves DEF Moves
  <2> QED BY <2>1, <2>3, <2>4 DEF Rightly, Queued, Slot
<1>8. ASSUME NEW o \in Owner, NEW c \in Calls, NEW sig \in Signals, NEW outcome \in Outcomes,
             Responds(o, c, sig, outcome)
      PROVE  Rightly(d)
  <2>1. ~Answers(sch, sch', o, Waiting("confirming", c, sig, outcome))
    BY <1>2 DEF Answers, Gone, Live
  <2>2. Handles(sch, sch', o, c, outcome, sig, FALSE) /\ turn \in sch.aborted
    BY <1>8, <2>1 DEF Responds, Calm
  <2>3. PICK x \in Scheduler, y \in Scheduler : x = sch /\ y = sch'
    BY <1>1
  <2>4. Handles(x, y, o, c, outcome, sig, FALSE) /\ Gone(x, y, d)
    BY <2>2, <2>3
  <2>5. d \in Queued(x) \cup Slot(x)
    BY <1>2, <2>4, handlesCancels
  <2>6. sch'.aborted = sch.aborted
    BY <1>8 DEF Responds, Moves
  <2> QED BY <2>2, <2>3, <2>5, <2>6 DEF Rightly
<1>9. ASSUME NEW o \in Owner, Ends(o) \/ NoBatch(o) PROVE FALSE
  BY <1>1, <1>3, <1>9 DEF Ends, NoBatch, Returns, Resets, Scheduler
<1>10. ASSUME NEW o \in Owner, NEW u \in Scheduler, NEW q \in Requests, NextBatch(o, u, q)
      PROVE  SignalOf[r] \in sch'.aborted
  <2>1. /\ u.status = sch.status /\ u.aborted = sch.aborted /\ u.active = None
    BY <1>1, <1>10 DEF NextBatch, Alone, Resets
  <2>2. ~Refused(u, sch')
    BY <1>3, <2>1 DEF Refused, Scheduler
  <2> QED BY <1>5, <1>10, <2>1, <2>2 DEF NextBatch
<1>11. ASSUME NEW o \in Owner, NEW c \in Calls, NEW sig \in Signals, Works(o, c, sig)
       PROVE  Rightly(d)
  BY <1>1, <1>2, <1>11, WorksCancels
<1>12. ASSUME NEW sig \in Signals, Cuts(sig) PROVE FALSE
  BY <1>3, <1>12 DEF Cuts, Aborts
<1>13. ASSUME Begun \/ Stopped \/ Responded \/ Continued
       PROVE  SignalOf[r] \in sch'.aborted \/ Rightly(d)
  BY <1>4, <1>6, <1>7, <1>8, <1>9, <1>10, <1>11, <1>12, <1>13
  DEF Begun, Stopped, Responded, Continued
<1> QED BY <1>3, <1>13, NextKinds

(* In the terminal client an answer or a result that arrives late cancels  *)
(* no call of another turn, except in a batch whose active call could not  *)
(* be rebuilt (cancelAll, checkAndNotifyCompletion).                       *)
THEOREM BatchesCancelThemselves == Spec /\ Calm => CancelsOwnBatch
<1> SUFFICES ASSUME Calm PROVE Spec => CancelsOwnBatch
  OBVIOUS
<1>1. Init => OwnInv /\ OfTurn(sch, turn)
  BY OwnInit DEF Init, OfTurn, Holds, Stale, Idle, Waiting
<1>2. OwnInv /\ OfTurn(sch, turn) /\ [Next]_vars => (OwnInv /\ OfTurn(sch, turn))'
  BY OwnNext, NextOfTurn
<1>3. OwnInv /\ OfTurn(sch, turn) /\ [Next]_vars
        => [\A r \in Requests : \A c \in CallSet(r) :
              Cancels(c) /\ SignalOf[r] \notin sch'.aborted
                => FailedRebuild \/ \E o \in Answerer : o.of \in CallSet(r) /\ Answered(o)]_vars
  <2> SUFFICES ASSUME OwnInv, OfTurn(sch, turn), [Next]_vars, NEW r \in Requests,
                      NEW c \in CallSet(r), Cancels(c), SignalOf[r] \notin sch'.aborted,
                      ~FailedRebuild
               PROVE  \E o \in Answerer : o.of \in CallSet(r) /\ Answered(o)
    OBVIOUS
  <2>1. Gone(sch, sch', c)
    BY DEF Cancels, Gone
  <2>2. Rightly(c)
    BY <2>1, NextCancels
  <2>3. QueueInv /\ ~Overlap
    BY DEF OwnInv, Calm
  <2>4. c \in Queued(sch) \cup Slot(sch)
    BY <2>2 DEF Rightly
  <2>5. SignalOf[r] = turn
    BY <2>3, <2>4, OpenOfTurn
  <2>6. PICK o \in Answerer : o.of \in Slot(sch) /\ Answered(o)
    BY <2>2, <2>5 DEF Rightly
  <2>7. o.of \in CallSet(r)
    BY <2>3, <2>4, <2>6 DEF QueueInv, Alone
  <2> QED BY <2>6, <2>7
<1> QED BY <1>1, <1>2, <1>3, PTL DEF Spec, CancelsOwnBatch

------------------------------------------------------------------------------
(***************************************************************************)
(* Nothing is stranded: one chain works at a time, and it, or the call in  *)
(* the slot, takes care of what is queued.                                 *)
(***************************************************************************)
Resting == {"idle", "unwinding"}

(* At most one chain works, on the call in the slot or on the handover of  *)
(* a batch; what was queued or completed waits for one of the two.         *)
Worked(s) ==
  /\ \A p, q \in Owner : s.chain[p].at \notin Resting /\ s.chain[q].at \notin Resting => p = q
  /\ \A p \in Owner : s.chain[p].at \notin Resting
       => IF s.chain[p].at = "finalizing" THEN s.active = None /\ s.isFinalizing
          ELSE s.active # None /\ s.chain[p].call = s.active
  /\ s.isFinalizing => \E p \in Owner : s.chain[p].at = "finalizing"
  /\ s.active = None /\ ~s.isFinalizing => s.completed = <<>>
  /\ s.requestQueue # <<>> => s.isFinalizing \/ s.active # None

(* _schedule is still to reset isScheduling; and the signals and prompts   *)
(* that a client cannot produce are not there.                             *)
Scheduled(s) == s.isScheduling => \E r \in Requests : s.chain[ScheduleChain(r)].at # "idle"
Unstopped(s) ==
  /\ Abortable = {} => s.aborted = {}
  /\ ~Interactive => \A c \in Calls : s.prompted[c] = None

Smooth ==
  /\ Escapable = {}
  /\ Abortable = {} \/ ~Interactive
  /\ ~Ide
  /\ {"handler", "rebuild"} \cap MayThrow = {}

Solo(s, o) == \A p \in Owner \ {o} : s.chain[p].at \in Resting

(* The chain o is in charge of the scheduler.                              *)
LEMMA soloWorked ==
  ASSUME NEW s, NEW o \in Owner, Solo(s, o),
         IF s.chain[o].at = "finalizing"
         THEN s.active = None /\ s.isFinalizing
         ELSE /\ ~s.isFinalizing
              /\ s.chain[o].at \notin Resting => s.active # None /\ s.chain[o].call = s.active
              /\ s.active = None => s.completed = <<>> /\ s.requestQueue = <<>>
  PROVE  Worked(s)
<1>1. \A p, q \in Owner : s.chain[p].at \notin Resting /\ s.chain[q].at \notin Resting => p = q
  BY DEF Solo
<1>2. \A p \in Owner : s.chain[p].at \notin Resting
        => IF s.chain[p].at = "finalizing" THEN s.active = None /\ s.isFinalizing
           ELSE s.active # None /\ s.chain[p].call = s.active
  BY DEF Solo
<1>3. s.isFinalizing => s.chain[o].at = "finalizing"
  OBVIOUS
<1> QED BY <1>1, <1>2, <1>3 DEF Worked

LEMMA ReturnedRests ==
  ASSUME NEW o \in Owner
  PROVE  /\ Returned(o).at \in Resting /\ Returned(o).call = None
         /\ o.kind = "schedule" => Returned(o).at = "unwinding"
  BY DEF Returned, Idle, Waiting, Resting

LEMMA advanceWorked ==
  ASSUME NEW s \in Scheduler, NEW t \in Scheduler, NEW o \in Owner, NEW sig,
         s.active = None, Advances(s, t, o, sig), Solo(s, o), ~s.isFinalizing,
         \/ s.requestQueue = <<>> \/ s.completed # <<>> \/ s.toolCallQueue # <<>>
  PROVE  Worked(t)
<1>1. CASE Finishes(s, t, o, sig)
  <2>1. /\ t.active = None /\ t.isFinalizing
        /\ \A p \in Owner : t.chain[p] = IF p = o THEN Waiting("finalizing", None, sig, None)
                                         ELSE s.chain[p]
    BY <1>1 DEF Finishes, Scheduler
  <2>2. Solo(t, o) /\ t.chain[o].at = "finalizing"
    BY <2>1 DEF Solo, Waiting
  <2> QED BY <2>1, <2>2, soloWorked
<1>2. CASE Takes(s, t, o, sig)
  <2>1. /\ t.active \in Calls /\ ~t.isFinalizing
        /\ \A p \in Owner : t.chain[p] = IF p = o THEN Waiting("validating", t.active, sig, None)
                                         ELSE s.chain[p]
    BY <1>2 DEF Takes, Scheduler
  <2>2. Solo(t, o) /\ t.chain[o].at = "validating" /\ t.chain[o].call = t.active
    BY <2>1 DEF Solo, Waiting
  <2>3. t.active # None
    BY <2>1, SchedulerAssumption
  <2> QED BY <2>1, <2>2, <2>3, soloWorked
<1>3. CASE Rests(s, t, o, sig)
  <2>1. /\ t.active = None /\ ~t.isFinalizing /\ t.completed = <<>> /\ s.requestQueue = <<>>
        /\ \A p \in Owner : t.chain[p] = IF p = o THEN Returned(o) ELSE s.chain[p]
    BY <1>3 DEF Rests, Scheduler
  <2>2. Solo(t, o) /\ t.chain[o].at \in Resting
    BY <2>1, ReturnedRests DEF Solo
  <2>3. t.requestQueue = <<>>
    BY <2>1 DEF Advances, SameRest
  <2> QED BY <2>1, <2>2, <2>3, soloWorked DEF Resting
<1> QED BY <1>1, <1>2, <1>3 DEF Advances

(* The chain leaves the call in the slot, or waits for something else.     *)
LEMMA staysWorked ==
  ASSUME NEW s, NEW t, NEW o \in Owner, Solo(s, o),
         t.active = s.active, s.active # None, t.isFinalizing = s.isFinalizing, ~s.isFinalizing,
         \A p \in Owner \ {o} : t.chain[p] = s.chain[p],
         \/ t.chain[o].at \in Resting
         \/ t.chain[o].at # "finalizing" /\ t.chain[o].call = s.active
  PROVE  Worked(t)
<1>1. Solo(t, o)
  BY DEF Solo
<1>2. t.chain[o].at # "finalizing"
  BY DEF Resting
<1> QED BY <1>1, <1>2, soloWorked

LEMMA returnWorked ==
  ASSUME NEW s \in Scheduler, NEW t, NEW o \in Owner, Solo(s, o), Returns(s, t, o),
         s.active # None, ~s.isFinalizing
  PROVE  Worked(t)
<1>1. /\ t.active = s.active /\ t.isFinalizing = s.isFinalizing
      /\ \A p \in Owner : t.chain[p] = IF p = o THEN Returned(o) ELSE s.chain[p]
  BY DEF Returns, Scheduler
<1>2. t.chain[o].at \in Resting
  BY <1>1, ReturnedRests
<1> QED BY <1>1, <1>2, staysWorked

LEMMA settlesWorked ==
  ASSUME NEW s \in Scheduler, NEW t \in Scheduler, NEW o \in Owner, NEW sig,
         Solo(s, o), Settles(s, t, o, sig), s.active # None, ~s.isFinalizing
  PROVE  Worked(t)
<1>1. CASE Returns(s, t, o)
  BY <1>1, returnWorked
<1>2. ASSUME NEW u \in Scheduler, Emptied(s, u), Advances(u, t, o, sig) PROVE Worked(t)
  <2>1. /\ u.active = None /\ ~u.isFinalizing /\ u.chain = s.chain
        /\ u.completed = Append(s.completed, s.active)
    BY <1>2 DEF Emptied
  <2>2. u.completed # <<>>
    <3>1. s.completed \in Seq(Calls) /\ s.active \in Calls
      BY DEF Scheduler
    <3> QED BY <2>1, <3>1, AppendNonempty
  <2>3. Solo(u, o)
    BY <2>1 DEF Solo
  <2> QED BY <1>2, <2>1, <2>2, <2>3, advanceWorked
<1> QED BY <1>1, <1>2 DEF Settles

LEMMA clearsWorked ==
  ASSUME NEW s \in Scheduler, NEW t \in Scheduler, NEW o \in Owner, NEW sig,
         Solo(s, o), Clears(s, t, o, sig), s.active # None, ~s.isFinalizing
  PROVE  Worked(t)
<1>1. CASE Returns(s, t, o)
  BY <1>1, returnWorked
<1>2. ASSUME NEW u \in Scheduler, Dropped(s, u), Advances(u, t, o, sig) PROVE Worked(t)
  <2>1. /\ u.active = None /\ ~u.isFinalizing /\ u.chain = s.chain
        /\ u.completed = Append(s.completed \o s.toolCallQueue, s.active)
    BY <1>2 DEF Dropped
  <2>2. u.completed # <<>>
    <3>1. s.completed \o s.toolCallQueue \in Seq(Calls) /\ s.active \in Calls
      BY DEF Scheduler
    <3> QED BY <2>1, <3>1, AppendNonempty
  <2>3. Solo(u, o)
    BY <2>1 DEF Solo
  <2> QED BY <1>2, <2>1, <2>2, <2>3, advanceWorked
<1> QED BY <1>1, <1>2 DEF Clears

(* A chain that waits for a call works on it alone.                        *)
LEMMA WorkingAlone ==
  ASSUME OwnInv, Worked(sch), NEW o \in Owner, sch.chain[o].call \in Calls
  PROVE  /\ Solo(sch, o) /\ ~sch.isFinalizing
         /\ sch.active # None /\ sch.chain[o].call = sch.active
<1>1. sch.chain[o].at \notin Resting /\ sch.chain[o].at # "finalizing"
  <2>1. sch.chain[o] \in Wait
    BY OwnFacts DEF Scheduler
  <2> QED BY <2>1, SchedulerAssumption DEF Wait, ForNoCall, ForACall, Resting
<1>2. Solo(sch, o)
  BY <1>1 DEF Worked, Solo
<1>3. ~sch.isFinalizing
  BY <1>1, <1>2 DEF Worked, Solo, Resting
<1> QED BY <1>1, <1>2, <1>3 DEF Worked

LEMMA WorksWorked ==
  ASSUME OwnInv, TypeOK', Worked(sch),
         NEW o \in Owner, NEW c \in Calls, NEW sig \in Signals, Works(o, c, sig)
  PROVE  Worked(sch')
<1>1. sch \in Scheduler /\ sch' \in Scheduler
  BY OwnFacts DEF TypeOK
<1>2. sch.chain[o].call = c /\ sch.chain[o].signal = sig
  BY DEF Works
<1>3. Solo(sch, o) /\ ~sch.isFinalizing /\ sch.active # None /\ c = sch.active
  BY <1>2, WorkingAlone
<1>4. CASE Returns(sch, sch', o)
  BY <1>1, <1>3, <1>4, returnWorked
<1>5. CASE Runs(sch, sch', o, c, sig)
  <2>1. /\ sch'.active = sch.active /\ sch'.isFinalizing = sch.isFinalizing
        /\ \A p \in Owner : sch'.chain[p] = IF p = o THEN Waiting("executing", c, sig, None)
                                            ELSE sch.chain[p]
    BY <1>1, <1>5 DEF Runs, Scheduler
  <2>2. sch'.chain[o].at # "finalizing" /\ sch'.chain[o].call = sch.active
    BY <1>3, <2>1 DEF Waiting
  <2> QED BY <1>3, <2>1, <2>2, staysWorked
<1>6. CASE \/ Asks(sch, sch', o, c, sig)
           \/ \E new \in {"awaiting_approval", "error"} : Reopens(sch, sch', o, c, new)
  <2>1. /\ sch'.active = sch.active /\ sch'.isFinalizing = sch.isFinalizing
        /\ \A p \in Owner : sch'.chain[p] = IF p = o THEN Returned(o) ELSE sch.chain[p]
    BY <1>1, <1>6 DEF Asks, Reopens, Same, Scheduler
  <2>2. sch'.chain[o].at \in Resting
    BY <2>1, ReturnedRests
  <2> QED BY <1>3, <2>1, <2>2, staysWorked
<1>7. ASSUME NEW v \in Scheduler, Settles(v, sch', o, sig), v.active = sch.active,
             v.chain = sch.chain, v.isFinalizing = sch.isFinalizing
      PROVE  Worked(sch')
  <2>1. Solo(v, o)
    BY <1>3, <1>7 DEF Solo
  <2> QED BY <1>1, <1>3, <1>7, <2>1, settlesWorked
<1>8. CASE Fails(sch, sch', o)
  <2>1. PICK v \in Scheduler, new \in {"error", "cancelled"} :
          Sets(sch, v, c, new) /\ Settles(v, sch', o, sig)
    BY <1>2, <1>8 DEF Fails
  <2> QED BY <1>7, <2>1 DEF Sets
<1>9. CASE Finished(sch, sch', o)
  <2>1. PICK v \in Scheduler, new \in Terminal : Marks(sch, v, c, new) /\ Settles(v, sch', o, sig)
    BY <1>2, <1>9 DEF Finished
  <2> QED BY <1>7, <2>1 DEF Marks, Same
<1>10. ASSUME NEW w, Answers(sch, sch', o, w), w.at # "finalizing", w.call = c
       PROVE  Worked(sch')
  <2>1. /\ sch'.active = sch.active /\ sch'.isFinalizing = sch.isFinalizing
        /\ \A p \in Owner : sch'.chain[p] = IF p = o THEN w ELSE sch.chain[p]
    BY <1>1, <1>10 DEF Answers, Same, Scheduler
  <2> QED BY <1>3, <1>10, <2>1, staysWorked
<1>11. CASE Handles(sch, sch', o, c, sch.chain[o].outcome, sig, TRUE)
  <2>1. CASE Clears(sch, sch', o, sig)
    BY <1>1, <1>3, <2>1, clearsWorked
  <2>2. CASE Answers(sch, sch', o, Waiting("editing", c, sig, None))
    BY <1>10, <2>2 DEF Waiting
  <2>3. CASE Answers(sch, sch', o, Waiting("inlining", c, sig, None))
    BY <1>10, <2>3 DEF Waiting
  <2> QED BY <1>4, <1>5, <1>11, <2>1, <2>2, <2>3 DEF Handles, Proceeding
<1> QED BY <1>4, <1>5, <1>6, <1>8, <1>9, <1>11 DEF Works, Proceeding

LEMMA RespondsWorked ==
  ASSUME OwnInv, TypeOK', Worked(sch), Unstopped(sch), Smooth,
         NEW o \in Owner, NEW c \in Calls, NEW sig \in Signals, NEW outcome \in Outcomes,
         Responds(o, c, sig, outcome)
  PROVE  Worked(sch') /\ Answers(sch, sch', o, Waiting("confirming", c, sig, outcome))
<1>1. sch \in Scheduler /\ sch' \in Scheduler
  BY OwnFacts DEF TypeOK
<1>2. sch.active = c /\ sch.status[c] = "awaiting_approval"
  <2>1. sch.aborted # {} \/ (sch.active = c /\ sch.status[c] = "awaiting_approval")
    BY DEF Responds, Smooth
  <2>2. Interactive
    <3>1. sch.prompted[c] # None
      BY SchedulerAssumption DEF Responds
    <3> QED BY <3>1 DEF Unstopped
  <2> QED BY <2>1, <2>2 DEF Unstopped, Smooth
<1>3. Answers(sch, sch', o, Waiting("confirming", c, sig, outcome))
  BY <1>2 DEF Responds
<1>4. \A p \in Owner : sch.chain[p].at \in Resting
  <2> SUFFICES ASSUME NEW p \in Owner, sch.chain[p].at \notin Resting PROVE FALSE
    OBVIOUS
  <2>1. sch.active # None
    BY <1>2, SchedulerAssumption
  <2>2. Holds(sch, p)
    BY <2>1 DEF Worked, Holds
  <2>3. Fits(sch, p)
    BY <2>2 DEF OwnInv, SlotOwned, Smooth
  <2>4. p = [kind |-> "user", of |-> c]
    BY <1>2, <2>3 DEF Fits
  <2>5. o = [kind |-> "user", of |-> c]
    BY DEF Responds, Smooth, Answerer
  <2> QED BY <2>4, <2>5 DEF Responds, Idle, Waiting, Resting
<1>5. sch.active # None /\ ~sch.isFinalizing /\ Solo(sch, o)
  BY <1>2, <1>4, SchedulerAssumption DEF Solo, Worked, Resting
<1>6. /\ sch'.active = sch.active /\ sch'.isFinalizing = sch.isFinalizing
      /\ \A p \in Owner : sch'.chain[p] = IF p = o THEN Waiting("confirming", c, sig, outcome)
                                          ELSE sch.chain[p]
  BY <1>1, <1>3 DEF Answers, Same, Scheduler
<1>7. sch'.chain[o].at # "finalizing" /\ sch'.chain[o].call = sch.active
  BY <1>2, <1>6 DEF Waiting
<1>8. Worked(sch')
  BY <1>5, <1>6, <1>7, staysWorked
<1> QED BY <1>3, <1>8

(* A request whose calls enter the scheduler.                              *)
LEMMA beginsWorked ==
  ASSUME NEW s \in Scheduler, NEW t \in Scheduler, NEW r \in Requests,
         Begins(s, t, r), ~s.isFinalizing,
         IF s.active = None THEN \A p \in Owner : s.chain[p].at \in Resting ELSE Worked(s)
  PROVE  Worked(t)
<1>1. PICK o \in Owner : o = ScheduleChain(r)
  BY DEF Begins
<1>2. PICK bad \in SUBSET CallSet(r), u \in Scheduler :
        /\ Enqueued(s, u, r, bad)
        /\ IF s.active # None THEN Returns(u, t, o) ELSE Advances(u, t, o, SignalOf[r])
  BY <1>1 DEF Begins, Enters
<1>3. /\ u.active = s.active /\ u.chain = s.chain /\ ~u.isFinalizing
      /\ u.completed = <<>> /\ u.requestQueue = s.requestQueue
  BY <1>2 DEF Enqueued
<1>4. CASE s.active = None
  <2>2. Solo(u, o)
    BY <1>3, <1>4 DEF Solo
  <2>3. u.toolCallQueue # <<>>
    <3>1. /\ s.toolCallQueue \in Seq(Calls) /\ CallsOf[r] \in Seq(Calls) /\ CallsOf[r] # <<>>
          /\ u.toolCallQueue = s.toolCallQueue \o CallsOf[r]
      BY <1>2, SchedulerAssumption, NonemptyBatches DEF Enqueued, Scheduler
    <3> QED BY <3>1, ConcatNonempty
  <2> QED BY <1>2, <1>3, <1>4, <2>2, <2>3, advanceWorked
<1>5. CASE s.active # None
  <2>1. /\ t.active = s.active /\ ~t.isFinalizing /\ t.requestQueue = s.requestQueue
        /\ \A p \in Owner : t.chain[p] = IF p = o THEN Returned(o) ELSE s.chain[p]
    BY <1>2, <1>3, <1>5 DEF Returns, SameRest, Scheduler
  <2>2. t.chain[o].at \in Resting
    BY <2>1, ReturnedRests
  <2>3. \A p \in Owner : t.chain[p].at \notin Resting => t.chain[p] = s.chain[p]
    BY <2>1, <2>2
  <2>4. \A p \in Owner : t.chain[p].at # "finalizing"
    BY <1>5, <2>3 DEF Worked, Resting
  <2> QED BY <1>5, <2>1, <2>3, <2>4 DEF Worked
<1> QED BY <1>4, <1>5

(* After a handover: the empty scheduler, with the rest of the requests.   *)
LEMMA nextWorked ==
  ASSUME NEW s \in Scheduler, NEW u \in Scheduler, NEW o \in Owner,
         Worked(s), s.chain[o].at = "finalizing", Resets(s, u, o)
  PROVE  /\ u.active = None /\ ~u.isFinalizing /\ u.completed = <<>>
         /\ \A p \in Owner : u.chain[p].at \in Resting
<1>1. s.active = None /\ Solo(s, o)
  BY DEF Worked, Solo, Resting
<1>2. /\ u.active = None /\ ~u.isFinalizing /\ u.completed = <<>>
      /\ \A p \in Owner : u.chain[p] = IF p = o THEN Returned(o) ELSE s.chain[p]
  BY <1>1 DEF Resets, Scheduler
<1> QED BY <1>1, <1>2, ReturnedRests DEF Solo

(* A step of chain o leaves isScheduling for the chain that still has to   *)
(* reset it.                                                               *)
Tends(s, t, o) ==
  /\ t.isScheduling = s.isScheduling
  /\ \A p \in Owner \ {o} : t.chain[p] = s.chain[p]
  /\ o.kind = "schedule" => t.chain[o].at # "idle"
  /\ t.aborted = s.aborted /\ (t.prompted = s.prompted \/ Interactive)

LEMMA tendsScheduled ==
  ASSUME NEW s, NEW t, NEW o \in Owner, Tends(s, t, o), Scheduled(s), Unstopped(s)
  PROVE  Scheduled(t) /\ Unstopped(t)
<1>1. ASSUME t.isScheduling PROVE \E r \in Requests : t.chain[ScheduleChain(r)].at # "idle"
  <2>1. PICK r \in Requests : s.chain[ScheduleChain(r)].at # "idle"
    BY <1>1 DEF Tends, Scheduled
  <2>2. PICK p \in Owner : p = ScheduleChain(r)
    BY DEF Owner, ScheduleChain
  <2>3. t.chain[p].at # "idle"
    BY <2>1, <2>2 DEF Tends, ScheduleChain
  <2> QED BY <2>2, <2>3
<1> QED BY <1>1 DEF Scheduled, Unstopped, Tends

LEMMA restTends ==
  ASSUME NEW s \in Scheduler, NEW t, NEW o \in Owner, NEW w, SameRest(s, t),
         t.chain = [s.chain EXCEPT ![o] = w], o.kind = "schedule" => w.at # "idle"
  PROVE  Tends(s, t, o)
  BY DEF SameRest, Tends, Scheduler

LEMMA sameTends ==
  ASSUME NEW s \in Scheduler, NEW t, NEW o \in Owner, NEW w, Same(s, t),
         t.prompted = s.prompted \/ Interactive,
         t.chain = [s.chain EXCEPT ![o] = w], o.kind = "schedule" => w.at # "idle"
  PROVE  Tends(s, t, o)
  BY DEF Same, Tends, Scheduler

LEMMA returnTends ==
  ASSUME NEW s \in Scheduler, NEW t, NEW o \in Owner, Returns(s, t, o)
  PROVE  Tends(s, t, o)
<1>1. o.kind = "schedule" => Returned(o).at # "idle"
  BY ReturnedRests
<1> QED BY <1>1, restTends DEF Returns

LEMMA advanceTends ==
  ASSUME NEW s \in Scheduler, NEW t, NEW o \in Owner, NEW sig, Advances(s, t, o, sig)
  PROVE  Tends(s, t, o)
<1>1. SameRest(s, t)
  BY DEF Advances
<1>2. CASE Finishes(s, t, o, sig)
  <2>1. Waiting("finalizing", None, sig, None).at # "idle"
    BY DEF Waiting
  <2> QED BY <1>1, <1>2, <2>1, restTends DEF Finishes
<1>3. CASE Takes(s, t, o, sig)
  <2>1. Waiting("validating", t.active, sig, None).at # "idle"
    BY DEF Waiting
  <2> QED BY <1>1, <1>3, <2>1, restTends DEF Takes
<1>4. CASE Rests(s, t, o, sig)
  <2>1. o.kind = "schedule" => Returned(o).at # "idle"
    BY ReturnedRests
  <2> QED BY <1>1, <1>4, <2>1, restTends DEF Rests
<1> QED BY <1>2, <1>3, <1>4 DEF Advances

LEMMA settlesTends ==
  ASSUME NEW s \in Scheduler, NEW t, NEW o \in Owner, NEW sig, Settles(s, t, o, sig)
  PROVE  Tends(s, t, o)
<1>1. CASE Returns(s, t, o)
  BY <1>1, returnTends
<1>2. ASSUME NEW u \in Scheduler, Emptied(s, u), Advances(u, t, o, sig) PROVE Tends(s, t, o)
  <2>1. Tends(u, t, o)
    BY <1>2, advanceTends
  <2> QED BY <1>2, <2>1 DEF Emptied, SameRest, Tends
<1> QED BY <1>1, <1>2 DEF Settles

LEMMA clearsTends ==
  ASSUME NEW s \in Scheduler, NEW t, NEW o \in Owner, NEW sig, Clears(s, t, o, sig)
  PROVE  Tends(s, t, o)
<1>1. CASE Returns(s, t, o)
  BY <1>1, returnTends
<1>2. ASSUME NEW u \in Scheduler, Dropped(s, u), Advances(u, t, o, sig) PROVE Tends(s, t, o)
  <2>1. Tends(u, t, o)
    BY <1>2, advanceTends
  <2> QED BY <1>2, <2>1 DEF Dropped, SameRest, Tends
<1> QED BY <1>1, <1>2 DEF Clears

LEMMA answersTends ==
  ASSUME NEW s \in Scheduler, NEW t, NEW o \in Owner, NEW w, Answers(s, t, o, w)
  PROVE  Tends(s, t, o)
<1>1. w.at # "idle"
  BY DEF Answers
<1> QED BY <1>1, sameTends DEF Answers

LEMMA WorksTends ==
  ASSUME OwnInv, Smooth,
         NEW o \in Owner, NEW c \in Calls, NEW sig \in Signals, Works(o, c, sig)
  PROVE  Tends(sch, sch', o)
<1>1. sch \in Scheduler
  BY OwnFacts
<1>2. sch.chain[o].call = c /\ sch.chain[o].signal = sig
  BY DEF Works
<1>3. o.kind = "schedule" => Returned(o).at # "idle"
  BY ReturnedRests
<1>4. CASE Returns(sch, sch', o)
  BY <1>1, <1>4, returnTends
<1>5. CASE Runs(sch, sch', o, c, sig)
  <2>1. Waiting("executing", c, sig, None).at # "idle"
    BY DEF Waiting
  <2> QED BY <1>1, <1>5, <2>1, restTends DEF Runs
<1>6. CASE Asks(sch, sch', o, c, sig) /\ Interactive
  BY <1>1, <1>3, <1>6, sameTends DEF Asks
<1>7. CASE \E new \in {"awaiting_approval", "error"} : Reopens(sch, sch', o, c, new)
  BY <1>1, <1>3, <1>7, sameTends DEF Reopens
<1>8. ASSUME NEW v \in Scheduler, Settles(v, sch', o, sig), v.chain = sch.chain,
             v.isScheduling = sch.isScheduling, v.aborted = sch.aborted, v.prompted = sch.prompted
      PROVE  Tends(sch, sch', o)
  <2>1. Tends(v, sch', o)
    BY <1>8, settlesTends
  <2> QED BY <1>8, <2>1 DEF Tends
<1>9. CASE Fails(sch, sch', o)
  <2>1. PICK v \in Scheduler, new \in {"error", "cancelled"} :
          Sets(sch, v, c, new) /\ Settles(v, sch', o, sig)
    BY <1>2, <1>9 DEF Fails
  <2> QED BY <1>8, <2>1 DEF Sets, SameRest
<1>10. CASE Finished(sch, sch', o)
  <2>1. PICK v \in Scheduler, new \in Terminal : Marks(sch, v, c, new) /\ Settles(v, sch', o, sig)
    BY <1>2, <1>10 DEF Finished
  <2> QED BY <1>8, <2>1 DEF Marks, Same
<1>11. CASE Handles(sch, sch', o, c, sch.chain[o].outcome, sig, TRUE)
  <2>1. CASE Clears(sch, sch', o, sig)
    BY <1>1, <2>1, clearsTends
  <2>2. CASE \E w : Answers(sch, sch', o, w)
    BY <1>1, <2>2, answersTends
  <2> QED BY <1>4, <1>5, <1>11, <2>1, <2>2 DEF Handles, Proceeding
<1> QED BY <1>4, <1>5, <1>6, <1>7, <1>9, <1>10, <1>11 DEF Works, Proceeding

(* A new request is scheduled in a chain of its own.                       *)
LEMMA beginsScheduled ==
  ASSUME NEW s \in Scheduler, NEW t \in Scheduler, NEW r \in Requests,
         Begins(s, t, r), Unstopped(s)
  PROVE  Scheduled(t) /\ Unstopped(t)
<1>1. PICK o \in Owner : o = ScheduleChain(r)
  BY DEF Begins
<1>2. PICK bad \in SUBSET CallSet(r), u \in Scheduler :
        /\ Enqueued(s, u, r, bad)
        /\ Returns(u, t, o) \/ Advances(u, t, o, SignalOf[r])
  BY <1>1 DEF Begins, Enters
<1>3. Tends(u, t, o)
  BY <1>2, returnTends, advanceTends
<1>4. o.kind = "schedule"
  BY <1>1 DEF ScheduleChain
<1>5. Unstopped(t)
  BY <1>2, <1>3 DEF Enqueued, Unstopped, Tends
<1>6. t.chain[ScheduleChain(r)].at # "idle"
  BY <1>1, <1>3, <1>4 DEF Tends
<1> QED BY <1>5, <1>6 DEF Scheduled

(* The invariant NothingStranded rests on, besides OwnInv.                 *)
Tidy == Worked(sch) /\ Scheduled(sch) /\ Unstopped(sch)

LEMMA ContinuedTidy ==
  ASSUME OwnInv, OwnInv', Tidy, Smooth, Continued
  PROVE  Tidy'
<1>1. sch \in Scheduler /\ sch' \in Scheduler /\ TypeOK'
  BY OwnFacts DEF OwnInv, QueueInv, PlaceInv, TypeOK
<1>2. ASSUME NEW o \in Owner, NEW c \in Calls, NEW sig \in Signals, Works(o, c, sig)
      PROVE  Tidy'
  BY <1>1, <1>2, WorksWorked, WorksTends, tendsScheduled DEF Tidy
<1>3. ASSUME NEW o \in Owner, Ends(o) PROVE Tidy'
  <2>1. /\ sch.chain[o].at = "unwinding"
        /\ sch' = [sch EXCEPT !.isScheduling = FALSE, !.chain[o] = Idle]
    BY <1>3 DEF Ends, Smooth, Now
  <2>2. /\ ~sch'.isScheduling /\ sch'.active = sch.active
        /\ sch'.isFinalizing = sch.isFinalizing /\ sch'.completed = sch.completed
        /\ sch'.requestQueue = sch.requestQueue
        /\ sch'.aborted = sch.aborted /\ sch'.prompted = sch.prompted
    BY <1>1, <2>1 DEF Scheduler
  <2>3. \A p \in Owner : sch'.chain[p] = IF p = o THEN Idle ELSE sch.chain[p]
    BY <1>1, <2>1 DEF Scheduler
  <2>4. \A p \in Owner : \/ sch'.chain[p] = sch.chain[p]
                         \/ sch.chain[p].at \in Resting /\ sch'.chain[p].at \in Resting
    BY <2>1, <2>3 DEF Idle, Waiting, Resting
  <2>5. Worked(sch')
    <3>1. \A p \in Owner : sch'.chain[p].at \notin Resting => sch'.chain[p] = sch.chain[p]
      BY <2>4
    <3>2. \A p \in Owner : sch.chain[p].at = "finalizing" => sch'.chain[p] = sch.chain[p]
      BY <2>4 DEF Resting
    <3> QED BY <2>2, <3>1, <3>2 DEF Worked, Tidy
  <2> QED BY <2>2, <2>5 DEF Tidy, Scheduled, Unstopped
<1>4. ASSUME NEW o \in Owner, NoBatch(o) PROVE Tidy'
  <2>1. /\ sch'.active = None /\ ~sch'.isFinalizing /\ sch'.completed = <<>>
        /\ \A p \in Owner : sch'.chain[p].at \in Resting
    BY <1>1, <1>4, nextWorked DEF NoBatch, Now, Tidy
  <2>2. Worked(sch')
    BY <1>4, <2>1 DEF Worked, NoBatch
  <2>3. Tends(sch, sch', o)
    <3>1. \A p \in Owner : sch'.chain[p] = IF p = o THEN Returned(o) ELSE sch.chain[p]
      BY <1>1, <1>4 DEF NoBatch, Resets, Scheduler
    <3>2. o.kind = "schedule" => sch'.chain[o].at # "idle"
      BY <3>1, ReturnedRests
    <3> QED BY <1>4, <3>1, <3>2 DEF NoBatch, Resets, Tends
  <2> QED BY <2>2, <2>3, tendsScheduled DEF Tidy
<1>5. ASSUME NEW o \in Owner, NEW u \in Scheduler, NEW r \in Requests, NextBatch(o, u, r)
      PROVE  Tidy'
  <2>1. /\ u.active = None /\ ~u.isFinalizing /\ u.completed = <<>>
        /\ \A p \in Owner : u.chain[p].at \in Resting
    BY <1>1, <1>5, nextWorked DEF NextBatch, Now, Tidy
  <2>2. Begins(u, sch', r)
    BY <1>5, <2>1 DEF NextBatch, isRunning
  <2>3. Worked(sch')
    BY <1>1, <2>1, <2>2, beginsWorked
  <2>4. Unstopped(u)
    BY <1>5 DEF NextBatch, Resets, Unstopped, Tidy
  <2> QED BY <1>1, <2>2, <2>3, <2>4, beginsScheduled DEF Tidy
<1> QED BY <1>2, <1>3, <1>4, <1>5 DEF Continued

LEMMA BegunTidy ==
  ASSUME OwnInv, OwnInv', Tidy, Smooth, Begun
  PROVE  Tidy'
<1>1. sch \in Scheduler /\ sch' \in Scheduler
  BY OwnFacts DEF OwnInv, QueueInv, PlaceInv, TypeOK
<1>2. ASSUME NEW r \in Requests, Queues(r) PROVE Tidy'
  <2>1. /\ sch'.active = sch.active /\ sch'.chain = sch.chain
        /\ sch'.isFinalizing = sch.isFinalizing /\ sch'.completed = sch.completed
        /\ sch'.isScheduling = sch.isScheduling
        /\ sch'.aborted = sch.aborted /\ sch'.prompted = sch.prompted
    BY <1>1, <1>2 DEF Queues, Scheduler
  <2>2. sch.isFinalizing \/ sch.active # None
    <3>1. CASE isRunning(sch)
      BY <3>1 DEF isRunning
    <3>2. CASE sch.isScheduling
      <4>1. PICK q \in Requests : sch.chain[ScheduleChain(q)].at # "idle"
        BY <3>2 DEF Tidy, Scheduled
      <4>2. PICK p \in Owner : p = ScheduleChain(q)
        BY DEF Owner, ScheduleChain
      <4>3. sch.chain[p].at \notin Resting
        BY <1>2, <4>1, <4>2 DEF Queues, Drained, Resting
      <4> QED BY <4>3 DEF Tidy, Worked
    <3> QED BY <1>2, <3>1, <3>2 DEF Queues
  <2>3. Worked(sch')
    BY <2>1, <2>2 DEF Worked, Tidy
  <2> QED BY <2>1, <2>3 DEF Tidy, Scheduled, Unstopped
<1>3. ASSUME NEW r \in Requests, Scheduling(r) PROVE Tidy'
  <2>1. ~sch.isFinalizing /\ Begins(sch, sch', r)
    BY <1>3 DEF Scheduling, isRunning
  <2>2. sch.active = None => \A p \in Owner : sch.chain[p].at \in Resting
    BY <2>1 DEF Tidy, Worked
  <2>3. Worked(sch')
    BY <1>1, <2>1, <2>2, beginsWorked DEF Tidy
  <2> QED BY <1>1, <2>1, <2>3, beginsScheduled DEF Tidy
<1> QED BY <1>2, <1>3 DEF Begun

LEMMA StoppedTidy ==
  ASSUME OwnInv, Tidy, Smooth, Stopped
  PROVE  Tidy'
<1>1. sch \in Scheduler
  BY OwnFacts
<1>2. PICK sig \in Signals : Cuts(sig)
  BY DEF Stopped, Escapes, Smooth
<1>3. /\ sch'.active = sch.active /\ sch'.chain = sch.chain
      /\ sch'.isFinalizing = sch.isFinalizing /\ sch'.completed = sch.completed
      /\ sch'.isScheduling = sch.isScheduling /\ sch'.prompted = sch.prompted
  BY <1>2 DEF Cuts, Aborts
<1>4. sch.requestQueue = <<>> => sch'.requestQueue = <<>>
  <2>1. PICK S : sch'.requestQueue = Keep(sch.requestQueue, S)
    BY <1>2 DEF Cuts, Aborts
  <2>2. Range(sch'.requestQueue) = Range(sch.requestQueue) \cap S
    BY <1>1, <2>1, KeepElements DEF Scheduler
  <2>3. sch'.requestQueue \in Seq(Requests)
    BY <1>1, <2>1, KeepType DEF Scheduler
  <2>4. sch.requestQueue = <<>> => Range(sch'.requestQueue) = {}
    BY <2>2 DEF Range
  <2> QED BY <2>3, <2>4, EmptyRange
<1>5. Worked(sch')
  BY <1>3, <1>4 DEF Worked, Tidy
<1>6. Abortable # {}
  BY <1>2 DEF Cuts
<1> QED BY <1>3, <1>5, <1>6 DEF Tidy, Scheduled, Unstopped

LEMMA TidyNext ==
  ASSUME OwnInv, Tidy, Smooth, [Next]_vars
  PROVE  Tidy'
<1>1. OwnInv' /\ TypeOK' /\ sch \in Scheduler
  BY OwnNext, OwnFacts DEF OwnInv, QueueInv, PlaceInv
<1>2. CASE sch' = sch
  BY <1>2 DEF Tidy
<1>3. CASE Responded
  <2>1. PICK o \in Owner, c \in Calls, sig \in Signals, outcome \in Outcomes :
          Responds(o, c, sig, outcome)
    BY <1>3 DEF Responded
  <2>2. Worked(sch') /\ Answers(sch, sch', o, Waiting("confirming", c, sig, outcome))
    BY <1>1, <2>1, RespondsWorked DEF Tidy
  <2>3. Tends(sch, sch', o)
    BY <1>1, <2>2, answersTends
  <2> QED BY <2>2, <2>3, tendsScheduled DEF Tidy
<1> QED BY <1>1, <1>2, <1>3, NextKinds, ContinuedTidy, BegunTidy, StoppedTidy

LEMMA TidyInit == Init => Tidy
<1> SUFFICES ASSUME Init PROVE Tidy
  OBVIOUS
<1>1. \A p \in Owner : sch.chain[p].at \in Resting
  BY DEF Init, Idle, Waiting, Resting
<1> QED BY <1>1 DEF Init, Tidy, Worked, Scheduled, Unstopped

(* A quiet scheduler is idle or waits for the user.                        *)
LEMMA TidyQuiet ==
  ASSUME OwnInv, Tidy, Smooth
  PROVE  NothingStranded
<1> SUFFICES ASSUME Quiet PROVE NothingStranded
  BY DEF NothingStranded
<1>1. \A p \in Owner : sch.chain[p].at = "idle" /\ sch.chain[p].call = None
  <2>1. \A p \in Owner : sch.chain[p].at = "idle" /\ sch.chain[p] \in Wait
    BY OwnFacts DEF Quiet, Now, Scheduler
  <2> QED BY <2>1 DEF Wait, ForACall
<1>2. ~sch.isFinalizing
  BY <1>1 DEF Tidy, Worked
<1>3. ~sch.isScheduling
  <2>1. \A r \in Requests : ScheduleChain(r) \in Owner
    BY DEF Owner, ScheduleChain
  <2> QED BY <1>1, <2>1 DEF Tidy, Scheduled
<1>4. ASSUME sch.active # None PROVE sch.status[sch.active] = "awaiting_approval"
  <2>1. sch.status[sch.active] \in Unfinished
    BY <1>4, OwnFacts DEF SlotOpen, OwnInv, ActiveOpen, Smooth
  <2>2. sch.status[sch.active] \notin {"validating", "executing"}
    BY <1>1, <1>4 DEF OwnInv, SlotOwned, Holds, Smooth
  <2> QED BY <2>1, <2>2 DEF Unfinished
<1>5. ASSUME sch.active = None
      PROVE  sch.toolCallQueue = <<>> /\ sch.completed = <<>> /\ sch.requestQueue = <<>>
  BY <1>2, <1>5, OwnFacts DEF SlotOpen, Tidy, Worked
<1> QED BY <1>2, <1>3, <1>4, <1>5 DEF NothingStranded

(* Where no handler rejects, no modification fails to rebuild, nobody      *)
(* presses Escape and there is no prompt that an abort could leave on the  *)
(* screen, the scheduler never comes to rest with a flag set, a call not   *)
(* worked on or a request in the queue.                                    *)
THEOREM NothingIsStranded ==
  Spec /\ Smooth => []NothingStranded
<1> SUFFICES ASSUME Smooth PROVE Spec => []NothingStranded
  OBVIOUS
<1>1. Init => OwnInv /\ Tidy
  BY OwnInit, TidyInit
<1>2. OwnInv /\ Tidy /\ [Next]_vars => (OwnInv /\ Tidy)'
  BY OwnNext, TidyNext
<1>3. OwnInv /\ Tidy => NothingStranded
  BY TidyQuiet
<1> QED BY <1>1, <1>2, <1>3, PTL DEF Spec

------------------------------------------------------------------------------
(***************************************************************************)
(* The batches: the calls in the scheduler are those of one request, until *)
(* they are handed over together.                                          *)
(***************************************************************************)
Content(s) == Queued(s) \cup Slot(s) \cup Done(s)

(* The calls stay together, and are handed over at most all at once.       *)
Delivers(s, t) ==
  /\ Content(t) = Content(s)
  /\ \/ t.reports = s.reports /\ t.isFinalizing = s.isFinalizing
     \/ t.isFinalizing /\ t.reports = Append(s.reports, t.completed) /\ Done(t) = Content(s)

LEMMA advanceDelivers ==
  ASSUME NEW s \in Scheduler, NEW t \in Scheduler, NEW o, NEW sig,
         s.active = None, Advances(s, t, o, sig)
  PROVE  Delivers(s, t)
<1>1. Slot(s) = {}
  BY DEF Slot
<1>2. CASE Finishes(s, t, o, sig)
  <2>1. Queued(t) = {} /\ Slot(t) = {} /\ Done(t) = Done(s) \cup Queued(s)
    <3>1. Slot(t) = {}
      BY <1>2 DEF Slot, Finishes
    <3>2. Queued(t) = {}
      BY <1>2, FinishesSets
    <3>3. Done(t) = Done(s) \cup Queued(s)
      BY <1>2, FinishesSets
    <3> QED BY <3>1, <3>2, <3>3
  <2>2. t.isFinalizing /\ t.reports = Append(s.reports, t.completed)
    BY <1>2 DEF Finishes
  <2> QED BY <1>1, <2>1, <2>2 DEF Content, Delivers
<1>3. CASE Takes(s, t, o, sig)
  <2>1. PICK p \in Seq(Calls) :
          /\ s.toolCallQueue = p \o (<<t.active>> \o t.toolCallQueue)
          /\ t.completed = s.completed \o p
    BY <1>3 DEF Takes
  <2>2. t.active \in Calls /\ t.toolCallQueue \in Seq(Calls) /\ s.completed \in Seq(Calls)
    BY <1>3 DEF Takes, Scheduler
  <2>3. PICK h \in Seq(Calls) : h = <<t.active>>
    <3>1. <<t.active>> \in Seq(Calls)
      BY <2>2
    <3> QED BY <3>1
  <2>4. Queued(s) = Range(p) \cup ({t.active} \cup Queued(t))
    <3>0. PICK q \in Seq(Calls) : q = t.toolCallQueue
      BY <2>2
    <3>1. PICK v \in Seq(Calls) : v = h \o q
      BY ConcatProperties
    <3>2. Range(v) = {t.active} \cup Queued(t)
      <4>1. Range(h) = {t.active}
        BY <2>3 DEF Range
      <4>2. Range(v) = Range(h) \cup Range(q)
        BY <3>1, RangeConcatenation
      <4> QED BY <3>0, <4>1, <4>2 DEF Queued
    <3>3. s.toolCallQueue = p \o v
      BY <2>1, <2>3, <3>0, <3>1
    <3>4. Queued(s) = Range(p) \cup Range(v)
      BY <3>3, RangeConcatenation DEF Queued
    <3> QED BY <3>2, <3>4
  <2>5. Done(t) = Done(s) \cup Range(p)
    BY <2>1, <2>2, RangeConcatenation DEF Done
  <2>6. Slot(t) = {t.active}
    BY <2>2, SchedulerAssumption DEF Slot
  <2>7. Content(t) = Content(s)
    BY <1>1, <2>4, <2>5, <2>6 DEF Content
  <2> QED BY <1>3, <2>7 DEF Delivers, Takes
<1>4. CASE Rests(s, t, o, sig)
  BY <1>4 DEF Rests, Delivers, Content, Queued, Slot, Done
<1> QED BY <1>2, <1>3, <1>4 DEF Advances

LEMMA sameDelivers ==
  ASSUME NEW s, NEW t, t.active = s.active, t.toolCallQueue = s.toolCallQueue,
         t.completed = s.completed, t.reports = s.reports, t.isFinalizing = s.isFinalizing
  PROVE  Delivers(s, t)
  BY DEF Delivers, Content, Queued, Slot, Done

LEMMA settlesDelivers ==
  ASSUME NEW s \in Scheduler, NEW t \in Scheduler, NEW o, NEW sig, Settles(s, t, o, sig)
  PROVE  Delivers(s, t)
<1>1. CASE Returns(s, t, o)
  BY <1>1, sameDelivers DEF Returns
<1>2. ASSUME NEW u \in Scheduler, Emptied(s, u), Advances(u, t, o, sig) PROVE Delivers(s, t)
  <2>1. Delivers(u, t)
    BY <1>2, advanceDelivers DEF Emptied
  <2>2. Content(u) = Content(s)
    <3>1. CASE s.active = None
      BY <1>2, <3>1 DEF Emptied, Content, Queued, Slot, Done
    <3>2. CASE s.active # None
      <4>1. s.completed \in Seq(Calls) /\ s.active \in Calls
        BY <3>2 DEF Scheduler
      <4>2. Done(u) = Done(s) \cup {s.active} /\ Queued(u) = Queued(s) /\ Slot(u) = {}
        <5>1. u.completed = Append(s.completed, s.active)
          BY <1>2, <3>2 DEF Emptied
        <5>2. Range(u.completed) = Range(s.completed) \cup {s.active}
          BY <4>1, <5>1, AppendRange
        <5> QED BY <1>2, <5>2 DEF Emptied, Done, Queued, Slot
      <4> QED BY <3>2, <4>2 DEF Content, Slot
    <3> QED BY <3>1, <3>2
  <2> QED BY <1>2, <2>1, <2>2 DEF Delivers, Emptied
<1> QED BY <1>1, <1>2 DEF Settles

LEMMA clearsDelivers ==
  ASSUME NEW s \in Scheduler, NEW t \in Scheduler, NEW o, NEW sig, Clears(s, t, o, sig)
  PROVE  Delivers(s, t)
<1>1. CASE Returns(s, t, o)
  BY <1>1, sameDelivers DEF Returns
<1>2. ASSUME NEW u \in Scheduler, Dropped(s, u), Advances(u, t, o, sig) PROVE Delivers(s, t)
  <2>1. Delivers(u, t)
    BY <1>2, advanceDelivers DEF Dropped
  <2>2. PICK q \in Seq(Calls) : q = s.completed \o s.toolCallQueue /\ Range(q) = Done(s) \cup Queued(s)
    <3>1. s.completed \in Seq(Calls) /\ s.toolCallQueue \in Seq(Calls)
      BY DEF Scheduler
    <3>2. PICK q \in Seq(Calls) : q = s.completed \o s.toolCallQueue
      BY <3>1, ConcatProperties
    <3>3. Range(q) = Done(s) \cup Queued(s)
      BY <3>1, <3>2, RangeConcatenation DEF Done, Queued
    <3> QED BY <3>2, <3>3
  <2>3. Queued(u) = {} /\ Slot(u) = {}
    BY <1>2 DEF Dropped, Queued, Slot, Range
  <2>4. Done(u) = Done(s) \cup Queued(s) \cup Slot(s)
    <3>1. CASE s.active = None
      BY <1>2, <2>2, <3>1 DEF Dropped, Done, Slot
    <3>2. CASE s.active # None
      <4>1. s.active \in Calls /\ u.completed = Append(q, s.active)
        BY <1>2, <2>2, <3>2 DEF Scheduler, Dropped
      <4>2. Range(u.completed) = Range(q) \cup {s.active}
        BY <4>1, AppendRange
      <4> QED BY <2>2, <3>2, <4>2 DEF Done, Slot
    <3> QED BY <3>1, <3>2
  <2>5. Content(u) = Content(s)
    BY <2>3, <2>4 DEF Content
  <2> QED BY <1>2, <2>1, <2>5 DEF Delivers, Dropped
<1> QED BY <1>1, <1>2 DEF Clears

LEMMA WorksDelivers ==
  ASSUME OwnInv, TypeOK', NEW o \in Owner, NEW c \in Calls, NEW sig \in Signals, Works(o, c, sig)
  PROVE  Delivers(sch, sch')
<1>1. sch \in Scheduler /\ sch' \in Scheduler
  BY OwnFacts DEF TypeOK
<1>2. sch.chain[o].call = c /\ sch.chain[o].signal = sig
  BY DEF Works
<1>3. CASE Returns(sch, sch', o) \/ Runs(sch, sch', o, c, sig)
  BY <1>3, sameDelivers DEF Returns, Runs
<1>4. CASE \/ Asks(sch, sch', o, c, sig)
           \/ \E new \in {"awaiting_approval", "error"} : Reopens(sch, sch', o, c, new)
  BY <1>4, sameDelivers DEF Asks, Reopens, Same
<1>5. ASSUME NEW v \in Scheduler, Settles(v, sch', o, sig), v.active = sch.active,
             v.toolCallQueue = sch.toolCallQueue, v.completed = sch.completed,
             v.reports = sch.reports, v.isFinalizing = sch.isFinalizing
      PROVE  Delivers(sch, sch')
  <2>1. Delivers(v, sch')
    BY <1>1, <1>5, settlesDelivers
  <2>2. Content(v) = Content(sch)
    BY <1>5 DEF Content, Queued, Slot, Done
  <2> QED BY <1>5, <2>1, <2>2 DEF Delivers
<1>6. CASE Fails(sch, sch', o)
  <2>1. PICK v \in Scheduler, new \in {"error", "cancelled"} :
          Sets(sch, v, c, new) /\ Settles(v, sch', o, sig)
    BY <1>2, <1>6 DEF Fails
  <2> QED BY <1>5, <2>1 DEF Sets
<1>7. CASE Finished(sch, sch', o)
  <2>1. PICK v \in Scheduler, new \in Terminal : Marks(sch, v, c, new) /\ Settles(v, sch', o, sig)
    BY <1>2, <1>7 DEF Finished
  <2> QED BY <1>5, <2>1 DEF Marks, Same
<1>8. CASE Handles(sch, sch', o, c, sch.chain[o].outcome, sig, TRUE)
  <2>1. CASE Clears(sch, sch', o, sig)
    BY <1>1, <2>1, clearsDelivers
  <2>2. CASE \E w : Answers(sch, sch', o, w)
    BY <2>2, sameDelivers DEF Answers, Same
  <2> QED BY <1>3, <1>8, <2>1, <2>2 DEF Handles, Proceeding
<1> QED BY <1>3, <1>4, <1>6, <1>7, <1>8 DEF Works, Proceeding

(* Of the requests E that entered the scheduler, every report is one, the  *)
(* calls that were not handed over are those of one, and the others have   *)
(* been handed over.                                                       *)
OneBatch(s, E) ==
  /\ \A i \in DOMAIN s.reports : \E r \in E : Range(s.reports[i]) = CallSet(r)
  /\ ~s.isFinalizing /\ Content(s) # {}
       => \E r \in E : Content(s) = CallSet(r) /\ CallSet(r) \cap Handed(s) = {}
  /\ \A r \in E : \/ CallSet(r) \subseteq Handed(s)
                  \/ ~s.isFinalizing /\ Content(s) = CallSet(r)

HandsOver(s, t, r) ==
  /\ t.reports = Append(s.reports, t.completed) /\ Done(t) = CallSet(r)
  /\ CallSet(r) \cap Handed(s) = {}

LEMMA AppendReports ==
  ASSUME NEW s \in Scheduler, NEW t \in Scheduler, t.reports = Append(s.reports, t.completed)
  PROVE  /\ \A i \in DOMAIN t.reports : \/ i \in DOMAIN s.reports /\ t.reports[i] = s.reports[i]
                                        \/ t.reports[i] = t.completed
         /\ Handed(t) = Handed(s) \cup Done(t)
<1>1. s.reports \in Seq(Seq(Calls)) /\ t.completed \in Seq(Calls)
  BY DEF Scheduler
<1>2. \A i \in DOMAIN t.reports : \/ i \in DOMAIN s.reports /\ t.reports[i] = s.reports[i]
                                  \/ t.reports[i] = t.completed
  <2>1. PICK q \in Seq(Calls) : q = t.completed
    BY <1>1
  <2>2. \A i \in DOMAIN Append(s.reports, q) :
          \/ i \in DOMAIN s.reports /\ Append(s.reports, q)[i] = s.reports[i]
          \/ Append(s.reports, q)[i] = q
    BY <1>1
  <2> QED BY <2>1, <2>2
<1>3. Handed(t) = Handed(s) \cup Done(t)
  BY <1>1, HandedAppend
<1> QED BY <1>2, <1>3

LEMMA sameBatch ==
  ASSUME NEW s, NEW t, NEW E, OneBatch(s, E), Content(t) = Content(s),
         t.reports = s.reports, t.isFinalizing = s.isFinalizing
  PROVE  OneBatch(t, E)
<1>1. Handed(t) = Handed(s)
  BY SameHanded
<1> QED BY <1>1 DEF OneBatch

LEMMA deliversBatch ==
  ASSUME NEW s \in Scheduler, NEW t \in Scheduler, NEW E, OneBatch(s, E),
         ~s.isFinalizing, Content(s) # {}, Delivers(s, t)
  PROVE  /\ OneBatch(t, E)
         /\ \/ t.reports = s.reports
            \/ \E r \in E : HandsOver(s, t, r) /\ Content(s) = CallSet(r)
<1>1. CASE t.reports = s.reports /\ t.isFinalizing = s.isFinalizing
  BY <1>1, sameBatch DEF Delivers
<1>2. CASE t.isFinalizing /\ t.reports = Append(s.reports, t.completed) /\ Done(t) = Content(s)
  <2>1. PICK r \in E : Content(s) = CallSet(r) /\ CallSet(r) \cap Handed(s) = {}
    BY DEF OneBatch
  <2>2. /\ \A i \in DOMAIN t.reports : \/ i \in DOMAIN s.reports /\ t.reports[i] = s.reports[i]
                                       \/ t.reports[i] = t.completed
        /\ Handed(t) = Handed(s) \cup Done(t)
    BY <1>2, AppendReports
  <2>3. Range(t.completed) = CallSet(r)
    BY <1>2, <2>1 DEF Done
  <2>4. \A i \in DOMAIN t.reports : \E p \in E : Range(t.reports[i]) = CallSet(p)
    BY <2>2, <2>3 DEF OneBatch
  <2>5. \A p \in E : CallSet(p) \subseteq Handed(t)
    BY <1>2, <2>2 DEF OneBatch
  <2>6. OneBatch(t, E)
    BY <1>2, <2>4, <2>5 DEF OneBatch
  <2>7. HandsOver(s, t, r)
    BY <1>2, <2>1 DEF HandsOver
  <2> QED BY <2>1, <2>6, <2>7
<1> QED BY <1>1, <1>2 DEF Delivers

LEMMA enqueuedBatch ==
  ASSUME NEW s \in Scheduler, NEW u \in Scheduler, NEW r \in Requests, NEW bad,
         Enqueued(s, u, r, bad), NEW E, OneBatch(s, E),
         ~s.isFinalizing, Content(s) = {}, CallSet(r) \cap Handed(s) = {}
  PROVE  /\ OneBatch(u, E \cup {r}) /\ Content(u) = CallSet(r)
         /\ ~u.isFinalizing /\ u.active = None
<1>1. s.active = None /\ Queued(s) = {}
  BY DEF Content, Slot
<1>2. s.toolCallQueue \in Seq(Calls) /\ CallsOf[r] \in Seq(Calls)
  BY SchedulerAssumption DEF Scheduler
<1>3. Queued(u) = Queued(s) \cup CallSet(r)
  BY <1>2, RangeConcatenation DEF Enqueued, Queued, CallSet
<1>4. u.active = None /\ ~u.isFinalizing /\ u.reports = s.reports /\ Done(u) = {}
  BY <1>1 DEF Enqueued, Done, Range
<1>5. Content(u) = CallSet(r)
  BY <1>1, <1>3, <1>4 DEF Content, Slot
<1>6. Handed(u) = Handed(s)
  BY <1>4, SameHanded
<1>7. \A p \in E : CallSet(p) \subseteq Handed(u)
  BY <1>6 DEF OneBatch
<1>8. OneBatch(u, E \cup {r})
  BY <1>4, <1>5, <1>6, <1>7 DEF OneBatch
<1> QED BY <1>4, <1>5, <1>8

LEMMA beginsBatch ==
  ASSUME NEW s \in Scheduler, NEW t \in Scheduler, NEW r \in Requests, Begins(s, t, r),
         NEW E \in SUBSET Requests, OneBatch(s, E), ~s.isFinalizing, Content(s) = {}, TypeOK
  PROVE  /\ OneBatch(t, E \cup {r})
         /\ t.reports = s.reports \/ HandsOver(s, t, r)
         /\ t.requestQueue = s.requestQueue
<1>1. PICK bad \in SUBSET CallSet(r), u \in Scheduler :
        /\ Enqueued(s, u, r, bad)
        /\ IF s.active # None THEN Returns(u, t, ScheduleChain(r))
           ELSE Advances(u, t, ScheduleChain(r), SignalOf[r])
  BY DEF Begins, Enters
<1>2. CallSet(r) \cap Handed(s) = {}
  BY DEF Begins, Placed
<1>3. /\ OneBatch(u, E \cup {r}) /\ Content(u) = CallSet(r)
      /\ ~u.isFinalizing /\ u.active = None /\ s.active = None
      /\ u.reports = s.reports /\ u.requestQueue = s.requestQueue
  <2>1. s.active = None
    BY DEF Content, Slot
  <2>2. OneBatch(u, E \cup {r})
    BY <1>1, <1>2, enqueuedBatch
  <2>3. Content(u) = CallSet(r) /\ ~u.isFinalizing /\ u.active = None
    BY <1>1, <1>2, enqueuedBatch
  <2>4. u.reports = s.reports /\ u.requestQueue = s.requestQueue
    BY <1>1 DEF Enqueued
  <2> QED BY <2>1, <2>2, <2>3, <2>4
<1>4. Advances(u, t, ScheduleChain(r), SignalOf[r])
  BY <1>1, <1>3
<1>5. Delivers(u, t) /\ t.requestQueue = s.requestQueue
  BY <1>3, <1>4, advanceDelivers DEF Advances, SameRest
<1>6. CallSet(r) # {} /\ \A p \in Requests : p # r => CallSet(r) \cap CallSet(p) = {}
  <2>1. CallSet(r) # {}
    BY TakenCalls
  <2>2. ASSUME NEW p \in Requests, p # r PROVE CallSet(r) \cap CallSet(p) = {}
    BY <2>2, DistinctCalls DEF CallSet, Range
  <2> QED BY <2>1, <2>2
<1>7. OneBatch(t, E \cup {r})
  BY <1>3, <1>5, <1>6, deliversBatch
<1>8. t.reports = u.reports \/ \E p \in E \cup {r} : HandsOver(u, t, p) /\ Content(u) = CallSet(p)
  BY <1>3, <1>5, <1>6, deliversBatch
<1>9. ASSUME NEW p \in E \cup {r}, HandsOver(u, t, p), Content(u) = CallSet(p)
      PROVE  HandsOver(s, t, r)
  <2>1. p = r
    BY <1>3, <1>6, <1>9
  <2> QED BY <1>2, <1>3, <1>9, <2>1 DEF HandsOver
<1> QED BY <1>3, <1>5, <1>7, <1>8, <1>9

(* The invariant of the refinement: one batch is in the works, and at most *)
(* one request is neither rejected nor handed over.                        *)
BatchInv ==
  /\ OneBatch(sch, Entered)
  /\ IsInjective(sent)
  /\ \A p, q \in Range(sent) : Settled(p) \/ Settled(q) \/ p = q

(* What a step does to the batches: nothing;                               *)
Undisturbed == UNCHANGED <<sent, rejected>> /\ sch'.reports = sch.reports
(* the pending request is handed over;                                     *)
HandedOver(r) ==
  /\ UNCHANGED <<sent, rejected>> /\ r \in Range(sent) /\ ~Settled(r)
  /\ HandsOver(sch, sch', r)
(* a request is made, and is pending or handed over at once;               *)
Requested(r) ==
  /\ sent' = Append(sent, r) /\ rejected' = rejected
  /\ r \notin Range(sent) /\ r \notin rejected /\ CallSet(r) \cap Handed(sch) = {}
  /\ \A p \in Range(sent) : Settled(p)
  /\ sch'.reports = sch.reports \/ HandsOver(sch, sch', r)
(* or queued requests are taken back.                                      *)
TakenBack(R) ==
  /\ sent' = sent /\ sch'.reports = sch.reports
  /\ R \subseteq Range(sch.requestQueue) /\ rejected' = rejected \cup R

BatchStep ==
  /\ OneBatch(sch', Entered')
  /\ \/ Undisturbed
     \/ \E r \in Requests : HandedOver(r) \/ Requested(r)
     \/ \E R \in SUBSET Requests : TakenBack(R)

LEMMA EnteredUnsettled ==
  ASSUME TypeOK, NEW r \in Requests, CallSet(r) \cap Handed(sch) = {}
  PROVE  r \notin rejected => ~Settled(r)
<1>1. CallSet(r) # {}
  BY TakenCalls
<1> QED BY <1>1, SettledHanded

(* Without Overlap nothing is left in the scheduler when the client makes  *)
(* a request, but for the batch its handler has just been given.           *)
LEMMA ScheduleBatch ==
  ASSUME OwnInv, OwnInv', Tidy, BatchInv, ~Overlap, NEW r \in Requests, Schedule(r)
  PROVE  BatchStep
<1>1. sch \in Scheduler /\ sch' \in Scheduler /\ PlaceInv /\ TypeOK /\ TypeOK'
  BY OwnFacts DEF OwnInv, QueueInv, PlaceInv, TypeOK
<1>2. /\ sent' = Append(sent, r) /\ rejected' = rejected /\ r \notin Range(sent) /\ Ready
      /\ sent \in Seq(Requests)
  BY <1>1 DEF Schedule, TypeOK
<1>3. Range(sent') = Range(sent) \cup {r}
  BY <1>2, AppendRange
<1>4. /\ \A p \in Range(sent) : Settled(p)
      /\ sch.active = None /\ Slot(sch) = {} /\ Queued(sch) = {}
  BY <1>1, <1>2, ReadyEmpty
<1>5. r \notin rejected /\ r \notin Entered /\ r \notin Range(sch.requestQueue)
  BY <1>1, <1>2 DEF PlaceInv, RequestsKept, Entered
<1>6. CallSet(r) \cap Handed(sch) = {}
  <2>1. CallSet(r) \cap Taken = {} /\ Handed(sch) \subseteq Taken
    BY <1>1, <1>5, TakenCalls DEF PlaceInv, Placed
  <2> QED BY <2>1
<1>7. CASE Queues(r)
  <2>1. /\ sch'.reports = sch.reports /\ Content(sch') = Content(sch)
        /\ sch'.isFinalizing = sch.isFinalizing
        /\ sch'.requestQueue = Append(sch.requestQueue, r)
    BY <1>1, <1>7 DEF Queues, Scheduler, Content, Queued, Slot, Done
  <2>2. Range(sch'.requestQueue) = Range(sch.requestQueue) \cup {r}
    <3>1. sch.requestQueue \in Seq(Requests)
      BY <1>1 DEF Scheduler
    <3> QED BY <2>1, <3>1, AppendRange
  <2>3. Entered' = Entered
    BY <1>2, <1>3, <1>5, <2>2 DEF Entered
  <2>4. OneBatch(sch', Entered')
    BY <2>1, <2>3, sameBatch DEF BatchInv
  <2>5. Requested(r)
    BY <1>2, <1>4, <1>5, <1>6, <2>1 DEF Requested
  <2> QED BY <2>4, <2>5 DEF BatchStep
<1>8. CASE Scheduling(r)
  <2>1. ~sch.isFinalizing /\ Begins(sch, sch', r)
    BY <1>8 DEF Scheduling, isRunning
  <2>2. Content(sch) = {}
    <3>1. sch.completed = <<>>
      BY <1>4, <2>1 DEF Tidy, Worked
    <3> QED BY <1>4, <3>1 DEF Content, Done, Range
  <2>3. Entered \in SUBSET Requests
    BY <1>1, TakenCalls
  <2>4. OneBatch(sch', Entered \cup {r})
    BY <1>1, <2>1, <2>2, <2>3, beginsBatch DEF BatchInv
  <2>5. sch'.reports = sch.reports \/ HandsOver(sch, sch', r)
    BY <1>1, <2>1, <2>2, <2>3, beginsBatch DEF BatchInv
  <2>6. sch'.requestQueue = sch.requestQueue
    BY <1>1, <2>1, <2>2, <2>3, beginsBatch DEF BatchInv
  <2>7. Entered' = Entered \cup {r}
    BY <1>2, <1>3, <1>5, <2>6 DEF Entered
  <2>8. Requested(r)
    BY <1>2, <1>4, <1>5, <1>6, <2>5 DEF Requested
  <2> QED BY <2>4, <2>7, <2>8 DEF BatchStep
<1> QED BY <1>1, <1>7, <1>8, ScheduleKinds

LEMMA AbortBatch ==
  ASSUME OwnInv, BatchInv, NEW sig \in Signals, Abort(sig)
  PROVE  BatchStep
<1>1. sch \in Scheduler /\ PlaceInv
  BY OwnFacts
<1>2. sch' = abort(sch, sig) /\ sent' = sent /\ rejected' = rejected \cup dropped(sch, sig)
  BY DEF Abort
<1>3. Aborts(sch, sch', sig)
  BY <1>1, <1>2, abortSteps
<1>4. Range(sch'.requestQueue) = Range(sch.requestQueue) \ dropped(sch, sig)
  BY <1>1, <1>2, abortSteps
<1>5. /\ sch'.reports = sch.reports /\ sch'.isFinalizing = sch.isFinalizing
      /\ Content(sch') = Content(sch)
  BY <1>3 DEF Aborts, Content, Queued, Slot, Done
<1>6. dropped(sch, sig) \subseteq Range(sch.requestQueue) /\ dropped(sch, sig) \in SUBSET Requests
  BY <1>1, RangeOfSeq DEF dropped, Scheduler
<1>7. Entered' = Entered
  BY <1>2, <1>4, <1>6 DEF Entered
<1>8. OneBatch(sch', Entered')
  BY <1>5, <1>7, sameBatch DEF BatchInv
<1>9. TakenBack(dropped(sch, sig))
  BY <1>2, <1>5, <1>6 DEF TakenBack
<1> QED BY <1>6, <1>8, <1>9 DEF BatchStep

LEMMA RespondBatch ==
  ASSUME OwnInv, TypeOK', Tidy, Smooth, BatchInv, NEW o \in Answerer, NEW outcome \in Outcomes,
         UserResponds(o, outcome) \/ IdeResponds(o, outcome)
  PROVE  BatchStep
<1>1. PICK c \in Calls, sig \in Signals : o \in Owner /\ Responds(o, c, sig, outcome)
  BY RespondsSteps
<1>2. Answers(sch, sch', o, Waiting("confirming", c, sig, outcome))
  BY <1>1, RespondsWorked DEF Tidy
<1>3. Same(sch, sch')
  BY <1>2 DEF Answers
<1>4. UNCHANGED <<sent, rejected>>
  BY DEF UserResponds, IdeResponds, Respond
<1>5. Content(sch') = Content(sch)
  BY <1>3 DEF Same, Content, Queued, Slot, Done
<1>6. Entered' = Entered
  BY <1>3, <1>4 DEF Entered, Same
<1>7. OneBatch(sch', Entered')
  BY <1>3, <1>5, <1>6, sameBatch DEF Same, BatchInv
<1>8. Undisturbed
  BY <1>3, <1>4 DEF Same, Undisturbed
<1> QED BY <1>7, <1>8 DEF BatchStep

LEMMA ContinuesBatch ==
  ASSUME OwnInv, TypeOK', Tidy, Smooth, BatchInv, NEW o \in Owner, Continues(o)
  PROVE  BatchStep
<1>1. sch \in Scheduler /\ sch' \in Scheduler /\ PlaceInv /\ TypeOK
  BY OwnFacts DEF TypeOK
<1>2. Moves(sch, sch', o) /\ UNCHANGED <<sent, rejected>>
  BY <1>1, ContinuesMoves
<1>3. Entered' = Entered
  BY <1>2 DEF Entered, Moves
<1>4. CASE Ends(o)
  <2>1. sch' = [sch EXCEPT !.isScheduling = FALSE, !.chain[o] = Idle]
    BY <1>4 DEF Ends, Smooth
  <2>2. /\ sch'.reports = sch.reports /\ sch'.isFinalizing = sch.isFinalizing
        /\ Content(sch') = Content(sch)
    BY <1>1, <2>1 DEF Scheduler, Content, Queued, Slot, Done
  <2>3. OneBatch(sch', Entered')
    BY <1>3, <2>2, sameBatch DEF BatchInv
  <2> QED BY <1>2, <2>2, <2>3 DEF BatchStep, Undisturbed
<1>5. ASSUME NEW c \in Calls, NEW sig \in Signals, Works(o, c, sig) PROVE BatchStep
  <2>1. ~sch.isFinalizing /\ sch.active # None
    BY <1>5, WorkingAlone DEF Works, Tidy
  <2>2. Content(sch) # {}
    BY <2>1 DEF Content, Slot
  <2>3. Delivers(sch, sch')
    BY <1>5, WorksDelivers
  <2>4. OneBatch(sch', Entered)
    BY <1>1, <2>1, <2>2, <2>3, deliversBatch DEF BatchInv
  <2>5. sch'.reports = sch.reports \/ \E r \in Entered : HandsOver(sch, sch', r)
    BY <1>1, <2>1, <2>2, <2>3, deliversBatch DEF BatchInv
  <2>6. ASSUME NEW r \in Entered, HandsOver(sch, sch', r) PROVE r \in Requests /\ HandedOver(r)
    <3>1. r \in Requests /\ r \in Range(sent) /\ r \notin rejected
      <4>1. sent \in Seq(Requests)
        BY <1>1 DEF TypeOK
      <4>2. Range(sent) \subseteq Requests
        BY <4>1, RangeOfSeq
      <4> QED BY <4>2 DEF Entered
    <3>2. ~Settled(r)
      BY <1>1, <2>6, <3>1, EnteredUnsettled DEF HandsOver
    <3> QED BY <1>2, <2>6, <3>1, <3>2 DEF HandedOver
  <2>7. CASE sch'.reports = sch.reports
    BY <1>2, <1>3, <2>4, <2>7 DEF BatchStep, Undisturbed
  <2> QED BY <1>3, <2>4, <2>5, <2>6, <2>7 DEF BatchStep
<1> QED BY <1>4, <1>5, ContinuesSteps

LEMMA HandlerBatch ==
  ASSUME OwnInv, TypeOK', Tidy, BatchInv, NEW o \in Owner, HandlerReturns(o)
  PROVE  BatchStep
<1>1. sch \in Scheduler /\ sch' \in Scheduler /\ PlaceInv /\ TypeOK
  BY OwnFacts DEF TypeOK
<1>2. sch.chain[o].at = "finalizing" /\ sch.isFinalizing
  BY DEF HandlerReturns, Now, Tidy, Worked, Resting
<1>3. sent' = sent
  BY DEF HandlerReturns
<1>4. \A r \in Entered : CallSet(r) \subseteq Handed(sch)
  BY <1>2 DEF BatchInv, OneBatch
<1>5. ASSUME NEW u \in Scheduler, Resets(sch, u, o)
      PROVE  /\ u.active = None /\ ~u.isFinalizing /\ Content(u) = {}
             /\ u.reports = sch.reports /\ OneBatch(u, Entered)
  <2>1. u.active = None /\ ~u.isFinalizing /\ u.completed = <<>>
    BY <1>1, <1>2, <1>5, nextWorked DEF Tidy
  <2>2. sch.active = None /\ sch.toolCallQueue = <<>>
    BY <1>1, <1>5, <2>1 DEF PlaceInv, SlotOpen, Resets
  <2>3. u.toolCallQueue = <<>> /\ u.reports = sch.reports
    BY <1>5, <2>2 DEF Resets
  <2>4. Content(u) = {}
    BY <2>1, <2>3 DEF Content, Queued, Slot, Done, Range
  <2>5. Handed(u) = Handed(sch)
    BY <2>3, SameHanded
  <2>6. OneBatch(u, Entered)
    BY <1>4, <2>3, <2>4, <2>5 DEF OneBatch, BatchInv
  <2> QED BY <2>1, <2>3, <2>4, <2>6
<1>6. rejected' = rejected
  <2>1. CASE UNCHANGED rejected
    BY <2>1
  <2>2. PICK s \in Scheduler :
          s = Return([sch EXCEPT !.completed = <<>>, !.isFinalizing = FALSE,
                                 !.isCancelling = FALSE], o)
    <3>1. <<>> \in Seq(Calls)
      OBVIOUS
    <3>2. [sch EXCEPT !.completed = <<>>, !.isFinalizing = FALSE, !.isCancelling = FALSE]
            \in Scheduler
      BY <1>1, <3>1 DEF Scheduler
    <3>3. PICK v \in Scheduler : v = [sch EXCEPT !.completed = <<>>, !.isFinalizing = FALSE,
                                                 !.isCancelling = FALSE]
      BY <3>2
    <3> QED BY <3>3, ReturnType
  <2>3. sch.active = None
    BY <1>2 DEF Tidy, Worked, Resting
  <2>4. s.active = None /\ ~s.isFinalizing
    BY <1>1, <2>2, <2>3 DEF Return, Scheduler
  <2>5. ~isRunning(s)
    BY <2>4 DEF isRunning
  <2> QED BY <2>2, <2>5 DEF HandlerReturns
<1>7. CASE NoBatch(o)
  <2>1. sch'.reports = sch.reports /\ OneBatch(sch', Entered)
    BY <1>1, <1>5, <1>7 DEF NoBatch
  <2>2. Entered' = Entered
    BY <1>3, <1>6, <1>7 DEF NoBatch, Entered
  <2> QED BY <1>3, <1>6, <2>1, <2>2 DEF BatchStep, Undisturbed
<1>8. ASSUME NEW u \in Scheduler, NEW r \in Requests, NextBatch(o, u, r) PROVE BatchStep
  <2>1. /\ u.active = None /\ ~u.isFinalizing /\ Content(u) = {}
        /\ u.reports = sch.reports /\ OneBatch(u, Entered)
    BY <1>5, <1>8 DEF NextBatch
  <2>2. Begins(u, sch', r)
    BY <1>8, <2>1 DEF NextBatch, isRunning
  <2>3. Entered \in SUBSET Requests
    BY <1>1, TakenCalls
  <2>4. OneBatch(sch', Entered \cup {r})
    BY <1>1, <2>1, <2>2, <2>3, beginsBatch
  <2>5. u.reports = sch'.reports \/ HandsOver(u, sch', r)
    BY <1>1, <2>1, <2>2, <2>3, beginsBatch
  <2>6. sch'.requestQueue = u.requestQueue
    BY <1>1, <2>1, <2>2, <2>3, beginsBatch
  <2>7. /\ Range(sch.requestQueue) = {r} \cup Range(sch'.requestQueue)
        /\ r \notin Range(sch'.requestQueue)
    <3>1. sch.requestQueue \in Seq(Requests) /\ IsInjective(sch.requestQueue)
      BY <1>1 DEF PlaceInv, RequestsKept, Scheduler
    <3>2. /\ sch.requestQueue # <<>> /\ r = Head(sch.requestQueue)
          /\ sch'.requestQueue = Tail(sch.requestQueue)
      BY <1>8, <2>6 DEF NextBatch
    <3> QED BY <3>1, <3>2, HeadRemoved
  <2>8. r \in Range(sent) /\ r \notin rejected
    BY <1>1, <2>7 DEF PlaceInv, RequestsKept
  <2>9. Entered' = Entered \cup {r}
    BY <1>3, <1>6, <2>7, <2>8 DEF Entered
  <2>10. CASE u.reports = sch'.reports
    BY <1>3, <1>6, <2>1, <2>4, <2>9, <2>10 DEF BatchStep, Undisturbed
  <2>11. CASE HandsOver(u, sch', r)
    <3>1. HandsOver(sch, sch', r)
      BY <2>1, <2>11, SameHanded DEF HandsOver
    <3>2. ~Settled(r)
      BY <1>1, <2>8, <3>1, EnteredUnsettled DEF HandsOver
    <3>3. HandedOver(r)
      BY <1>3, <1>6, <2>8, <3>1, <3>2 DEF HandedOver
    <3> QED BY <2>4, <2>9, <3>3 DEF BatchStep
  <2> QED BY <2>5, <2>10, <2>11
<1> QED BY <1>7, <1>8, HandlerKinds

LEMMA BatchInit == Init => BatchInv
<1> SUFFICES ASSUME Init PROVE BatchInv
  OBVIOUS
<1>1. sent = <<>> /\ Entered = {}
  BY DEF Init, Entered, Range
<1>2. Content(sch) = {} /\ sch.reports = <<>>
  BY DEF Init, Content, Queued, Slot, Done, Range
<1>3. OneBatch(sch, Entered)
  BY <1>1, <1>2 DEF OneBatch
<1> QED BY <1>1, <1>3 DEF BatchInv, IsInjective, Range

LEMMA NextBatchStep ==
  ASSUME OwnInv, Tidy, BatchInv, Smooth, ~Overlap, [Next]_vars
  PROVE  BatchStep
<1>1. OwnInv' /\ TypeOK'
  BY OwnNext, OwnFacts DEF OwnInv, QueueInv, PlaceInv
<1>2. CASE UNCHANGED <<sch, sent, rejected>>
  <2>1. Entered' = Entered /\ sch' = sch
    BY <1>2 DEF Entered
  <2> QED BY <1>2, <2>1 DEF BatchInv, BatchStep, Undisturbed
<1>3. ASSUME NEW r \in Requests, Schedule(r) PROVE BatchStep
  BY <1>1, <1>3, ScheduleBatch
<1>4. ASSUME NEW sig \in Signals, Abort(sig) \/ Escape(sig) PROVE BatchStep
  BY <1>4, AbortBatch DEF Escape, Smooth
<1>5. ASSUME NEW o \in Answerer, NEW outcome \in Outcomes,
             UserResponds(o, outcome) \/ IdeResponds(o, outcome)
      PROVE  BatchStep
  BY <1>1, <1>5, RespondBatch
<1>6. ASSUME NEW o \in Owner, Resume(o) PROVE BatchStep
  <2>1. CASE HandlerReturns(o)
    BY <1>1, <2>1, HandlerBatch
  <2>2. CASE Continues(o)
    BY <1>1, <2>2, ContinuesBatch
  <2> QED BY <1>6, <2>1, <2>2 DEF Resume, Continues
<1> QED BY <1>2, <1>3, <1>4, <1>5, <1>6 DEF Next, vars, NewTurn

LEMMA HandsOverHanded ==
  ASSUME sch \in Scheduler, sch' \in Scheduler, NEW r, HandsOver(sch, sch', r)
  PROVE  Handed(sch') = Handed(sch) \cup CallSet(r)
<1>1. PICK t \in Scheduler : t = sch'
  OBVIOUS
<1>2. t.completed \in Seq(Calls)
  BY DEF Scheduler
<1>3. Handed(t) = Handed(sch) \cup Done(t)
  BY <1>1, <1>2, HandedAppend DEF HandsOver
<1> QED BY <1>1, <1>3 DEF HandsOver

LEMMA BatchStepKeeps ==
  ASSUME sch \in Scheduler, sch' \in Scheduler, BatchStep
  PROVE  /\ rejected \subseteq rejected' /\ Handed(sch) \subseteq Handed(sch')
         /\ \A p : Settled(p) => Settled(p)'
<1>1. rejected \subseteq rejected'
  BY DEF BatchStep, Undisturbed, HandedOver, Requested, TakenBack
<1>2. Handed(sch) \subseteq Handed(sch')
  <2>1. CASE sch'.reports = sch.reports
    BY <2>1, SameHanded
  <2>2. ASSUME NEW r \in Requests, HandsOver(sch, sch', r) PROVE Handed(sch) \subseteq Handed(sch')
    BY <2>2, HandsOverHanded
  <2> QED BY <2>1, <2>2 DEF BatchStep, Undisturbed, HandedOver, Requested, TakenBack
<1> QED BY <1>1, <1>2, StaysSettled

LEMMA BatchInvNext ==
  ASSUME OwnInv, OwnInv', BatchInv, BatchStep
  PROVE  BatchInv'
<1>1. sch \in Scheduler /\ sch' \in Scheduler /\ sent \in Seq(Requests)
  BY OwnFacts DEF OwnInv, QueueInv, PlaceInv, TypeOK
<1>2. \A p : Settled(p) => Settled(p)'
  BY <1>1, BatchStepKeeps
<1>3. CASE sent' = sent
  <2>1. \A p, q \in Range(sent') : Settled(p)' \/ Settled(q)' \/ p = q
    BY <1>2, <1>3 DEF BatchInv
  <2> QED BY <1>3, <2>1 DEF BatchInv, BatchStep
<1>4. ASSUME NEW r \in Requests, Requested(r) PROVE BatchInv'
  <2>1. /\ sent' = Append(sent, r) /\ r \notin Range(sent)
        /\ \A p \in Range(sent) : Settled(p)
    BY <1>4 DEF Requested
  <2>2. Range(sent') = Range(sent) \cup {r}
    BY <1>1, <2>1, AppendRange
  <2>3. IsInjective(sent')
    BY <1>1, <2>1, AppendElements DEF BatchInv
  <2>4. \A p, q \in Range(sent') : Settled(p)' \/ Settled(q)' \/ p = q
    BY <1>2, <2>1, <2>2
  <2> QED BY <2>3, <2>4 DEF BatchInv, BatchStep
<1> QED BY <1>3, <1>4 DEF BatchStep, Undisturbed, HandedOver, TakenBack

(* The requests that are neither rejected nor handed over.                 *)
Unsettled == {r \in Requests : ~Settled(r)}

(* Of a sequence at most one of whose elements is in U, a filter by U      *)
(* keeps that one.                                                         *)
LEMMA KeepOne ==
  ASSUME NEW q \in Seq(Requests), IsInjective(q), NEW U,
         \A p, r \in Range(q) : p \notin U \/ r \notin U \/ p = r
  PROVE  /\ Range(q) \cap U = {} => Keep(q, U) = <<>>
         /\ \A r \in Range(q) \cap U : Keep(q, U) = <<r>>
<1>1. PICK k \in Seq(Requests) : k = Keep(q, U)
  BY KeepType
<1>2. Range(k) = Range(q) \cap U /\ IsInjective(k)
  BY <1>1, KeepElements
<1>3. Range(k) = {} => k = <<>>
  BY EmptyRange
<1>4. ASSUME NEW r \in Range(q) \cap U PROVE k = <<r>>
  <2>1. Range(k) = {r}
    BY <1>2, <1>4
  <2> QED BY <1>2, <2>1, OneInRange
<1> QED BY <1>1, <1>2, <1>3, <1>4

LEMMA PendingOne ==
  ASSUME PlaceInv, BatchInv
  PROVE  /\ Range(sent) \cap Unsettled = {} => pendingBatches = <<>>
         /\ \A r \in Range(sent) \cap Unsettled : pendingBatches = <<r>>
<1>1. sent \in Seq(Requests) /\ IsInjective(sent)
  BY DEF PlaceInv, TypeOK, BatchInv
<1>2. \A p, r \in Range(sent) : p \notin Unsettled \/ r \notin Unsettled \/ p = r
  BY DEF BatchInv, Unsettled
<1>3. pendingBatches = Keep(sent, Unsettled)
  BY DEF pendingBatches, Unsettled
<1>4. Range(sent) \cap Unsettled = {} => Keep(sent, Unsettled) = <<>>
  BY <1>1, <1>2, KeepOne
<1>5. \A r \in Range(sent) \cap Unsettled : Keep(sent, Unsettled) = <<r>>
  BY <1>1, <1>2, KeepOne
<1> QED BY <1>3, <1>4, <1>5

LEMMA PendingNext ==
  ASSUME PlaceInv', BatchInv'
  PROVE  /\ Range(sent') \cap Unsettled' = {} => pendingBatches' = <<>>
         /\ \A r \in Range(sent') \cap Unsettled' : pendingBatches' = <<r>>
<1>1. sent' \in Seq(Requests) /\ IsInjective(sent')
  BY DEF PlaceInv, TypeOK, BatchInv
<1>2. \A p, r \in Range(sent') : p \notin Unsettled' \/ r \notin Unsettled' \/ p = r
  BY DEF BatchInv, Unsettled
<1>3. pendingBatches' = Keep(sent', Unsettled')
  BY DEF pendingBatches, Unsettled
<1>4. PICK q \in Seq(Requests) : q = sent'
  BY <1>1
<1>5. PICK U : U = Unsettled'
  OBVIOUS
<1>6. Range(q) \cap U = {} => Keep(q, U) = <<>>
  BY <1>1, <1>2, <1>4, <1>5, KeepOne
<1>7. \A r \in Range(q) \cap U : Keep(q, U) = <<r>>
  BY <1>1, <1>2, <1>4, <1>5, KeepOne
<1> QED BY <1>3, <1>4, <1>5, <1>6, <1>7

(* The reports that were made keep their results.                          *)
LEMMA RequestOfBatch ==
  ASSUME NEW r \in Requests, NEW b, Range(b) = CallSet(r), TypeOK
  PROVE  RequestOf(b) = r
<1>1. CallSet(r) # {}
  BY TakenCalls
<1>2. ASSUME NEW p \in Requests, p # r PROVE CallSet(r) \cap CallSet(p) = {}
  BY <1>2, DistinctCalls DEF CallSet, Range
<1> QED BY <1>1, <1>2 DEF RequestOf

LEMMA DeliveredSame ==
  ASSUME OwnInv, Keeps(sch, sch'), sch'.reports = sch.reports
  PROVE  deliveredBatches' = deliveredBatches
<1>1. Placed(sch, Taken) /\ sch \in Scheduler
  BY OwnFacts
<1>2. \A i \in DOMAIN sch.reports : \A c \in Range(sch.reports[i]) : sch'.status[c] = sch.status[c]
  <2>1. ASSUME NEW i \in DOMAIN sch.reports, NEW c \in Range(sch.reports[i])
        PROVE  sch'.status[c] = sch.status[c]
    <3>1. c \in Handed(sch) /\ c \in Calls
      <4>1. sch.reports[i] \in Seq(Calls)
        BY <1>1 DEF Scheduler
      <4> QED BY <2>1, <4>1, RangeOfSeq DEF Handed
    <3>2. sch.status[c] \in Terminal
      BY <1>1, <3>1 DEF Placed
    <3> QED BY <3>1, <3>2 DEF Keeps
  <2> QED BY <2>1
<1>3. \A i \in DOMAIN sch.reports :
        [c \in Range(sch'.reports[i]) |-> sch'.status[c]]
          = [c \in Range(sch.reports[i]) |-> sch.status[c]]
  BY <1>2
<1> QED BY <1>3 DEF deliveredBatches

Report(r, result) == [request |-> r, result |-> result]

LEMMA DeliveredMore ==
  ASSUME OwnInv, OwnInv', Keeps(sch, sch'), NEW r \in Requests, HandsOver(sch, sch', r)
  PROVE  \E result \in [CallSet(r) -> Terminal] :
           deliveredBatches' = Append(deliveredBatches, Report(r, result))
<1>1. /\ Placed(sch, Taken) /\ sch \in Scheduler /\ sch' \in Scheduler
      /\ TypeOK /\ Placed(sch', Taken')
  BY OwnFacts DEF OwnInv, QueueInv, PlaceInv, TypeOK
<1>2. /\ sch.reports \in Seq(Seq(Calls)) /\ sch'.completed \in Seq(Calls)
      /\ sch'.reports = Append(sch.reports, sch'.completed) /\ Range(sch'.completed) = CallSet(r)
  BY <1>1 DEF HandsOver, Scheduler, Done
<1>3. PICK n \in Nat : n = Len(sch.reports)
  BY <1>2
<1>4. /\ DOMAIN sch.reports = 1..n /\ DOMAIN sch'.reports = 1..(n + 1)
      /\ sch'.reports[n + 1] = sch'.completed
      /\ \A i \in 1..n : sch'.reports[i] = sch.reports[i]
  BY <1>2, <1>3
<1>5. PICK result : result = [c \in CallSet(r) |-> sch'.status[c]]
  OBVIOUS
<1>6. result \in [CallSet(r) -> Terminal]
  <2>1. CallSet(r) \subseteq Calls
    BY <1>1, TakenCalls
  <2>2. \A c \in CallSet(r) : sch'.status[c] \in Terminal
    BY <1>1, <1>2, <2>1 DEF Placed, Done
  <2> QED BY <1>5, <2>2
<1>7. deliveredBatches = [i \in 1..n |-> Report(RequestOf(sch.reports[i]),
                                           [c \in Range(sch.reports[i]) |-> sch.status[c]])]
  BY <1>4 DEF deliveredBatches, Report
<1>8. \A i \in 1..n : [c \in Range(sch.reports[i]) |-> sch'.status[c]]
                        = [c \in Range(sch.reports[i]) |-> sch.status[c]]
  <2>1. ASSUME NEW i \in 1..n, NEW c \in Range(sch.reports[i])
        PROVE  sch'.status[c] = sch.status[c]
    <3>1. c \in Handed(sch) /\ c \in Calls
      <4>1. sch.reports[i] \in Seq(Calls)
        BY <1>2, <1>4
      <4> QED BY <1>4, <2>1, <4>1, RangeOfSeq DEF Handed
    <3>2. sch.status[c] \in Terminal
      BY <1>1, <3>1 DEF Placed
    <3> QED BY <3>1, <3>2 DEF Keeps
  <2> QED BY <2>1
<1>9. \A i \in 1..n :
        Report(RequestOf(sch'.reports[i]), [c \in Range(sch'.reports[i]) |-> sch'.status[c]])
          = deliveredBatches[i]
  BY <1>4, <1>7, <1>8
<1>10. Report(RequestOf(sch'.reports[n + 1]),
              [c \in Range(sch'.reports[n + 1]) |-> sch'.status[c]]) = Report(r, result)
  BY <1>1, <1>2, <1>4, <1>5, RequestOfBatch
<1>11. deliveredBatches' = [i \in 1..(n + 1) |->
          Report(RequestOf(sch'.reports[i]), [c \in Range(sch'.reports[i]) |-> sch'.status[c]])]
  BY <1>4 DEF deliveredBatches, Report
<1>12. PICK d : d = deliveredBatches /\ d = [i \in 1..n |-> d[i]]
  BY <1>7
<1>13. deliveredBatches' = [i \in 1..(n + 1) |-> IF i = n + 1 THEN Report(r, result) ELSE d[i]]
  BY <1>9, <1>10, <1>11, <1>12
<1>14. Append(d, Report(r, result))
         = [i \in 1..(n + 1) |-> IF i = n + 1 THEN Report(r, result) ELSE d[i]]
  <2>1. PICK S : S = {d[i] : i \in 1..n} \cup {Report(r, result)}
    OBVIOUS
  <2>2. d \in Seq(S) /\ Len(d) = n /\ Report(r, result) \in S
    <3>1. DOMAIN d = 1..n
      BY <1>12
    <3>2. \A i \in 1..n : d[i] \in S
      BY <2>1
    <3>3. d = [i \in 1..n |-> d[i]]
      BY <1>12
    <3>4. d \in [1..n -> S]
      BY <3>1, <3>2, <3>3
    <3>5. d \in Seq(S)
      BY <1>3, <3>4
    <3>6. Len(d) = n
      BY <1>3, <3>1, <3>5
    <3>7. Report(r, result) \in S
      BY <2>1
    <3> QED BY <3>5, <3>6, <3>7
  <2>3. PICK x \in S : x = Report(r, result)
    BY <2>2
  <2>4. PICK a : a = Append(d, x)
    OBVIOUS
  <2>5. /\ a \in Seq(S) /\ Len(a) = n + 1
        /\ \A i \in 1..n : a[i] = d[i]
        /\ a[n + 1] = x
    <3>1. d \in Seq(S) /\ x \in S
      BY <2>2, <2>3
    <3>2. /\ Append(d, x) \in Seq(S) /\ Len(Append(d, x)) = Len(d) + 1
          /\ \A i \in 1..Len(d) : Append(d, x)[i] = d[i]
          /\ Append(d, x)[Len(d) + 1] = x
      BY <3>1, AppendProperties
    <3> QED BY <2>2, <2>4, <3>2
  <2>6. a = [i \in 1..(n + 1) |-> a[i]]
    <3>1. a = [i \in 1..Len(a) |-> a[i]]
      BY <2>5
    <3> QED BY <2>5, <3>1
  <2>7. a = [i \in 1..(n + 1) |-> IF i = n + 1 THEN x ELSE d[i]]
    <3>1. \A i \in 1..(n + 1) : a[i] = IF i = n + 1 THEN x ELSE d[i]
      <4>1. \A i \in 1..(n + 1) : i = n + 1 \/ i \in 1..n
        BY <1>3
      <4> QED BY <2>5, <4>1
    <3> QED BY <2>6, <3>1
  <2> QED BY <2>3, <2>4, <2>7
<1> QED BY <1>6, <1>12, <1>13, <1>14

(* Whose batches were delivered.                                           *)
LEMMA DeliveredEntered ==
  ASSUME OwnInv, BatchInv, NEW i \in DOMAIN deliveredBatches
  PROVE  deliveredBatches[i].request \in Entered
<1>1. TypeOK /\ Entered \subseteq Requests
  <2>1. TypeOK /\ sent \in Seq(Requests)
    BY OwnFacts DEF PlaceInv, TypeOK
  <2>2. Range(sent) \subseteq Requests
    BY <2>1, RangeOfSeq
  <2> QED BY <2>1, <2>2 DEF Entered
<1>2. i \in DOMAIN sch.reports /\ deliveredBatches[i].request = RequestOf(sch.reports[i])
  BY DEF deliveredBatches
<1>3. PICK r \in Entered : Range(sch.reports[i]) = CallSet(r)
  BY <1>2 DEF BatchInv, OneBatch
<1>4. RequestOf(sch.reports[i]) = r
  BY <1>1, <1>3, RequestOfBatch
<1> QED BY <1>2, <1>3, <1>4

LEMMA BatchesCalls ==
  ASSUME NEW r
  PROVE  Batches!CallsIn(r) = CallSet(r) /\ Batches!Results = Terminal
  BY DEF Batches!CallsIn, CallSet, Batches!Results, Terminal, Batches!Range, Range

(* A step as ToolBatches sees it.                                          *)
BatchesStep == Batches!Next \/ UNCHANGED <<pendingBatches, deliveredBatches>>

LEMMA UndisturbedBatches ==
  ASSUME OwnInv, OwnInv', Keeps(sch, sch'), Undisturbed
  PROVE  BatchesStep
<1>1. deliveredBatches' = deliveredBatches
  BY DeliveredSame DEF Undisturbed
<1>2. \A r : Settled(r)' <=> Settled(r)
  BY DEF Undisturbed, Settled, Reported
<1>3. pendingBatches' = pendingBatches
  <2>1. {r \in Requests : ~Settled(r)}' = {r \in Requests : ~Settled(r)}
    BY <1>2
  <2> QED BY <2>1 DEF pendingBatches, Undisturbed
<1> QED BY <1>1, <1>3 DEF BatchesStep

(* The pending request is handed over: Deliver.                            *)
LEMMA HandedOverBatches ==
  ASSUME OwnInv, OwnInv', BatchInv, BatchInv', BatchStep, Keeps(sch, sch'),
         NEW r \in Requests, HandedOver(r)
  PROVE  BatchesStep
<1>1. PlaceInv /\ PlaceInv' /\ sch \in Scheduler /\ sch' \in Scheduler
  BY OwnFacts DEF OwnInv, QueueInv, PlaceInv, TypeOK
<1>2. pendingBatches = <<r>>
  BY <1>1, PendingOne DEF HandedOver, Unsettled
<1>3. CallSet(r) \subseteq Handed(sch')
  BY <1>1, HandsOverHanded DEF HandedOver
<1>4. Settled(r)'
  BY <1>3 DEF Settled, Reported, Handed
<1>5. \A p \in Range(sent) : p # r => Settled(p)'
  BY <1>1, BatchStepKeeps DEF BatchInv, HandedOver
<1>6. pendingBatches' = <<>>
  <2>1. Range(sent') \cap Unsettled' = {}
    BY <1>4, <1>5 DEF Unsettled, HandedOver
  <2> QED BY <1>1, <2>1, PendingNext
<1>7. PICK result \in [CallSet(r) -> Terminal] :
        deliveredBatches' = Append(deliveredBatches, Report(r, result))
  BY DeliveredMore DEF HandedOver
<1>8. Batches!Deliver
  <2>1. pendingBatches # <<>> /\ Head(pendingBatches) = r /\ Tail(pendingBatches) = <<>>
    <3>0. <<r>> \in Seq(Requests)
      OBVIOUS
    <3>1. PICK p \in Seq(Requests) : p = <<r>>
      BY <3>0
    <3> QED BY <1>2, <3>1
  <2>2. result \in [Batches!CallsIn(Head(pendingBatches)) -> Batches!Results]
    BY <1>7, <2>1, BatchesCalls
  <2>3. deliveredBatches' = Append(deliveredBatches,
          [request |-> Head(pendingBatches), result |-> result])
    BY <1>7, <2>1 DEF Report
  <2> QED BY <1>6, <2>1, <2>2, <2>3 DEF Batches!Deliver
<1> QED BY <1>8 DEF BatchesStep, Batches!Next

(* A request is made: Submit, or SubmitAndDeliver.                         *)
LEMMA RequestedBatches ==
  ASSUME OwnInv, OwnInv', BatchInv, BatchInv', BatchStep, Keeps(sch, sch'),
         NEW r \in Requests, Requested(r)
  PROVE  BatchesStep
<1>1. /\ PlaceInv /\ PlaceInv' /\ sch \in Scheduler /\ sch' \in Scheduler
      /\ sent \in Seq(Requests) /\ TypeOK
  BY OwnFacts DEF OwnInv, QueueInv, PlaceInv, TypeOK
<1>2. pendingBatches = <<>>
  BY <1>1, PendingOne DEF Requested, Unsettled
<1>3. \A i \in DOMAIN deliveredBatches : deliveredBatches[i].request # r
  BY DeliveredEntered DEF Requested, Entered
<1>4. \A p \in Range(sent) : Settled(p)'
  BY <1>1, BatchStepKeeps DEF Requested
<1>5. Range(sent') = Range(sent) \cup {r}
  BY <1>1, AppendRange DEF Requested
<1>6. CASE sch'.reports = sch.reports
  <2>1. ~Settled(r)'
    <3>1. Handed(sch') = Handed(sch)
      BY <1>6, SameHanded
    <3>2. CallSet(r) # {}
      BY <1>1, TakenCalls
    <3>3. ~(CallSet(r) \subseteq Handed(sch')) /\ r \notin rejected'
      BY <3>1, <3>2 DEF Requested
    <3> QED BY <3>3 DEF Settled, Reported, Handed
  <2>2. pendingBatches' = <<r>>
    BY <1>1, <1>5, <2>1, PendingNext DEF Unsettled
  <2>3. deliveredBatches' = deliveredBatches
    BY <1>6, DeliveredSame
  <2>4. Batches!Submit(r)
    <3>1. r \notin Batches!Range(pendingBatches)
      BY <1>2 DEF Batches!Range
    <3>2. pendingBatches' = Append(pendingBatches, r)
      <4>0. <<>> \in Seq(Requests)
        OBVIOUS
      <4>1. PICK p \in Seq(Requests) : p = <<>>
        BY <4>0
      <4>2. Append(p, r) = <<r>>
        BY <4>1
      <4> QED BY <1>2, <2>2, <4>1, <4>2
    <3> QED BY <1>3, <2>3, <3>1, <3>2 DEF Batches!Submit
  <2> QED BY <2>4 DEF BatchesStep, Batches!Next
<1>7. CASE HandsOver(sch, sch', r)
  <2>1. CallSet(r) \subseteq Handed(sch')
    BY <1>1, <1>7, HandsOverHanded
  <2>2. Settled(r)'
    BY <2>1 DEF Settled, Reported, Handed
  <2>3. pendingBatches' = <<>>
    <3>1. Range(sent') \cap Unsettled' = {}
      BY <1>4, <1>5, <2>2 DEF Unsettled
    <3> QED BY <1>1, <3>1, PendingNext
  <2>4. PICK result \in [CallSet(r) -> Terminal] :
          deliveredBatches' = Append(deliveredBatches, Report(r, result))
    BY <1>7, DeliveredMore
  <2>5. Batches!SubmitAndDeliver(r)
    <3>1. result \in [Batches!CallsIn(r) -> Batches!Results]
      BY <2>4, BatchesCalls
    <3>2. deliveredBatches' = Append(deliveredBatches, [request |-> r, result |-> result])
      BY <2>4 DEF Report
    <3> QED BY <1>2, <1>3, <2>3, <3>1, <3>2 DEF Batches!SubmitAndDeliver
  <2> QED BY <2>5 DEF BatchesStep, Batches!Next
<1> QED BY <1>6, <1>7 DEF Requested

(* Queued requests are taken back: Withdraw, if one was pending.           *)
LEMMA TakenBackBatches ==
  ASSUME OwnInv, OwnInv', BatchInv, BatchInv', BatchStep, Keeps(sch, sch'),
         NEW R \in SUBSET Requests, TakenBack(R)
  PROVE  BatchesStep
<1>1. PlaceInv /\ PlaceInv' /\ sch \in Scheduler /\ sch' \in Scheduler /\ RequestsKept
  BY OwnFacts DEF OwnInv, QueueInv, PlaceInv, TypeOK
<1>2. deliveredBatches' = deliveredBatches
  BY DeliveredSame DEF TakenBack
<1>3. \A p : Settled(p)' <=> Settled(p) \/ p \in R
  BY DEF TakenBack, Settled, Reported
<1>4. CASE \A p \in R : Settled(p)
  <2>1. \A p : Settled(p)' <=> Settled(p)
    BY <1>3, <1>4
  <2>2. {r \in Requests : ~Settled(r)}' = {r \in Requests : ~Settled(r)}
    BY <2>1
  <2>3. pendingBatches' = pendingBatches
    BY <2>2 DEF pendingBatches, TakenBack
  <2> QED BY <1>2, <2>3 DEF BatchesStep
<1>5. ASSUME NEW r \in R, ~Settled(r) PROVE BatchesStep
  <2>1. r \in Requests /\ r \in Range(sent)
    BY <1>1 DEF TakenBack, RequestsKept
  <2>2. pendingBatches = <<r>>
    BY <1>1, <1>5, <2>1, PendingOne DEF Unsettled
  <2>3. \A p \in Range(sent) : Settled(p)'
    BY <1>3, <1>5, <2>1 DEF BatchInv
  <2>4. pendingBatches' = <<>>
    <3>1. Range(sent') \cap Unsettled' = {}
      BY <2>3 DEF Unsettled, TakenBack
    <3> QED BY <1>1, <3>1, PendingNext
  <2>5. PICK q \in Seq(Requests) : q = <<r>>
    <3>1. <<r>> \in Seq(Requests)
      BY <2>1
    <3> QED BY <3>1
  <2>6. DOMAIN q = {1} /\ q[1] = r /\ SubSeq(q, 1, 0) \o SubSeq(q, 2, Len(q)) = <<>>
    BY <2>5
  <2>7. Batches!Withdraw(r)
    <3>1. /\ 1 \in DOMAIN pendingBatches /\ pendingBatches[1] = r
          /\ pendingBatches' = SubSeq(pendingBatches, 1, 1 - 1)
                                 \o SubSeq(pendingBatches, 1 + 1, Len(pendingBatches))
      BY <2>2, <2>4, <2>5, <2>6
    <3> QED BY <1>2, <3>1 DEF Batches!Withdraw
  <2> QED BY <2>1, <2>7 DEF BatchesStep, Batches!Next
<1> QED BY <1>4, <1>5

(* Where nothing is stranded and the client waits for a batch before it    *)
(* makes the next request, the scheduler implements ToolBatches: each      *)
(* request is reported once, as a whole and with final results, in the     *)
(* order of the requests, or withdrawn.                                    *)
THEOREM SchedulerDeliversBatches ==
  Spec /\ Smooth /\ ~Overlap => DeliversBatches
<1> SUFFICES ASSUME Smooth, ~Overlap PROVE Spec => DeliversBatches
  OBVIOUS
<1> DEFINE I == OwnInv /\ Tidy /\ BatchInv
<1>1. Init => I
  BY OwnInit, TidyInit, BatchInit
<1>2. I /\ [Next]_vars => I' /\ BatchStep
  <2> SUFFICES ASSUME I, [Next]_vars PROVE I' /\ BatchStep
    OBVIOUS
  <2>1. OwnInv' /\ Tidy'
    BY OwnNext, TidyNext
  <2>2. BatchStep
    BY NextBatchStep
  <2> QED BY <2>1, <2>2, BatchInvNext
<1>3. Init => Batches!Init
  <2> SUFFICES ASSUME Init PROVE Batches!Init
    OBVIOUS
  <2>1. PlaceInv /\ BatchInv
    BY OwnInit, OwnFacts, BatchInit
  <2>2. Range(sent) = {}
    BY DEF Init, Range
  <2>3. pendingBatches = <<>>
    BY <2>1, <2>2, PendingOne
  <2>4. sch.reports = <<>>
    BY DEF Init
  <2>5. deliveredBatches = <<>>
    BY <2>4 DEF deliveredBatches
  <2> QED BY <2>3, <2>5 DEF Batches!Init
<1>4. I /\ [Next]_vars => BatchesStep
  <2> SUFFICES ASSUME I, [Next]_vars PROVE BatchesStep
    OBVIOUS
  <2>1. I' /\ BatchStep
    BY <1>2
  <2>2. Keeps(sch, sch')
    BY NextKeeps DEF Smooth
  <2>3. ASSUME NEW r \in Requests, HandedOver(r) \/ Requested(r) PROVE BatchesStep
    BY <2>1, <2>2, <2>3, HandedOverBatches, RequestedBatches
  <2>4. ASSUME NEW R \in SUBSET Requests, TakenBack(R) PROVE BatchesStep
    BY <2>1, <2>2, <2>4, TakenBackBatches
  <2>5. Undisturbed => BatchesStep
    BY <2>1, <2>2, UndisturbedBatches
  <2> QED BY <2>1, <2>3, <2>4, <2>5 DEF BatchStep
<1>5. BatchesStep => [Batches!Next]_<<pendingBatches, deliveredBatches>>
  BY DEF BatchesStep
<1> HIDE DEF I
<1> QED BY <1>1, <1>2, <1>3, <1>4, <1>5, PTL DEF Spec, DeliversBatches, Batches!Spec

===============================================================================
