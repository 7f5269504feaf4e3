------------------------- MODULE SchedulerInvariants --------------------------
(***************************************************************************)
(* What always holds in CoreToolScheduler: where its calls and requests are, *)
(* and which chain may move them.  The three layers, PlaceInv, QueueInv and *)
(* OwnInv, are what the theorems about its steps (SchedulerSafety) rest on. *)
(***************************************************************************)
EXTENDS CoreToolSchedulerProofs

------------------------------------------------------------------------------
(***************************************************************************)
(* Where the calls are.                                                    *)
(***************************************************************************)
Queued(s) == Range(s.toolCallQueue)
Done(s) == Range(s.completed)
Handed(s) == UNION {Range(s.reports[i]) : i \in DOMAIN s.reports}
Slot(s) == {s.active} \ {None}

(* The fields that the methods working on a batch leave alone.             *)
SameRest(s, t) ==
  /\ t.requestQueue = s.requestQueue
  /\ t.aborted = s.aborted
  /\ t.prompted = s.prompted
  /\ t.isScheduling = s.isScheduling

(* What advance does: the batch is finished and handed over,               *)
Finishes(s, t, o, sig) ==
  /\ t.active = s.active
  /\ t.toolCallQueue = <<>>
  /\ t.completed = s.completed \o s.toolCallQueue
  /\ t.reports = Append(s.reports, t.completed)
  /\ t.isFinalizing
  /\ t.chain = [s.chain EXCEPT ![o] = Waiting("finalizing", None, sig, None)]
  /\ \A c \in Calls :
       t.status[c] = IF sig \in s.aborted /\ c \in Queued(s) /\ s.status[c] # "error"
                     THEN "cancelled" ELSE s.status[c]
  /\ sig \notin s.aborted =>
       /\ \A c \in Queued(s) : s.status[c] = "error"
       /\ t.completed # <<>>
(* or the first queued call that did not fail is taken,                    *)
Takes(s, t, o, sig) ==
  /\ sig \notin s.aborted
  /\ t.active \in Calls
  /\ s.status[t.active] # "error"
  /\ \E p \in Seq(Calls) :
       /\ s.toolCallQueue = p \o (<<t.active>> \o t.toolCallQueue)
       /\ t.completed = s.completed \o p
       /\ \A c \in Range(p) : s.status[c] = "error"
  /\ t.reports = s.reports /\ t.isFinalizing = s.isFinalizing /\ t.status = s.status
  /\ t.chain = [s.chain EXCEPT ![o] = Waiting("validating", t.active, sig, None)]
(* or nothing is left to do.                                               *)
Rests(s, t, o, sig) ==
  /\ sig \notin s.aborted
  /\ t.active = s.active
  /\ s.toolCallQueue = <<>> /\ t.toolCallQueue = <<>>
  /\ s.completed = <<>> /\ t.completed = <<>>
  /\ t.reports = s.reports /\ t.isFinalizing = s.isFinalizing /\ t.status = s.status
  /\ t.chain = [s.chain EXCEPT ![o] = Returned(o)]

Advances(s, t, o, sig) ==
  /\ SameRest(s, t) /\ t.isCancelling = s.isCancelling
  /\ Finishes(s, t, o, sig) \/ Takes(s, t, o, sig) \/ Rests(s, t, o, sig)

LEMMA deliverFields ==
  ASSUME NEW s \in Scheduler, NEW o \in Owner, NEW sig, NEW t, t = deliver(s, o, sig)
  PROVE  /\ SameRest(s, t) /\ t.isCancelling = s.isCancelling
         /\ t.active = s.active /\ t.toolCallQueue = s.toolCallQueue
         /\ t.completed = s.completed /\ t.status = s.status
         /\ t.reports = Append(s.reports, s.completed)
         /\ t.isFinalizing
         /\ t.chain = [s.chain EXCEPT ![o] = Waiting("finalizing", None, sig, None)]
  BY DEF deliver, Scheduler, SameRest

LEMMA cancelAllQueuedCallsFields ==
  ASSUME NEW s \in Scheduler, NEW t, t = cancelAllQueuedCalls(s)
  PROVE  /\ SameRest(s, t) /\ t.isCancelling = s.isCancelling
         /\ t.active = s.active /\ t.toolCallQueue = <<>>
         /\ t.completed = s.completed \o s.toolCallQueue
         /\ t.reports = s.reports /\ t.isFinalizing = s.isFinalizing
         /\ t.chain = s.chain
         /\ \A c \in Calls :
              t.status[c] = IF c \in Queued(s) /\ s.status[c] # "error"
                            THEN "cancelled" ELSE s.status[c]
  BY DEF cancelAllQueuedCalls, Scheduler, SameRest, Queued

(* skipFailed splits the queue at the first call that did not fail.        *)
LEMMA failedSplits ==
  ASSUME NEW s \in Scheduler
  PROVE  /\ failed(s) \in 0..Len(s.toolCallQueue)
         /\ \A i \in 1..failed(s) : s.status[s.toolCallQueue[i]] = "error"
         /\ failed(s) < Len(s.toolCallQueue)
              => s.status[s.toolCallQueue[failed(s) + 1]] # "error"
<1> DEFINE q == s.toolCallQueue
           Stops(k) == /\ \A i \in 1..k : s.status[q[i]] = "error"
                       /\ k < Len(q) => s.status[q[k + 1]] # "error"
<1>1. q \in Seq(Calls)
  BY DEF Scheduler
<1>2. \E k \in 0..Len(q) : Stops(k)
  <2> DEFINE B == {i \in 0..Len(q) : i < Len(q) /\ s.status[q[i + 1]] # "error"}
  <2>1. CASE B = {}
    <3>1. \A i \in 1..Len(q) : i - 1 \in 0..Len(q) /\ i - 1 \notin B
      BY <1>1, <2>1
    <3>2. \A i \in 1..Len(q) : s.status[q[i]] = "error"
      BY <1>1, <3>1
    <3> QED BY <3>2, <1>1
  <2>2. CASE B # {}
    <3>1. PICK m \in B : \A k \in B : m <= k
      <4>1. B \in SUBSET Nat
        BY <1>1
      <4> HIDE DEF B
      <4> QED BY <2>2, <4>1, LeastElement
    <3>2. \A i \in 1..m : i - 1 \in 0..Len(q) /\ i - 1 < Len(q) /\ i - 1 \notin B
      BY <1>1, <3>1
    <3>3. \A i \in 1..m : s.status[q[i]] = "error"
      BY <1>1, <3>1, <3>2
    <3> QED BY <3>1, <3>3
  <2> QED BY <2>1, <2>2
<1>3. failed(s) = CHOOSE k \in 0..Len(q) : Stops(k)
  BY DEF failed
<1>4. failed(s) \in 0..Len(q) /\ Stops(failed(s))
  <2> HIDE DEF Stops, q
  <2> QED BY <1>2, <1>3
<1> QED BY <1>4

SkipsFailed(s, t) ==
  \E p \in Seq(Calls) :
    /\ s.toolCallQueue = p \o t.toolCallQueue
    /\ t.completed = s.completed \o p
    /\ \A c \in Range(p) : s.status[c] = "error"

LEMMA skipFailedFields ==
  ASSUME NEW s \in Scheduler, NEW t, t = skipFailed(s)
  PROVE  /\ SameRest(s, t) /\ t.isCancelling = s.isCancelling
         /\ t.active = s.active /\ t.status = s.status
         /\ t.reports = s.reports /\ t.isFinalizing = s.isFinalizing
         /\ t.chain = s.chain
         /\ t.toolCallQueue # <<>> => s.status[Head(t.toolCallQueue)] # "error"
         /\ SkipsFailed(s, t)
<1> DEFINE q == s.toolCallQueue
           n == failed(s)
           p == SubSeq(q, 1, n)
           u == SubSeq(q, n + 1, Len(q))
<1>1. /\ q \in Seq(Calls) /\ Len(q) \in Nat /\ n \in 0..Len(q)
      /\ \A i \in 1..n : s.status[q[i]] = "error"
      /\ n < Len(q) => s.status[q[n + 1]] # "error"
  <2>1. q \in Seq(Calls) /\ Len(q) \in Nat
    BY DEF Scheduler
  <2> QED BY <2>1, failedSplits
<1>2. t = [s EXCEPT !.completed = s.completed \o p, !.toolCallQueue = u]
  BY DEF skipFailed
<1> HIDE DEF n, q
<1>3. /\ p \in Seq(Calls) /\ Len(p) = n /\ \A i \in 1..n : p[i] = q[i]
  <2>1. \A i \in 1..n : q[i] \in Calls
    BY <1>1
  <2>2. p \in Seq(Calls) /\ Len(p) = (IF 1 <= n THEN n - 1 + 1 ELSE 0)
          /\ \A i \in 1..n - 1 + 1 : p[i] = q[1 + i - 1]
    BY <1>1, <2>1, SubSeqProperties
  <2> QED BY <1>1, <2>2
<1>4. /\ u \in Seq(Calls) /\ Len(u) = Len(q) - n /\ \A i \in 1..Len(q) - n : u[i] = q[n + i]
  <2>1. \A i \in n + 1..Len(q) : q[i] \in Calls
    BY <1>1
  <2>2. u \in Seq(Calls) /\ Len(u) = (IF n + 1 <= Len(q) THEN Len(q) - (n + 1) + 1 ELSE 0)
          /\ \A i \in 1..Len(q) - (n + 1) + 1 : u[i] = q[n + 1 + i - 1]
    BY <1>1, <2>1, SubSeqProperties
  <2>3. \A i \in 1..Len(q) - n : i \in 1..Len(q) - (n + 1) + 1 /\ n + 1 + i - 1 = n + i
    BY <1>1
  <2> QED BY <1>1, <2>2, <2>3
<1>5. q = p \o u
  <2>1. p \o u = SubSeq(q, 1, Len(q))
    <3>1. 1 \in 1..Len(q) + 1 /\ n \in 1 - 1..Len(q) /\ Len(q) \in n..Len(q)
      BY <1>1
    <3> HIDE DEF p, u
    <3>2. SubSeq(q, 1, n) \o SubSeq(q, n + 1, Len(q)) = SubSeq(q, 1, Len(q))
      BY <1>1, <3>1, ConcatAdjacentSubSeq
    <3> QED BY <3>2 DEF p, u
  <2> QED BY <1>1, <2>1, SubSeqFull
<1>6. \A c \in Range(p) : s.status[c] = "error"
  BY <1>1, <1>3 DEF Range
<1>7. u # <<>> => s.status[Head(u)] # "error"
  <2> SUFFICES ASSUME u # <<>> PROVE s.status[Head(u)] # "error"
    OBVIOUS
  <2>1. Len(u) # 0 /\ Head(u) = u[1]
    BY <1>4
  <2>2. n < Len(q) /\ u[1] = q[n + 1]
    BY <1>1, <1>4, <2>1
  <2> QED BY <1>1, <2>1, <2>2
<1> HIDE DEF p, u
<1>8. t.toolCallQueue = u /\ t.completed = s.completed \o p
  BY <1>2 DEF Scheduler
<1>9. /\ SameRest(s, t) /\ t.isCancelling = s.isCancelling
      /\ t.active = s.active /\ t.status = s.status
      /\ t.reports = s.reports /\ t.isFinalizing = s.isFinalizing
      /\ t.chain = s.chain
  BY <1>2 DEF Scheduler, SameRest
<1>10. SkipsFailed(s, t)
  BY <1>3, <1>5, <1>6, <1>8 DEF q, SkipsFailed
<1> QED BY <1>7, <1>8, <1>9, <1>10

LEMMA advanceSteps ==
  ASSUME NEW s \in Scheduler, NEW o \in Owner, NEW sig \in Signals,
         NEW t, t = advance(s, o, sig)
  PROVE  Advances(s, t, o, sig)
<1>1. CASE sig \in s.aborted
  <2>1. PICK u \in Scheduler : u = cancelAllQueuedCalls(s)
    BY cancelAllQueuedCallsType
  <2>2. t = deliver(u, o, sig)
    BY <1>1, <2>1 DEF advance
  <2>3. /\ SameRest(s, u) /\ u.isCancelling = s.isCancelling
        /\ u.active = s.active /\ u.toolCallQueue = <<>>
        /\ u.completed = s.completed \o s.toolCallQueue
        /\ u.reports = s.reports
        /\ u.chain = s.chain
        /\ \A c \in Calls :
             u.status[c] = IF c \in Queued(s) /\ s.status[c] # "error"
                           THEN "cancelled" ELSE s.status[c]
    BY <2>1, cancelAllQueuedCallsFields
  <2>4. /\ SameRest(u, t) /\ t.isCancelling = u.isCancelling
        /\ t.active = u.active /\ t.toolCallQueue = u.toolCallQueue
        /\ t.completed = u.completed /\ t.status = u.status
        /\ t.reports = Append(u.reports, u.completed)
        /\ t.isFinalizing
        /\ t.chain = [u.chain EXCEPT ![o] = Waiting("finalizing", None, sig, None)]
    BY <2>1, <2>2, deliverFields
  <2> QED BY <1>1, <2>3, <2>4 DEF Advances, Finishes, SameRest
<1>2. CASE sig \notin s.aborted
  <2>1. PICK u \in Scheduler : u = skipFailed(s)
    BY skipFailedType
  <2>2. /\ SameRest(s, u) /\ u.isCancelling = s.isCancelling
        /\ u.active = s.active /\ u.status = s.status
        /\ u.reports = s.reports /\ u.isFinalizing = s.isFinalizing
        /\ u.chain = s.chain
        /\ u.toolCallQueue # <<>> => s.status[Head(u.toolCallQueue)] # "error"
    BY <2>1, skipFailedFields
  <2>3. PICK p \in Seq(Calls) : /\ s.toolCallQueue = p \o u.toolCallQueue
                                /\ u.completed = s.completed \o p
                                /\ \A c \in Range(p) : s.status[c] = "error"
    <3>1. \E p \in Seq(Calls) :
            /\ s.toolCallQueue = p \o u.toolCallQueue
            /\ u.completed = s.completed \o p
            /\ \A c \in Range(p) : s.status[c] = "error"
      <4>1. SkipsFailed(s, u)
        BY <2>1, skipFailedFields
      <4> QED BY <4>1 DEF SkipsFailed
    <3> QED BY <3>1
  <2>4. t = IF u.toolCallQueue # <<>>
            THEN Suspend(takeNext(u), o, "validating", Head(u.toolCallQueue), sig)
            ELSE IF u.completed = <<>> THEN Return(u, o) ELSE deliver(u, o, sig)
    BY <1>2, <2>1 DEF advance
  <2>5. s.toolCallQueue \in Seq(Calls) /\ u.toolCallQueue \in Seq(Calls)
          /\ s.completed \in Seq(Calls)
    BY <2>1 DEF Scheduler
  <2>6. CASE u.toolCallQueue # <<>>
    <3>1. PICK v \in Scheduler : v = takeNext(u)
      BY <2>1, <2>6, takeNextType
    <3>2. PICK c \in Calls : c = Head(u.toolCallQueue)
      BY <2>1, <2>6, takeNextType
    <3>3. v = [u EXCEPT !.active = c, !.toolCallQueue = Tail(u.toolCallQueue)]
      BY <3>1, <3>2 DEF takeNext
    <3>4. t = [v EXCEPT !.chain[o] = Waiting("validating", c, sig, None)]
      BY <2>4, <2>6, <3>1, <3>2 DEF Suspend
    <3>5. /\ SameRest(s, t) /\ t.isCancelling = s.isCancelling
          /\ t.active = c /\ t.toolCallQueue = Tail(u.toolCallQueue)
          /\ t.completed = u.completed /\ t.status = s.status
          /\ t.reports = s.reports /\ t.isFinalizing = s.isFinalizing
      BY <2>2, <3>3, <3>4 DEF Scheduler, SameRest
    <3>6. t.chain = [s.chain EXCEPT ![o] = Waiting("validating", c, sig, None)]
      BY <2>2, <3>3, <3>4 DEF Scheduler
    <3>7. u.toolCallQueue = <<c>> \o t.toolCallQueue
      BY <2>5, <2>6, <3>2, <3>5, HeadBeforeTail
    <3>8. s.status[c] # "error"
      BY <2>2, <2>6, <3>2
    <3>9. Takes(s, t, o, sig)
      BY <1>2, <2>3, <3>5, <3>6, <3>7, <3>8 DEF Takes
    <3> QED BY <3>5, <3>9 DEF Advances
  <2>7. CASE u.toolCallQueue = <<>>
    <3>1. p = s.toolCallQueue
      BY <2>3, <2>5, <2>7, ConcatEmptySeq
    <3>2. u.completed = s.completed \o s.toolCallQueue
      BY <2>3, <3>1
    <3>3. \A c \in Queued(s) : s.status[c] = "error"
      BY <2>3, <3>1 DEF Queued
    <3>4. CASE u.completed = <<>>
      <4>1. s.completed = <<>> /\ s.toolCallQueue = <<>>
        <5>1. s.completed \o s.toolCallQueue = <<>>
          BY <3>2, <3>4
        <5> QED BY <2>5, <5>1, ConcatSimplifications!concIsEmpty
      <4>2. t = [u EXCEPT !.chain[o] = Returned(o)]
        BY <2>4, <2>7, <3>4 DEF Return
      <4>3. /\ SameRest(s, t) /\ t.isCancelling = s.isCancelling
            /\ t.active = s.active /\ t.toolCallQueue = <<>>
            /\ t.completed = <<>> /\ t.status = s.status
            /\ t.reports = s.reports /\ t.isFinalizing = s.isFinalizing
            /\ t.chain = [s.chain EXCEPT ![o] = Returned(o)]
        BY <2>1, <2>2, <2>7, <3>4, <4>2 DEF Scheduler, SameRest
      <4> QED BY <1>2, <4>1, <4>3 DEF Advances, Rests
    <3>5. CASE u.completed # <<>>
      <4>1. t = deliver(u, o, sig)
        BY <2>4, <2>7, <3>5
      <4>2. /\ SameRest(u, t) /\ t.isCancelling = u.isCancelling
            /\ t.active = u.active /\ t.toolCallQueue = u.toolCallQueue
            /\ t.completed = u.completed /\ t.status = u.status
            /\ t.reports = Append(u.reports, u.completed)
            /\ t.isFinalizing
            /\ t.chain = [u.chain EXCEPT ![o] = Waiting("finalizing", None, sig, None)]
        BY <2>1, <4>1, deliverFields
      <4>3. SameRest(s, t)
        BY <2>2, <4>2 DEF SameRest
      <4>4. Finishes(s, t, o, sig)
        BY <1>2, <2>2, <2>7, <3>2, <3>3, <3>5, <4>2 DEF Finishes
      <4> QED BY <2>2, <4>2, <4>3, <4>4 DEF Advances
    <3> QED BY <3>4, <3>5
  <2> QED BY <2>6, <2>7
<1> QED BY <1>1, <1>2

(* The calls of T were taken; each is at one place.                        *)
Placed(s, T) ==
  /\ IsInjective(s.toolCallQueue)
  /\ Queued(s) \cup Slot(s) \cup Done(s) \cup Handed(s) \subseteq T
  /\ Queued(s) \cap Slot(s) = {}
  /\ (Queued(s) \cup Slot(s)) \cap (Done(s) \cup Handed(s)) = {}
  /\ \A p \in Owner : s.chain[p].call # None => s.chain[p].call \in T \ Queued(s)
  /\ \A c \in Calls : s.status[c] # "scheduled" /\ (s.status[c] = "none" <=> c \notin T)
  /\ \A c \in Queued(s) : s.status[c] \in {"validating", "error"}
  /\ \A c \in Done(s) \cup Handed(s) : s.status[c] \in Terminal

(* The call in the slot is not finished: it is an open call, or one that   *)
(* could not be rebuilt; and nothing waits behind an empty slot.           *)
Unfinished == {"validating", "awaiting_approval", "executing"}
SlotOpen(s) ==
  /\ s.active = None => s.toolCallQueue = <<>>
  /\ s.active # None => s.status[s.active] \in Unfinished \cup {"error"}

LEMMA HandedAppend ==
  ASSUME NEW s \in Scheduler, NEW t, t.reports = Append(s.reports, t.completed),
         t.completed \in Seq(Calls)
  PROVE  Handed(t) = Handed(s) \cup Done(t)
<1> DEFINE n == Len(s.reports)
<1>1. /\ s.reports \in Seq(Seq(Calls)) /\ n \in Nat /\ Len(t.reports) = n + 1
      /\ DOMAIN s.reports = 1..n /\ DOMAIN t.reports = 1..n + 1
      /\ \A i \in 1..n : t.reports[i] = s.reports[i]
      /\ t.reports[n + 1] = t.completed
  <2>1. s.reports \in Seq(Seq(Calls))
    BY DEF Scheduler
  <2>2. PICK q \in Seq(Calls) : q = t.completed
    OBVIOUS
  <2> QED BY <2>1, <2>2
<1> HIDE DEF n
<1>2. \A c : c \in Handed(t) <=> \E i \in 1..n + 1 : c \in Range(t.reports[i])
  BY <1>1 DEF Handed
<1>3. \A c : c \in Handed(s) <=> \E i \in 1..n : c \in Range(s.reports[i])
  BY <1>1 DEF Handed
<1>4. ASSUME NEW c PROVE c \in Handed(t) <=> c \in Handed(s) \/ c \in Done(t)
  <2>1. ASSUME c \in Handed(t) PROVE c \in Handed(s) \/ c \in Done(t)
    <3>1. PICK i \in 1..n + 1 : c \in Range(t.reports[i])
      BY <1>2, <2>1
    <3>2. i \in 1..n \/ i = n + 1
      BY <1>1
    <3> QED BY <1>1, <1>3, <3>1, <3>2 DEF Done
  <2>2. ASSUME c \in Handed(s) PROVE c \in Handed(t)
    <3>1. PICK i \in 1..n : c \in Range(s.reports[i])
      BY <1>3, <2>2
    <3>2. i \in 1..n + 1
      BY <1>1
    <3> QED BY <1>1, <1>2, <3>1, <3>2
  <2>3. ASSUME c \in Done(t) PROVE c \in Handed(t)
    <3>1. n + 1 \in 1..n + 1
      BY <1>1
    <3> QED BY <1>1, <1>2, <2>3, <3>1 DEF Done
  <2> QED BY <2>1, <2>2, <2>3
<1> QED BY <1>4

LEMMA SameHanded ==
  ASSUME NEW s, NEW t, t.reports = s.reports
  PROVE  Handed(t) = Handed(s)
  BY DEF Handed

LEMMA FinishesSets ==
  ASSUME NEW s \in Scheduler, NEW t \in Scheduler, NEW o, NEW sig, Finishes(s, t, o, sig)
  PROVE  /\ Queued(t) = {} /\ IsInjective(t.toolCallQueue)
         /\ Done(t) = Done(s) \cup Queued(s)
         /\ Handed(t) = Handed(s) \cup Done(t)
<1>1. s.completed \in Seq(Calls) /\ s.toolCallQueue \in Seq(Calls) /\ t.completed \in Seq(Calls)
  BY DEF Scheduler
<1>2. Done(t) = Done(s) \cup Queued(s)
  BY <1>1, RangeConcatenation DEF Finishes, Done, Queued
<1>3. Handed(t) = Handed(s) \cup Done(t)
  BY <1>1, HandedAppend DEF Finishes
<1> QED BY <1>2, <1>3 DEF Finishes, Queued, Range, IsInjective

LEMMA TakesSets ==
  ASSUME NEW s \in Scheduler, NEW t \in Scheduler, NEW o, NEW sig, Takes(s, t, o, sig),
         IsInjective(s.toolCallQueue)
  PROVE  /\ IsInjective(t.toolCallQueue) /\ t.active \notin Queued(t)
         /\ t.active \in Queued(s)
         /\ Queued(t) \subseteq Queued(s)
         /\ Done(s) \subseteq Done(t) /\ Done(t) \subseteq Done(s) \cup Queued(s)
         /\ Queued(s) \subseteq Queued(t) \cup {t.active} \cup Done(t)
         /\ (Queued(t) \cup {t.active}) \cap Done(t) \subseteq Done(s)
         /\ \A c \in Done(t) \ Done(s) : s.status[c] = "error"
         /\ Handed(t) = Handed(s)
<1>1. PICK p \in Seq(Calls) :
        /\ s.toolCallQueue = p \o (<<t.active>> \o t.toolCallQueue)
        /\ t.completed = s.completed \o p
        /\ \A c \in Range(p) : s.status[c] = "error"
  BY DEF Takes
<1>2. PICK h \in Seq(Calls) : h = <<t.active>>
  <2>1. <<t.active>> \in Seq(Calls)
    BY DEF Takes
  <2> QED BY <2>1
<1>3. PICK q \in Seq(Calls) : q = t.toolCallQueue
  BY DEF Scheduler
<1>4. PICK v \in Seq(Calls) : v = h \o q
  BY ConcatProperties
<1>5. s.toolCallQueue = p \o v
  BY <1>1, <1>2, <1>3, <1>4
<1>6. Range(h) = {t.active}
  BY <1>2 DEF Range
<1>7. /\ IsInjective(v) /\ Range(p) \cap Range(v) = {}
      /\ Queued(s) = Range(p) \cup Range(v)
  BY <1>5, InjectiveParts, RangeConcatenation DEF Queued
<1>8. /\ IsInjective(q) /\ t.active \notin Range(q)
      /\ Range(v) = {t.active} \cup Range(q)
  BY <1>4, <1>6, <1>7, InjectiveParts, RangeConcatenation
<1>9. s.completed \in Seq(Calls) /\ Done(t) = Done(s) \cup Range(p)
  BY <1>1, RangeConcatenation DEF Scheduler, Done
<1>10. Handed(t) = Handed(s)
  BY SameHanded DEF Takes
<1>11. Queued(t) = Range(q)
  BY <1>3 DEF Queued
<1> QED BY <1>1, <1>3, <1>7, <1>8, <1>9, <1>10, <1>11

LEMMA RestsSets ==
  ASSUME NEW s \in Scheduler, NEW t \in Scheduler, NEW o, NEW sig, Rests(s, t, o, sig)
  PROVE  /\ Queued(s) = {} /\ Queued(t) = {} /\ IsInjective(t.toolCallQueue)
         /\ Done(s) = {} /\ Done(t) = {}
         /\ Handed(t) = Handed(s)
  BY SameHanded DEF Rests, Queued, Done, Range, IsInjective

LEMMA advancePlaced ==
  ASSUME NEW s \in Scheduler, NEW o \in Owner, NEW sig \in Signals, NEW T,
         NEW t \in Scheduler, Advances(s, t, o, sig), s.active = None, Placed(s, T)
  PROVE  Placed(t, T) /\ SlotOpen(t)
<1>0. None \notin Calls
  BY SchedulerAssumption
<1>1. CASE Finishes(s, t, o, sig)
  <2>1. /\ Queued(t) = {} /\ IsInjective(t.toolCallQueue)
        /\ Done(t) = Done(s) \cup Queued(s)
        /\ Handed(t) = Handed(s) \cup Done(t)
    BY <1>1, FinishesSets
  <2>2. Slot(t) = {} /\ t.active = None /\ t.toolCallQueue = <<>>
    BY <1>1 DEF Finishes, Slot
  <2>3. \A p \in Owner : t.chain[p].call # None => t.chain[p].call = s.chain[p].call
    <3>1. \A p \in Owner : t.chain[p] = IF p = o THEN Waiting("finalizing", None, sig, None)
                                        ELSE s.chain[p]
      BY <1>1 DEF Finishes, Scheduler
    <3> QED BY <3>1 DEF Waiting
  <2>4. \A c \in Calls : t.status[c] = IF sig \in s.aborted /\ c \in Queued(s) /\ s.status[c] # "error"
                     THEN "cancelled" ELSE s.status[c]
    BY <1>1 DEF Finishes
  <2>5. Queued(s) \cup Done(s) \cup Handed(s) \subseteq Calls
    <3>1. /\ s.toolCallQueue \in Seq(Calls) /\ s.completed \in Seq(Calls)
          /\ s.reports \in Seq(Seq(Calls))
      BY DEF Scheduler
    <3>2. \A i \in DOMAIN s.reports : s.reports[i] \in Seq(Calls)
      BY <3>1
    <3> QED BY <3>1, <3>2, RangeOfSeq DEF Queued, Done, Handed
  <2>6. \A c \in Calls : t.status[c] # "scheduled" /\ (t.status[c] = "none" <=> c \notin T)
    BY <2>4 DEF Placed
  <2>7. \A c \in Done(t) \cup Handed(t) : t.status[c] \in Terminal
    <3> SUFFICES ASSUME NEW c \in Queued(s) \cup Done(s) \cup Handed(s)
                 PROVE  t.status[c] \in Terminal
      BY <2>1
    <3>1. CASE c \in Queued(s)
      <4>1. s.status[c] = "error" \/ sig \in s.aborted
        BY <1>1, <3>1 DEF Finishes
      <4> QED BY <2>4, <2>5, <3>1, <4>1 DEF Terminal
    <3>2. CASE c \notin Queued(s)
      BY <2>4, <2>5, <3>2 DEF Placed
    <3> QED BY <3>1, <3>2
  <2>8. \A p \in Owner : t.chain[p].call # None => t.chain[p].call \in T \ Queued(t)
    BY <2>1, <2>3 DEF Placed
  <2>9. Done(t) \cup Handed(t) \subseteq T
    BY <2>1 DEF Placed
  <2> QED BY <2>1, <2>2, <2>6, <2>7, <2>8, <2>9 DEF Placed, SlotOpen
<1>2. CASE Takes(s, t, o, sig)
  <2>1. /\ IsInjective(t.toolCallQueue) /\ t.active \notin Queued(t)
        /\ t.active \in Queued(s)
        /\ Queued(t) \subseteq Queued(s)
        /\ Done(s) \subseteq Done(t) /\ Done(t) \subseteq Done(s) \cup Queued(s)
        /\ (Queued(t) \cup {t.active}) \cap Done(t) \subseteq Done(s)
        /\ \A c \in Done(t) \ Done(s) : s.status[c] = "error"
        /\ Handed(t) = Handed(s)
    BY <1>2, TakesSets DEF Placed
  <2>2. /\ t.active \in Calls /\ t.active # None /\ Slot(t) = {t.active} /\ t.status = s.status
        /\ s.status[t.active] # "error"
    BY <1>0, <1>2 DEF Takes, Slot
  <2>3. \A p \in Owner : t.chain[p] = IF p = o THEN Waiting("validating", t.active, sig, None)
                                      ELSE s.chain[p]
    BY <1>2 DEF Takes, Scheduler
  <2>4. \A p \in Owner : t.chain[p].call # None => t.chain[p].call \in T \ Queued(t)
    BY <2>1, <2>3 DEF Placed, Waiting
  <2>5. s.status[t.active] = "validating"
    BY <2>1, <2>2 DEF Placed
  <2>6. /\ Queued(t) \cup Slot(t) \cup Done(t) \cup Handed(t) \subseteq T
        /\ Queued(t) \cap Slot(t) = {}
        /\ (Queued(t) \cup Slot(t)) \cap (Done(t) \cup Handed(t)) = {}
    BY <2>1, <2>2 DEF Placed
  <2>7. \A c \in Done(t) \cup Handed(t) : t.status[c] \in Terminal
    BY <2>1, <2>2 DEF Placed, Terminal
  <2> QED BY <2>1, <2>2, <2>4, <2>5, <2>6, <2>7 DEF Placed, SlotOpen, Unfinished
<1>3. CASE Rests(s, t, o, sig)
  <2>1. /\ Queued(s) = {} /\ Queued(t) = {} /\ IsInjective(t.toolCallQueue)
        /\ Done(s) = {} /\ Done(t) = {}
        /\ Handed(t) = Handed(s)
    BY <1>3, RestsSets
  <2>2. t.active = None /\ Slot(t) = {} /\ t.status = s.status /\ t.toolCallQueue = <<>>
    BY <1>3 DEF Rests, Slot
  <2>3. \A p \in Owner : t.chain[p].call # None => t.chain[p].call = s.chain[p].call
    <3>1. \A p \in Owner : t.chain[p] = IF p = o THEN Returned(o) ELSE s.chain[p]
      BY <1>3 DEF Rests, Scheduler
    <3> QED BY <3>1 DEF Returned, Idle, Waiting
  <2> QED BY <2>1, <2>2, <2>3 DEF Placed, SlotOpen
<1> QED BY <1>1, <1>2, <1>3 DEF Advances

(* A chain returns; a chain waits for a call.                              *)
Returns(s, t, o) ==
  /\ SameRest(s, t) /\ t.isCancelling = s.isCancelling
  /\ t.active = s.active /\ t.toolCallQueue = s.toolCallQueue
  /\ t.completed = s.completed /\ t.status = s.status
  /\ t.reports = s.reports /\ t.isFinalizing = s.isFinalizing
  /\ t.chain = [s.chain EXCEPT ![o] = Returned(o)]

LEMMA ReturnReturns ==
  ASSUME NEW s \in Scheduler, NEW o \in Owner, NEW t, t = Return(s, o)
  PROVE  Returns(s, t, o)
  BY DEF Return, Returns, Scheduler, SameRest

(* The finished call leaves the slot.                                      *)
Emptied(s, u) ==
  /\ SameRest(s, u) /\ u.isCancelling = s.isCancelling
  /\ u.active = None /\ u.toolCallQueue = s.toolCallQueue
  /\ u.status = s.status
  /\ u.reports = s.reports /\ u.isFinalizing = s.isFinalizing
  /\ u.chain = s.chain
  /\ IF s.active = None THEN u.completed = s.completed
     ELSE /\ s.status[s.active] \in Terminal
          /\ u.completed = Append(s.completed, s.active)

Settles(s, t, o, sig) ==
  \/ /\ s.active # None /\ s.status[s.active] \notin Terminal
     /\ Returns(s, t, o)
  \/ \E u \in Scheduler : Emptied(s, u) /\ Advances(u, t, o, sig)

LEMMA checkSteps ==
  ASSUME NEW s \in Scheduler, NEW o \in Owner, NEW sig \in Signals,
         NEW t, t = checkAndNotifyCompletion(s, o, sig)
  PROVE  Settles(s, t, o, sig)
<1>1. CASE s.active = None
  <2>1. t = advance(s, o, sig)
    BY <1>1 DEF checkAndNotifyCompletion
  <2>2. Emptied(s, s)
    BY <1>1 DEF Emptied, SameRest
  <2> QED BY <2>1, <2>2, advanceSteps DEF Settles
<1>2. CASE s.active # None /\ s.status[s.active] \notin Terminal
  <2>1. t = Return(s, o)
    BY <1>2 DEF checkAndNotifyCompletion
  <2> QED BY <1>2, <2>1, ReturnReturns DEF Settles
<1>3. CASE s.active # None /\ s.status[s.active] \in Terminal
  <2>1. Append(s.completed, s.active) \in Seq(Calls)
    BY <1>3 DEF Scheduler
  <2>2. PICK u : u = [s EXCEPT !.completed = Append(s.completed, s.active), !.active = None]
    OBVIOUS
  <2>3. u \in Scheduler
    BY <2>1, <2>2 DEF Scheduler
  <2>4. t = advance(u, o, sig)
    BY <1>3, <2>2 DEF checkAndNotifyCompletion
  <2>5. Emptied(s, u)
    BY <1>3, <2>2 DEF Emptied, SameRest, Scheduler
  <2>6. Advances(u, t, o, sig)
    BY <2>3, <2>4, advanceSteps
  <2> QED BY <2>3, <2>5, <2>6 DEF Settles
<1> QED BY <1>1, <1>2, <1>3

(* cancelAll drops the active and the queued calls.                        *)
Dropped(s, u) ==
  /\ SameRest(s, u) /\ u.isCancelling
  /\ u.active = None /\ u.toolCallQueue = <<>>
  /\ \A c \in Calls :
       u.status[c] = IF \/ c \in Queued(s) /\ s.status[c] # "error"
                        \/ Live(s, c)
                     THEN "cancelled" ELSE s.status[c]
  /\ u.reports = s.reports /\ u.isFinalizing = s.isFinalizing
  /\ u.chain = s.chain
  /\ u.completed = IF s.active = None THEN s.completed \o s.toolCallQueue
                   ELSE Append(s.completed \o s.toolCallQueue, s.active)

Clears(s, t, o, sig) ==
  \/ s.isCancelling /\ Returns(s, t, o)
  \/ /\ ~s.isCancelling
     /\ \E u \in Scheduler : Dropped(s, u) /\ Advances(u, t, o, sig)

LEMMA cancelAllSteps ==
  ASSUME NEW s \in Scheduler, NEW o \in Owner, NEW sig \in Signals,
         Queued(s) \cap Slot(s) = {},
         NEW t, t = cancelAll(s, o, sig)
  PROVE  Clears(s, t, o, sig)
<1>1. CASE s.isCancelling
  BY <1>1, ReturnReturns DEF cancelAll, Clears
<1>2. CASE ~s.isCancelling
  <2>1. PICK v \in Scheduler : v = [s EXCEPT !.isCancelling = TRUE]
    <3>1. [s EXCEPT !.isCancelling = TRUE] \in Scheduler
      BY DEF Scheduler
    <3> QED BY <3>1
  <2>2. /\ SameRest(s, v) /\ v.isCancelling
        /\ v.active = s.active /\ v.toolCallQueue = s.toolCallQueue
        /\ v.completed = s.completed /\ v.status = s.status
        /\ v.reports = s.reports /\ v.isFinalizing = s.isFinalizing
        /\ v.chain = s.chain
    BY <2>1 DEF Scheduler, SameRest
  <2>3. PICK w \in Scheduler : w = setStatusInternal(v, s.active, "cancelled")
    BY <2>1, setStatusType DEF Status, Terminal
  <2>4. /\ SameRest(v, w) /\ w.isCancelling = v.isCancelling
        /\ w.active = v.active /\ w.toolCallQueue = v.toolCallQueue
        /\ w.completed = v.completed
        /\ w.reports = v.reports /\ w.isFinalizing = v.isFinalizing
        /\ w.chain = v.chain
    BY <2>1, <2>3 DEF Scheduler, SameRest, setStatusInternal
  <2>5. \A c \in Calls : w.status[c] = IF Live(s, c) THEN "cancelled" ELSE s.status[c]
    BY <2>1, <2>2, <2>3 DEF Scheduler, setStatusInternal, Live
  <2>6. PICK x \in Scheduler : x = cancelAllQueuedCalls(w)
    BY <2>3, cancelAllQueuedCallsType
  <2>7. /\ SameRest(w, x) /\ x.isCancelling = w.isCancelling
        /\ x.active = w.active /\ x.toolCallQueue = <<>>
        /\ x.completed = w.completed \o w.toolCallQueue
        /\ x.reports = w.reports /\ x.isFinalizing = w.isFinalizing
        /\ x.chain = w.chain
    BY <2>3, <2>6, cancelAllQueuedCallsFields
  <2>14. \A c \in Calls :
           x.status[c] = IF c \in Queued(w) /\ w.status[c] # "error"
                         THEN "cancelled" ELSE w.status[c]
    BY <2>3, <2>6 DEF cancelAllQueuedCalls, Scheduler, Queued
  <2>8. t = checkAndNotifyCompletion(x, o, sig)
    BY <1>2, <2>1, <2>2, <2>3, <2>6 DEF cancelAll
  <2>9. \A c \in Calls :
          x.status[c] = IF \/ c \in Queued(s) /\ s.status[c] # "error"
                           \/ Live(s, c)
                        THEN "cancelled" ELSE s.status[c]
    <3>1. Queued(w) = Queued(s)
      BY <2>2, <2>4 DEF Queued
    <3>2. \A c \in Calls : Live(s, c) => c \notin Queued(s)
      BY DEF Live, Slot
    <3> QED BY <2>5, <2>14, <3>1, <3>2
  <2>10. s.active # None => x.status[s.active] \in Terminal
    <3>1. s.active # None => s.active \in Calls
      BY DEF Scheduler
    <3> QED BY <2>9, <3>1 DEF Live, Terminal
  <2>11. x.active = s.active /\ x.completed = s.completed \o s.toolCallQueue
    BY <2>2, <2>4, <2>7
  <2>12. PICK u \in Scheduler : Emptied(x, u) /\ Advances(u, t, o, sig)
    BY <2>6, <2>8, <2>10, <2>11, checkSteps DEF Settles
  <2>13. Dropped(s, u)
    <3>1. SameRest(s, u) /\ u.isCancelling
      BY <2>2, <2>4, <2>7, <2>12 DEF Emptied, SameRest
    <3>2. /\ u.active = None /\ u.toolCallQueue = <<>>
          /\ u.reports = s.reports /\ u.isFinalizing = s.isFinalizing
          /\ u.chain = s.chain /\ u.status = x.status
      BY <2>2, <2>4, <2>7, <2>12 DEF Emptied
    <3>3. u.completed = IF s.active = None THEN s.completed \o s.toolCallQueue
                        ELSE Append(s.completed \o s.toolCallQueue, s.active)
      BY <2>11, <2>12 DEF Emptied
    <3> QED BY <2>9, <3>1, <3>2, <3>3 DEF Dropped
  <2> QED BY <1>2, <2>12, <2>13 DEF Clears
<1> QED BY <1>1, <1>2

(* schedule adds the calls of its request to the queue.                    *)
Enqueued(s, u, r, bad) ==
  /\ u.requestQueue = s.requestQueue /\ u.aborted = s.aborted /\ u.prompted = s.prompted
  /\ u.isScheduling /\ ~u.isCancelling
  /\ u.active = s.active /\ u.completed = <<>>
  /\ u.toolCallQueue = s.toolCallQueue \o CallsOf[r]
  /\ \A c \in Calls : u.status[c] = IF c \notin CallSet(r) THEN s.status[c]
                                    ELSE IF c \in bad THEN "error" ELSE "validating"
  /\ u.reports = s.reports /\ u.isFinalizing = s.isFinalizing
  /\ u.chain = s.chain

Refused(s, t) == t = [s EXCEPT !.isCancelling = FALSE, !.isScheduling = FALSE]

Enters(s, t, r, bad) ==
  \E u \in Scheduler :
    /\ Enqueued(s, u, r, bad)
    /\ IF s.active # None THEN Returns(u, t, ScheduleChain(r))
       ELSE Advances(u, t, ScheduleChain(r), SignalOf[r])

LEMMA scheduleSteps ==
  ASSUME NEW s \in Scheduler, NEW r \in Requests, NEW bad \in SUBSET CallSet(r),
         NEW t, t = schedule(s, r, bad)
  PROVE  IF isRunning(s) THEN Refused(s, t) ELSE Enters(s, t, r, bad)
<1>1. ScheduleChain(r) \in Owner /\ SignalOf[r] \in Signals
  BY SchedulerAssumption DEF Owner, ScheduleChain
<1>2. CASE isRunning(s)
  BY <1>2 DEF schedule, Refused
<1>3. CASE ~isRunning(s)
  <2>1. PICK u \in Scheduler : u = enqueueCalls(s, r, bad)
    BY enqueueCallsType
  <2>2. Enqueued(s, u, r, bad)
    BY <2>1 DEF enqueueCalls, Enqueued, Scheduler
  <2>3. t = IF s.active # None THEN Return(u, ScheduleChain(r))
            ELSE advance(u, ScheduleChain(r), SignalOf[r])
    BY <1>3, <2>1, <2>2 DEF schedule, Enqueued
  <2>4. IF s.active # None THEN Returns(u, t, ScheduleChain(r))
        ELSE Advances(u, t, ScheduleChain(r), SignalOf[r])
    BY <1>1, <2>1, <2>3, ReturnReturns, advanceSteps
  <2> QED BY <1>3, <2>1, <2>2, <2>4 DEF Enters
<1> QED BY <1>2, <1>3

(* The status of the call in the slot changes.                             *)
Sets(s, t, c, new) ==
  /\ SameRest(s, t) /\ t.isCancelling = s.isCancelling
  /\ t.active = s.active /\ t.toolCallQueue = s.toolCallQueue
  /\ t.completed = s.completed
  /\ t.reports = s.reports /\ t.isFinalizing = s.isFinalizing
  /\ t.chain = s.chain
  /\ \A d \in Calls : t.status[d] = IF d = c /\ Live(s, c) THEN new ELSE s.status[d]

LEMMA setStatusSets ==
  ASSUME NEW s \in Scheduler, NEW c \in Calls, NEW new, NEW t, t = setStatusInternal(s, c, new)
  PROVE  Sets(s, t, c, new)
<1>1. /\ SameRest(s, t) /\ t.isCancelling = s.isCancelling
      /\ t.active = s.active /\ t.toolCallQueue = s.toolCallQueue
      /\ t.completed = s.completed
      /\ t.reports = s.reports /\ t.isFinalizing = s.isFinalizing
      /\ t.chain = s.chain
  BY DEF setStatusInternal, SameRest, Scheduler
<1>2. \A d \in Calls : t.status[d] = IF d = c /\ Live(s, c) THEN new ELSE s.status[d]
  BY DEF setStatusInternal, Scheduler
<1> QED BY <1>1, <1>2 DEF Sets

(* The tool is started, where the call is live; no call is left            *)
(* "scheduled" between two steps.                                          *)
Runs(s, t, o, c, sig) ==
  /\ SameRest(s, t) /\ t.isCancelling = s.isCancelling
  /\ t.active = s.active /\ t.toolCallQueue = s.toolCallQueue
  /\ t.completed = s.completed
  /\ t.reports = s.reports /\ t.isFinalizing = s.isFinalizing
  /\ s.status[c] \notin Terminal /\ c = s.active
  /\ t.chain = [s.chain EXCEPT ![o] = Waiting("executing", c, sig, None)]
  /\ \A d \in Calls : t.status[d] = IF d = c THEN "executing" ELSE s.status[d]

LEMMA attemptReturns ==
  ASSUME NEW s \in Scheduler, NEW o \in Owner, NEW sig,
         \A c \in Calls : s.status[c] # "scheduled",
         NEW t, t = attemptExecution(s, o, sig)
  PROVE  Returns(s, t, o)
<1>1. s.active # None => s.active \in Calls
  BY DEF Scheduler
<1>2. t = Return(s, o)
  BY <1>1 DEF attemptExecution
<1> QED BY <1>2, ReturnReturns

LEMMA scheduleAndRunSteps ==
  ASSUME NEW s \in Scheduler, NEW o \in Owner, NEW c \in Calls, NEW sig \in Signals,
         \A d \in Calls : s.status[d] # "scheduled",
         NEW t, t = scheduleAndRun(s, o, c, sig)
  PROVE  \/ Live(s, c) /\ Runs(s, t, o, c, sig)
         \/ ~Live(s, c) /\ Returns(s, t, o)
<1>1. CASE Live(s, c)
  <2>1. PICK u \in Scheduler : u = [s EXCEPT !.status[c] = "scheduled"]
    <3>1. [s EXCEPT !.status[c] = "scheduled"] \in Scheduler
      BY DEF Scheduler, Status
    <3> QED BY <3>1
  <2>2. t = attemptExecution(u, o, sig)
    BY <1>1, <2>1 DEF scheduleAndRun, setStatusInternal
  <2>3. u.active = c /\ c # None /\ u.status[c] = "scheduled"
    BY <1>1, <2>1 DEF Scheduler, Live
  <2>4. PICK v \in Scheduler : v = [u EXCEPT !.status[c] = "executing"]
    <3>1. [u EXCEPT !.status[c] = "executing"] \in Scheduler
      BY <2>1 DEF Scheduler, Status
    <3> QED BY <3>1
  <2>5. t = [v EXCEPT !.chain[o] = Waiting("executing", c, sig, None)]
    BY <2>2, <2>3, <2>4 DEF attemptExecution, Suspend
  <2>6. \A d \in Calls : v.status[d] = IF d = c THEN "executing" ELSE s.status[d]
    BY <2>1, <2>4 DEF Scheduler
  <2>7. /\ SameRest(s, v) /\ v.isCancelling = s.isCancelling
        /\ v.active = s.active /\ v.toolCallQueue = s.toolCallQueue
        /\ v.completed = s.completed
        /\ v.reports = s.reports /\ v.isFinalizing = s.isFinalizing
        /\ v.chain = s.chain
    BY <2>1, <2>4 DEF Scheduler, SameRest
  <2>8. /\ SameRest(v, t) /\ t.isCancelling = v.isCancelling
        /\ t.active = v.active /\ t.toolCallQueue = v.toolCallQueue
        /\ t.completed = v.completed /\ t.status = v.status
        /\ t.reports = v.reports /\ t.isFinalizing = v.isFinalizing
        /\ t.chain = [v.chain EXCEPT ![o] = Waiting("executing", c, sig, None)]
    BY <2>4, <2>5 DEF Scheduler, SameRest
  <2>9. SameRest(s, t)
    BY <2>7, <2>8 DEF SameRest
  <2> QED BY <1>1, <2>6, <2>7, <2>8, <2>9 DEF Runs, Live
<1>2. CASE ~Live(s, c)
  <2>1. t = attemptExecution(s, o, sig)
    BY <1>2 DEF scheduleAndRun, setStatusInternal
  <2> QED BY <1>2, <2>1, attemptReturns
<1> QED BY <1>1, <1>2

LEMMA ChainsAfterReturn ==
  ASSUME NEW s \in Scheduler, NEW o \in Owner, NEW t,
         t.chain = [s.chain EXCEPT ![o] = Returned(o)]
  PROVE  /\ \A p \in Owner : t.chain[p] = IF p = o THEN Returned(o) ELSE s.chain[p]
         /\ \A p \in Owner : t.chain[p].call # None => t.chain[p] = s.chain[p] /\ p # o
<1>1. \A p \in Owner : t.chain[p] = IF p = o THEN Returned(o) ELSE s.chain[p]
  BY DEF Scheduler
<1>2. Returned(o).call = None
  BY DEF Returned, Idle, Waiting
<1> QED BY <1>1, <1>2

LEMMA SameSets ==
  ASSUME NEW s, NEW t, t.active = s.active, t.toolCallQueue = s.toolCallQueue,
         t.completed = s.completed, t.reports = s.reports
  PROVE  /\ Queued(t) = Queued(s) /\ Slot(t) = Slot(s)
         /\ Done(t) = Done(s) /\ Handed(t) = Handed(s)
  BY DEF Queued, Slot, Done, Handed

LEMMA SetsInCalls ==
  ASSUME NEW s \in Scheduler
  PROVE  Queued(s) \cup Slot(s) \cup Done(s) \cup Handed(s) \subseteq Calls
<1>1. /\ s.toolCallQueue \in Seq(Calls) /\ s.completed \in Seq(Calls)
      /\ s.reports \in Seq(Seq(Calls)) /\ s.active \in Calls \cup {None}
  BY DEF Scheduler
<1>2. \A i \in DOMAIN s.reports : s.reports[i] \in Seq(Calls)
  BY <1>1
<1> QED BY <1>1, <1>2, RangeOfSeq DEF Queued, Done, Handed, Slot

LEMMA returnPlaced ==
  ASSUME NEW s \in Scheduler, NEW o \in Owner, NEW t, Returns(s, t, o), NEW T, Placed(s, T)
  PROVE  Placed(t, T) /\ (SlotOpen(s) => SlotOpen(t))
<1>1. \A p \in Owner : t.chain[p].call # None => t.chain[p] = s.chain[p]
  BY ChainsAfterReturn DEF Returns
<1>2. /\ Queued(t) = Queued(s) /\ Slot(t) = Slot(s)
      /\ Done(t) = Done(s) /\ Handed(t) = Handed(s)
  BY SameSets DEF Returns
<1> QED BY <1>1, <1>2 DEF Returns, Placed, SlotOpen

LEMMA emptiedPlaced ==
  ASSUME NEW s \in Scheduler, NEW u \in Scheduler, Emptied(s, u), NEW T, Placed(s, T)
  PROVE  Placed(u, T)
<1>1. Queued(u) = Queued(s) /\ Slot(u) = {} /\ Handed(u) = Handed(s)
  BY DEF Emptied, Queued, Slot, Handed
<1>2. Done(u) = Done(s) \cup Slot(s) /\ \A c \in Slot(s) : s.status[c] \in Terminal
  <2>1. CASE s.active = None
    BY <2>1 DEF Emptied, Done, Slot
  <2>2. CASE s.active # None
    <3>1. s.active \in Calls /\ s.completed \in Seq(Calls) /\ <<s.active>> \in Seq(Calls)
      BY <2>2 DEF Scheduler
    <3>2. u.completed = s.completed \o <<s.active>>
      BY <2>2, <3>1, AppendIsConcat DEF Emptied
    <3>3. Range(<<s.active>>) = {s.active}
      BY DEF Range
    <3>4. Range(u.completed) = Range(s.completed) \cup {s.active}
      <4>1. PICK h \in Seq(Calls) : h = <<s.active>>
        BY <3>1
      <4>2. Range(h) = {s.active} /\ u.completed = s.completed \o h
        BY <3>2, <3>3, <4>1
      <4> QED BY <3>1, <4>2, RangeConcatenation
    <3> QED BY <2>2, <3>4 DEF Done, Slot, Emptied
  <2> QED BY <2>1, <2>2
<1> QED BY <1>1, <1>2 DEF Emptied, Placed

LEMMA droppedPlaced ==
  ASSUME NEW s \in Scheduler, NEW u \in Scheduler, Dropped(s, u), NEW T, Placed(s, T), SlotOpen(s)
  PROVE  Placed(u, T)
<1>1. Queued(u) = {} /\ Slot(u) = {} /\ Handed(u) = Handed(s) /\ IsInjective(u.toolCallQueue)
  BY DEF Dropped, Queued, Slot, Handed, Range, IsInjective
<1>2. Done(u) = Done(s) \cup Queued(s) \cup Slot(s)
  <2>1. PICK d \in Seq(Calls) : d = s.completed \o s.toolCallQueue
    <3>1. s.completed \o s.toolCallQueue \in Seq(Calls)
      BY DEF Scheduler
    <3> QED BY <3>1
  <2>2. Range(d) = Done(s) \cup Queued(s)
    BY <2>1, RangeConcatenation DEF Scheduler, Done, Queued
  <2>3. CASE s.active = None
    BY <2>1, <2>2, <2>3 DEF Dropped, Done, Slot
  <2>4. CASE s.active # None
    <3>1. s.active \in Calls /\ <<s.active>> \in Seq(Calls)
      BY <2>4 DEF Scheduler
    <3>2. u.completed = d \o <<s.active>>
      BY <2>1, <2>4, <3>1, AppendIsConcat DEF Dropped
    <3>3. Range(<<s.active>>) = {s.active}
      BY DEF Range
    <3>4. Range(u.completed) = Range(d) \cup {s.active}
      <4>1. PICK h \in Seq(Calls) : h = <<s.active>>
        BY <3>1
      <4>2. Range(h) = {s.active} /\ u.completed = d \o h
        BY <3>2, <3>3, <4>1
      <4> QED BY <3>1, <4>2, RangeConcatenation
    <3> QED BY <2>2, <2>4, <3>4 DEF Done, Slot
  <2> QED BY <2>3, <2>4
<1>3. \A c \in Calls :
        u.status[c] = IF \/ c \in Queued(s) /\ s.status[c] # "error"
                         \/ Live(s, c)
                      THEN "cancelled" ELSE s.status[c]
  BY DEF Dropped
<1>4. \A c \in Calls : u.status[c] # "scheduled" /\ (u.status[c] = "none" <=> c \notin T)
  <2>1. \A c \in Calls : Live(s, c) => c \in T
    BY DEF Live, Placed, Slot
  <2> QED BY <1>3, <2>1 DEF Placed
<1>5. \A c \in Done(u) \cup Handed(u) : u.status[c] \in Terminal
  <2> SUFFICES ASSUME NEW c \in Done(u) \cup Handed(u) PROVE u.status[c] \in Terminal
    OBVIOUS
  <2>1. c \in Calls /\ c \in Done(s) \cup Handed(s) \cup Queued(s) \cup Slot(s)
    BY <1>1, <1>2, SetsInCalls
  <2>2. CASE c \in Done(s) \cup Handed(s)
    BY <1>3, <2>1, <2>2 DEF Placed, Terminal
  <2>3. CASE c \in Queued(s)
    BY <1>3, <2>1, <2>3 DEF Terminal
  <2>4. CASE c \in Slot(s)
    <3>1. s.active = c /\ s.active # None
      BY <2>4 DEF Slot
    <3>2. s.status[c] \in Unfinished \cup {"error"}
      BY <3>1 DEF SlotOpen
    <3>3. s.status[c] = "error" \/ Live(s, c)
      BY <3>1, <3>2 DEF Live, Unfinished, Terminal
    <3> QED BY <1>3, <2>1, <3>3 DEF Terminal
  <2> QED BY <2>1, <2>2, <2>3, <2>4
<1>6. u.chain = s.chain
  BY DEF Dropped
<1> QED BY <1>1, <1>2, <1>4, <1>5, <1>6 DEF Placed

LEMMA setsPlaced ==
  ASSUME NEW s \in Scheduler, NEW t, NEW c \in Calls, NEW new \in Unfinished \cup Terminal,
         Sets(s, t, c, new), NEW T, Placed(s, T)
  PROVE  Placed(t, T)
<1>1. /\ Queued(t) = Queued(s) /\ Slot(t) = Slot(s)
      /\ Done(t) = Done(s) /\ Handed(t) = Handed(s)
  BY SameSets DEF Sets
<1>2. \A d \in Calls : t.status[d] = s.status[d] \/ (d \in Slot(s) /\ t.status[d] = new)
  BY DEF Sets, Live, Slot
<1>3. \A d \in Calls : t.status[d] # "scheduled" /\ (t.status[d] = "none" <=> d \notin T)
  <2>1. new # "none" /\ new # "scheduled"
    BY DEF Unfinished, Terminal
  <2> QED BY <1>2, <2>1 DEF Placed
<1>4. \A d \in Queued(s) \cup Done(s) \cup Handed(s) : t.status[d] = s.status[d]
  BY <1>2, SetsInCalls DEF Placed
<1> QED BY <1>1, <1>3, <1>4 DEF Sets, Placed

LEMMA runsPlaced ==
  ASSUME NEW s \in Scheduler, NEW o \in Owner, NEW t, NEW c \in Calls, NEW sig,
         Runs(s, t, o, c, sig), NEW T, Placed(s, T)
  PROVE  Placed(t, T) /\ (SlotOpen(s) => SlotOpen(t))
<1>1. /\ Queued(t) = Queued(s) /\ Slot(t) = Slot(s)
      /\ Done(t) = Done(s) /\ Handed(t) = Handed(s)
  BY SameSets DEF Runs
<1>2. c \in Slot(s) /\ s.active = c
  BY SchedulerAssumption DEF Runs, Slot
<1>3. \A d \in Calls : t.status[d] = IF d = c THEN "executing" ELSE s.status[d]
  BY DEF Runs
<1>4. \A d \in Calls : t.status[d] # "scheduled" /\ (t.status[d] = "none" <=> d \notin T)
  BY <1>2, <1>3 DEF Placed
<1>5. \A d \in Queued(s) \cup Done(s) \cup Handed(s) : t.status[d] = s.status[d]
  BY <1>2, <1>3, SetsInCalls DEF Placed
<1>6. \A p \in Owner : t.chain[p].call # None => t.chain[p].call \in T \ Queued(t)
  <2>1. \A p \in Owner : t.chain[p] = IF p = o THEN Waiting("executing", c, sig, None)
                                      ELSE s.chain[p]
    BY DEF Runs, Scheduler
  <2> QED BY <1>1, <1>2, <2>1 DEF Waiting, Placed
<1>7. SlotOpen(s) => SlotOpen(t)
  BY <1>2, <1>3 DEF SlotOpen, Unfinished, Runs
<1> QED BY <1>1, <1>4, <1>5, <1>6, <1>7 DEF Runs, Placed

LEMMA enqueuedPlaced ==
  ASSUME NEW s \in Scheduler, NEW u \in Scheduler, NEW r \in Requests, NEW bad,
         Enqueued(s, u, r, bad), NEW T, Placed(s, T), CallSet(r) \cap T = {}
  PROVE  Placed(u, T \cup CallSet(r))
<1>1. CallsOf[r] \in Seq(Calls) /\ s.toolCallQueue \in Seq(Calls)
  BY SchedulerAssumption DEF Scheduler
<1>2. IsInjective(CallsOf[r])
  BY DistinctCalls DEF IsInjective
<1>3. Queued(u) = Queued(s) \cup CallSet(r)
  BY <1>1, RangeConcatenation DEF Enqueued, Queued, CallSet
<1>4. IsInjective(u.toolCallQueue)
  <2>1. Range(s.toolCallQueue) \cap Range(CallsOf[r]) = {}
    BY DEF Placed, Queued, CallSet
  <2>2. IsInjective(s.toolCallQueue \o CallsOf[r])
    BY <1>1, <1>2, <2>1, InjectiveParts DEF Placed
  <2> QED BY <2>2 DEF Enqueued
<1>5. Slot(u) = Slot(s) /\ Done(u) = {} /\ Handed(u) = Handed(s) /\ u.chain = s.chain
  BY DEF Enqueued, Slot, Done, Handed, Range
<1>6. \A c \in Calls : u.status[c] = IF c \notin CallSet(r) THEN s.status[c]
                                     ELSE IF c \in bad THEN "error" ELSE "validating"
  BY DEF Enqueued
<1>7. CallSet(r) \subseteq Calls
  BY <1>1, RangeOfSeq DEF CallSet
<1>8. \A c \in Calls : u.status[c] # "scheduled"
                       /\ (u.status[c] = "none" <=> c \notin T \cup CallSet(r))
  BY <1>6 DEF Placed
<1>9. \A c \in Queued(u) : u.status[c] \in {"validating", "error"}
  BY <1>3, <1>6, SetsInCalls DEF Placed
<1>10. \A c \in Done(u) \cup Handed(u) : u.status[c] \in Terminal
  BY <1>5, <1>6, SetsInCalls DEF Placed
<1>11. \A p \in Owner : u.chain[p].call # None
                          => u.chain[p].call \in (T \cup CallSet(r)) \ Queued(u)
  BY <1>3, <1>5 DEF Placed
<1>12. /\ Queued(u) \cup Slot(u) \cup Done(u) \cup Handed(u) \subseteq T \cup CallSet(r)
       /\ Queued(u) \cap Slot(u) = {}
       /\ (Queued(u) \cup Slot(u)) \cap (Done(u) \cup Handed(u)) = {}
  BY <1>3, <1>5 DEF Placed
<1> QED BY <1>4, <1>8, <1>9, <1>10, <1>11, <1>12 DEF Placed

------------------------------------------------------------------------------
(***************************************************************************)
(* What each action does to the scheduler.                                 *)
(***************************************************************************)
Same(s, t) ==
  /\ t.requestQueue = s.requestQueue /\ t.aborted = s.aborted
  /\ t.isScheduling = s.isScheduling /\ t.isCancelling = s.isCancelling
  /\ t.active = s.active /\ t.toolCallQueue = s.toolCallQueue
  /\ t.completed = s.completed
  /\ t.reports = s.reports /\ t.isFinalizing = s.isFinalizing

(* The result of an execution is put in the slot, if the call is there.    *)
Marks(s, t, c, new) ==
  /\ Same(s, t) /\ t.prompted = s.prompted /\ t.chain = s.chain
  /\ \A d \in Calls : t.status[d] = IF d = c /\ s.active = c THEN new ELSE s.status[d]

(* The user is asked.                                                      *)
Asks(s, t, o, c, sig) ==
  /\ Same(s, t)
  /\ t.prompted = IF Live(s, c) \/ Ide THEN [s.prompted EXCEPT ![c] = sig] ELSE s.prompted
  /\ \A d \in Calls :
       t.status[d] = IF d = c /\ Live(s, c) THEN "awaiting_approval" ELSE s.status[d]
  /\ t.chain = [s.chain EXCEPT ![o] = Returned(o)]

(* A modification ends: the call awaits approval again, or is an error.    *)
Reopens(s, t, o, c, new) ==
  /\ Same(s, t) /\ t.prompted = s.prompted
  /\ \A d \in Calls : t.status[d] = IF d = c /\ Live(s, c) THEN new ELSE s.status[d]
  /\ t.chain = [s.chain EXCEPT ![o] = Returned(o)]

(* A response waits: for onConfirm, the editor or the inline change.       *)
Answers(s, t, o, w) ==
  /\ Same(s, t) /\ t.prompted = s.prompted
  /\ t.chain = [s.chain EXCEPT ![o] = w]
  /\ \/ w.at \in {"confirming", "inlining"} /\ t.status = s.status
     \/ /\ w.at = "editing"
        /\ \A d \in Calls : t.status[d] = IF d = w.call /\ Live(s, w.call)
                                          THEN "awaiting_approval" ELSE s.status[d]

Proceeding(s, t, o, c, sig) ==
  IF Live(s, c) THEN Runs(s, t, o, c, sig) ELSE Returns(s, t, o)

Fails(s, t, o) ==
  \E v \in Scheduler, new \in {"error", "cancelled"} :
    /\ s.chain[o].at = "validating"
    /\ Sets(s, v, s.chain[o].call, new)
    /\ new = "cancelled" => s.chain[o].signal \in s.aborted
    /\ Settles(v, t, o, s.chain[o].signal)

Finished(s, t, o) ==
  \E v \in Scheduler, new \in Terminal :
    /\ s.chain[o].at = "executing"
    /\ Marks(s, v, s.chain[o].call, new)
    /\ new = "cancelled" => s.chain[o].signal \in s.aborted
    /\ Settles(v, t, o, s.chain[o].signal)

(* How a response is handled.                                              *)
Handles(s, t, o, c, outcome, sig, found) ==
  \/ (outcome = "Cancel" \/ sig \in s.aborted) /\ Clears(s, t, o, sig)
  \/ /\ outcome # "Cancel" /\ sig \notin s.aborted
     /\ \/ outcome = "ModifyWithEditor" /\ Returns(s, t, o)
        \/ /\ outcome = "ModifyWithEditor" /\ found
           /\ Answers(s, t, o, Waiting("editing", c, sig, None))
        \/ /\ outcome = "ProceedInline" /\ found
           /\ Answers(s, t, o, Waiting("inlining", c, sig, None))
        \/ /\ outcome # "ModifyWithEditor" /\ ~(outcome = "ProceedInline" /\ found)
           /\ Proceeding(s, t, o, c, sig)

LEMMA respondSteps ==
  ASSUME NEW s \in Scheduler, NEW o \in Owner, NEW c \in Calls, NEW outcome,
         NEW sig \in Signals, NEW found, Queued(s) \cap Slot(s) = {},
         \A d \in Calls : s.status[d] # "scheduled",
         NEW t, t \in respond(s, o, c, outcome, sig, found)
  PROVE  Handles(s, t, o, c, outcome, sig, found)
<1>1. CASE outcome = "Cancel" \/ sig \in s.aborted
  <2>1. t = cancelAll(s, o, sig)
    BY <1>1 DEF respond
  <2> QED BY <1>1, <2>1, cancelAllSteps DEF Handles
<1>2. CASE outcome # "Cancel" /\ sig \notin s.aborted
  <2>1. CASE t = Return(s, o) /\ outcome = "ModifyWithEditor"
    BY <1>2, <2>1, ReturnReturns DEF Handles
  <2>2. CASE /\ outcome = "ModifyWithEditor" /\ found
             /\ t = Suspend(setStatusInternal(s, c, "awaiting_approval"), o, "editing", c, sig)
    <3>1. PICK u \in Scheduler : u = setStatusInternal(s, c, "awaiting_approval")
      BY setStatusType DEF Status
    <3>2. Sets(s, u, c, "awaiting_approval")
      BY <3>1, setStatusSets
    <3>3. PICK w : w = Waiting("editing", c, sig, None)
      OBVIOUS
    <3>4. t = [u EXCEPT !.chain[o] = w] /\ w.at = "editing" /\ w.call = c
      BY <2>2, <3>1, <3>3 DEF Suspend, Waiting
    <3>5. /\ Same(u, t) /\ t.prompted = u.prompted /\ t.status = u.status
          /\ t.chain = [u.chain EXCEPT ![o] = w]
      BY <3>1, <3>4 DEF Same, Scheduler
    <3>6. Answers(s, t, o, w)
      BY <3>2, <3>4, <3>5 DEF Answers, Sets, SameRest, Same
    <3> QED BY <1>2, <2>2, <3>3, <3>6 DEF Handles
  <2>3. CASE /\ outcome = "ProceedInline" /\ found
             /\ t = Suspend(s, o, "inlining", c, sig)
    <3>1. PICK w : w = Waiting("inlining", c, sig, None)
      OBVIOUS
    <3>2. t = [s EXCEPT !.chain[o] = w] /\ w.at = "inlining"
      BY <2>3, <3>1 DEF Suspend, Waiting
    <3>3. Answers(s, t, o, w)
      BY <3>2 DEF Answers, Same, Scheduler
    <3> QED BY <1>2, <2>3, <3>1, <3>3 DEF Handles
  <2>4. CASE /\ outcome # "ModifyWithEditor" /\ ~(outcome = "ProceedInline" /\ found)
             /\ t = scheduleAndRun(s, o, c, sig)
    <3>1. Proceeding(s, t, o, c, sig)
      BY <2>4, scheduleAndRunSteps DEF Proceeding
    <3> QED BY <1>2, <2>4, <3>1 DEF Handles
  <2> QED BY <1>2, <2>1, <2>2, <2>3, <2>4 DEF respond
<1> QED BY <1>1, <1>2

(* The steps after the policy check, for a chain that waits for c.         *)
LEMMA ValidationSteps ==
  ASSUME TypeOK, \A d \in Calls : sch.status[d] # "scheduled", NEW o \in Owner,
         PolicyAllows(o) \/ PolicyDenies(o) \/ PolicyAsks(o) \/ ValidationFails(o)
  PROVE  /\ Now(o, "validating")
         /\ \/ Proceeding(sch, sch', o, sch.chain[o].call, sch.chain[o].signal)
            \/ Fails(sch, sch', o)
            \/ Asks(sch, sch', o, sch.chain[o].call, sch.chain[o].signal) /\ Interactive
<1>1. Now(o, "validating") /\ sch \in Scheduler
  BY DEF PolicyAllows, PolicyDenies, PolicyAsks, ValidationFails, TypeOK
<1>2. PICK c \in Calls, sig \in Signals : c = sch.chain[o].call /\ sig = sch.chain[o].signal
  <2>1. sch.chain[o].call \in Calls /\ sch.chain[o].signal \in Signals
    BY <1>1, ForACallType DEF Now, ForACall
  <2> QED BY <2>1
<1>3. CASE PolicyAllows(o)
  <2>1. sch' = scheduleAndRun(sch, o, c, sig)
    BY <1>2, <1>3 DEF PolicyAllows
  <2>2. Proceeding(sch, sch', o, c, sig)
    BY <1>1, <2>1, scheduleAndRunSteps DEF Proceeding
  <2> QED BY <1>1, <1>2, <2>2
<1>4. ASSUME NEW new \in {"error", "cancelled"}, new = "cancelled" => sig \in sch.aborted,
             sch' = checkAndNotifyCompletion(setStatusInternal(sch, c, new), o, sig)
      PROVE  Fails(sch, sch', o)
  <2>1. PICK v \in Scheduler : v = setStatusInternal(sch, c, new)
    BY <1>1, setStatusType DEF Status, Terminal
  <2>2. Sets(sch, v, c, new)
    BY <1>1, <2>1, setStatusSets
  <2>3. Settles(v, sch', o, sig)
    BY <1>4, <2>1, checkSteps
  <2> QED BY <1>1, <1>2, <1>4, <2>2, <2>3 DEF Fails, Now
<1>5. CASE PolicyDenies(o)
  BY <1>1, <1>2, <1>4, <1>5 DEF PolicyDenies
<1>6. CASE ValidationFails(o)
  <2>1. PICK new \in {"error", "cancelled"} :
          new = IF sig \in sch.aborted THEN "cancelled" ELSE "error"
    OBVIOUS
  <2>2. sch' = checkAndNotifyCompletion(setStatusInternal(sch, c, new), o, sig)
    BY <1>2, <1>6, <2>1 DEF ValidationFails
  <2> QED BY <1>1, <1>4, <2>1, <2>2
<1>7. CASE PolicyAsks(o)
  <2>1. PICK a \in Scheduler :
          a = IF Live(sch, c) \/ Ide THEN [sch EXCEPT !.prompted[c] = sig] ELSE sch
    <3>1. [sch EXCEPT !.prompted[c] = sig] \in Scheduler
      BY <1>1 DEF Scheduler
    <3> QED BY <1>1, <3>1
  <2>2. /\ Same(sch, a) /\ a.status = sch.status /\ a.chain = sch.chain
        /\ a.prompted = IF Live(sch, c) \/ Ide THEN [sch.prompted EXCEPT ![c] = sig]
                        ELSE sch.prompted
        /\ Live(a, c) <=> Live(sch, c)
    BY <1>1, <2>1 DEF Same, Scheduler, Live
  <2>3. PICK v \in Scheduler : v = setStatusInternal(a, c, "awaiting_approval")
    BY <2>1, setStatusType DEF Status
  <2>4. Sets(a, v, c, "awaiting_approval")
    BY <2>1, <2>3, setStatusSets
  <2>5. sch' = attemptExecution(v, o, sig) /\ Interactive
    BY <1>2, <1>7, <2>1, <2>3 DEF PolicyAsks
  <2>6. \A d \in Calls : v.status[d] = IF d = c /\ Live(sch, c) THEN "awaiting_approval"
                                       ELSE sch.status[d]
    BY <2>2, <2>4 DEF Sets
  <2>7. Returns(v, sch', o)
    BY <2>3, <2>5, <2>6, attemptReturns
  <2>8. Same(sch, sch') /\ sch'.prompted = a.prompted
    BY <2>2, <2>4, <2>7 DEF Same, Sets, Returns, SameRest
  <2>9. sch'.chain = [sch.chain EXCEPT ![o] = Returned(o)] /\ sch'.status = v.status
    BY <2>2, <2>4, <2>7 DEF Sets, Returns
  <2>10. Asks(sch, sch', o, c, sig)
    BY <2>2, <2>6, <2>8, <2>9 DEF Asks
  <2> QED BY <1>1, <1>2, <2>5, <2>10
<1> QED BY <1>3, <1>5, <1>6, <1>7

LEMMA ExecutedSteps ==
  ASSUME TypeOK, NEW o \in Owner, NEW result \in Terminal, Executed(o, result)
  PROVE  Finished(sch, sch', o)
<1>1. PICK c \in Calls, sig \in Signals : c = sch.chain[o].call /\ sig = sch.chain[o].signal
  <2>1. sch.chain[o].call \in Calls /\ sch.chain[o].signal \in Signals
    BY ForACallType DEF Executed, Now, ForACall
  <2> QED BY <2>1
<1>2. PICK v \in Scheduler :
        v = IF sch.active = c THEN [sch EXCEPT !.status[c] = result] ELSE sch
  <2>1. sch \in Scheduler /\ [sch EXCEPT !.status[c] = result] \in Scheduler
    BY DEF TypeOK, Scheduler, Status
  <2> QED BY <2>1
<1>3. Marks(sch, v, c, result)
  BY <1>2 DEF Marks, Same, TypeOK, Scheduler
<1>4. sch' = checkAndNotifyCompletion(v, o, sig)
  BY <1>1, <1>2 DEF Executed
<1>5. Settles(v, sch', o, sig)
  BY <1>4, checkSteps
<1>6. sch.chain[o].at = "executing" /\ (result = "cancelled" => sig \in sch.aborted)
  BY <1>1 DEF Executed, Now
<1> QED BY <1>1, <1>3, <1>5, <1>6 DEF Finished

LEMMA ModificationSteps ==
  ASSUME TypeOK, SlotOpen(sch), \A d \in Calls : sch.status[d] # "scheduled",
         NEW o \in Owner, sch.chain[o].at \in {"editing", "inlining"},
         (\E built \in BOOLEAN : Modified(o, built))
           \/ NotEdited(o) \/ NotInlined(o) \/ ModifyThrows(o)
  PROVE  \/ Reopens(sch, sch', o, sch.chain[o].call, "awaiting_approval")
         \/ /\ Reopens(sch, sch', o, sch.chain[o].call, "error") 
            /\ "rebuild" \in MayThrow
         \/ /\ Now(o, "inlining")
            /\ Proceeding(sch, sch', o, sch.chain[o].call, sch.chain[o].signal)
         \/ Returns(sch, sch', o)
<1>1. PICK c \in Calls, sig \in Signals : c = sch.chain[o].call /\ sig = sch.chain[o].signal
  <2>1. sch.chain[o].call \in Calls /\ sch.chain[o].signal \in Signals
    BY ForACallType DEF ForACall
  <2> QED BY <2>1
<1>2. sch \in Scheduler
  BY DEF TypeOK
<1>3. ASSUME NEW v \in Scheduler, NEW new, new # "scheduled", Sets(sch, v, c, new),
             sch' = attemptExecution(v, o, sig)
      PROVE  Reopens(sch, sch', o, c, new)
  <2>1. \A d \in Calls : v.status[d] = IF d = c /\ Live(sch, c) THEN new ELSE sch.status[d]
    BY <1>3 DEF Sets
  <2>2. Returns(v, sch', o)
    BY <1>3, <2>1, attemptReturns
  <2>3. Same(sch, sch') /\ sch'.prompted = sch.prompted
    BY <1>3, <2>2 DEF Same, Sets, Returns, SameRest
  <2>4. sch'.chain = [sch.chain EXCEPT ![o] = Returned(o)] /\ sch'.status = v.status
    BY <1>3, <2>2 DEF Sets, Returns
  <2> QED BY <2>1, <2>3, <2>4 DEF Reopens
<1>4. PICK u \in Scheduler : u = setStatusInternal(sch, c, "awaiting_approval")
  BY <1>2, setStatusType DEF Status
<1>5. Sets(sch, u, c, "awaiting_approval")
  BY <1>2, <1>4, setStatusSets
<1>6. CASE NotEdited(o)
  <2>1. sch' = attemptExecution(u, o, sig)
    BY <1>1, <1>4, <1>6 DEF NotEdited
  <2> QED BY <1>1, <1>3, <1>5, <2>1
<1>7. CASE NotInlined(o)
  <2>1. sch' = scheduleAndRun(sch, o, c, sig) /\ Now(o, "inlining")
    BY <1>1, <1>7 DEF NotInlined
  <2> QED BY <1>1, <1>2, <2>1, scheduleAndRunSteps DEF Proceeding
<1>8. CASE ModifyThrows(o)
  BY <1>2, <1>8, ReturnReturns DEF ModifyThrows
<1>9. ASSUME NEW built \in BOOLEAN, Modified(o, built)
      PROVE  \/ Reopens(sch, sch', o, c, "awaiting_approval")
             \/ Reopens(sch, sch', o, c, "error") /\ "rebuild" \in MayThrow
  <2>1. sch' = attemptExecution(
                 setStatusInternal(setArgs(sch, c, built), c, "awaiting_approval"), o, sig)
    BY <1>1, <1>9 DEF Modified
  <2>2. CASE built \/ sch.active # c \/ sch.status[c] = "error"
    <3>1. sch' = attemptExecution(u, o, sig)
      BY <1>4, <2>1, <2>2 DEF setArgs
    <3> QED BY <1>3, <1>5, <3>1
  <2>3. CASE ~(built \/ sch.active # c \/ sch.status[c] = "error")
    <3>1. Live(sch, c)
      BY <2>3, SchedulerAssumption DEF Live, SlotOpen, Unfinished, Terminal
    <3>2. PICK v \in Scheduler : v = [sch EXCEPT !.status[c] = "error"]
      <4>1. [sch EXCEPT !.status[c] = "error"] \in Scheduler
        BY <1>2 DEF Scheduler, Status, Terminal
      <4> QED BY <4>1
    <3>3. Sets(sch, v, c, "error")
      BY <1>2, <3>1, <3>2 DEF Sets, SameRest, Scheduler
    <3>4. v.status[c] = "error"
      BY <1>2, <3>2 DEF Scheduler
    <3>5. sch' = attemptExecution(v, o, sig)
      BY <2>1, <2>3, <3>2, <3>4 DEF setArgs, setStatusInternal, Live, Terminal
    <3>6. "rebuild" \in MayThrow
      BY <1>9, <2>3 DEF Modified
    <3> QED BY <1>3, <3>3, <3>5, <3>6
  <2> QED BY <2>2, <2>3
<1> QED BY <1>1, <1>6, <1>7, <1>8, <1>9

(* What a filter keeps: each kept position counts the kept ones up to it.  *)
LEMMA KeepElements ==
  ASSUME NEW R, NEW S, NEW q \in Seq(R)
  PROVE  /\ Range(Keep(q, S)) = Range(q) \cap S
         /\ IsInjective(q) => IsInjective(Keep(q, S))
<1> DEFINE kept == {i \in DOMAIN q : q[i] \in S}
           upTo(i) == Cardinality(kept \cap (1..i))
           at(n) == CHOOSE i \in kept : upTo(i) = n
<1>1. kept \in SUBSET (1..Len(q)) /\ Len(q) \in Nat /\ DOMAIN q = 1..Len(q)
  OBVIOUS
<1>2. Cardinality(kept) \in Nat /\ IsFiniteSet(kept)
  <2> HIDE DEF kept
  <2> QED BY <1>1, BoundedIsFinite
<1>3. ASSUME NEW i \in kept, NEW j \in kept, upTo(i) = upTo(j) PROVE i = j
  <2>1. ASSUME NEW k \in kept, NEW l \in kept, k < l PROVE upTo(k) < upTo(l)
    <3> DEFINE A == kept \cap (1..k)
               B == kept \cap (1..l)
    <3>1. B \in SUBSET (1..Len(q)) /\ l \in B /\ l \notin A /\ A \subseteq B
      BY <1>1, <2>1
    <3> HIDE DEF kept, A, B
    <3>2. IsFiniteSet(B)
      BY <1>1, <3>1, BoundedIsFinite
    <3>3. A # B
      BY <3>1
    <3>4. Cardinality(A) < Cardinality(B)
      <4>1. Cardinality(A) <= Cardinality(B) /\ Cardinality(A) # Cardinality(B)
        BY <3>1, <3>2, <3>3, FS_Subset
      <4>2. IsFiniteSet(A)
        BY <3>1, <3>2, FS_Subset
      <4>3. Cardinality(A) \in Nat /\ Cardinality(B) \in Nat
        BY <3>2, <4>2, FS_CardinalityType
      <4> QED BY <4>1, <4>3
    <3> QED BY <3>4 DEF A, B
  <2>2. i \in Nat /\ j \in Nat
    BY <1>1
  <2>3. upTo(i) \in Nat /\ upTo(j) \in Nat
    <3>1. \A k \in 1..Len(q) : kept \cap (1..k) \in SUBSET (1..Len(q))
      BY <1>1
    <3> HIDE DEF kept
    <3> QED BY <1>1, <3>1, BoundedIsFinite
  <2>4. CASE i < j
    <3>1. upTo(i) < upTo(j)
      BY <2>1, <2>4
    <3> HIDE DEF upTo
    <3> QED BY <1>3, <2>3, <3>1
  <2>5. CASE j < i
    <3>1. upTo(j) < upTo(i)
      BY <2>1, <2>5
    <3> HIDE DEF upTo
    <3> QED BY <1>3, <2>3, <3>1
  <2> QED BY <2>2, <2>4, <2>5
<1>4. ASSUME NEW i \in kept PROVE upTo(i) \in 1..Cardinality(kept)
  <2> DEFINE A == kept \cap (1..i)
  <2>1. i \in A /\ A \subseteq kept
    BY <1>1
  <2> HIDE DEF kept, A
  <2>2. IsFiniteSet(A) /\ Cardinality(A) <= Cardinality(kept) /\ A # {}
    BY <1>2, <2>1, FS_Subset
  <2>3. Cardinality(A) \in Nat /\ Cardinality(A) # 0
    BY <2>2, FS_CardinalityType, FS_EmptySet
  <2>4. Cardinality(A) \in 1..Cardinality(kept)
    BY <1>2, <2>2, <2>3
  <2> QED BY <2>4 DEF A
<1>5. ASSUME NEW n \in 1..Cardinality(kept) PROVE at(n) \in kept /\ upTo(at(n)) = n
  <2>1. \E i \in kept : upTo(i) = n
    <3> HIDE DEF kept
    <3> QED BY <1>1, NthElement
  <2> HIDE DEF kept, upTo
  <2> QED BY <2>1
<1>6. ASSUME NEW i \in kept PROVE at(upTo(i)) = i
  <2>1. at(upTo(i)) \in kept /\ upTo(at(upTo(i))) = upTo(i)
    BY <1>4, <1>5
  <2> HIDE DEF kept, upTo, at
  <2> QED BY <1>3, <2>1
<1>7. Keep(q, S) = [n \in 1..Cardinality(kept) |-> q[at(n)]]
  BY DEF Keep
<1>8. \A i \in kept : q[i] \in Range(q) \cap S
  BY DEF Range
<1>9. \A x \in Range(q) \cap S : \E i \in kept : q[i] = x
  BY DEF Range
<1> HIDE DEF kept, upTo, at
<1>10. Range(Keep(q, S)) \subseteq Range(q) \cap S
  BY <1>5, <1>7, <1>8 DEF Range
<1>11. ASSUME NEW x \in Range(q) \cap S PROVE x \in Range(Keep(q, S))
  <2>1. PICK i \in kept : q[i] = x
    BY <1>9
  <2>2. Keep(q, S)[upTo(i)] = x /\ upTo(i) \in DOMAIN Keep(q, S)
    BY <1>4, <1>6, <1>7, <2>1
  <2> QED BY <2>2 DEF Range
<1>12. ASSUME IsInjective(q), NEW n \in 1..Cardinality(kept), NEW m \in 1..Cardinality(kept),
              q[at(n)] = q[at(m)]
       PROVE  n = m
  <2>1. at(n) \in kept /\ at(m) \in kept
    BY <1>5
  <2>2. at(n) \in DOMAIN q /\ at(m) \in DOMAIN q
    BY <1>1, <2>1
  <2>3. at(n) = at(m)
    BY <1>12, <2>2 DEF IsInjective
  <2> QED BY <1>5, <2>3
<1>13. IsInjective(q) => IsInjective(Keep(q, S))
  BY <1>7, <1>12 DEF IsInjective
<1> QED BY <1>10, <1>11, <1>13

(* Aborting a signal takes the requests queued under it out of the queue.  *)
Aborts(s, t, sig) ==
  /\ t.aborted = s.aborted \cup {sig}
  /\ t.requestQueue = Keep(s.requestQueue, {r \in Requests : SignalOf[r] # sig})
  /\ t.prompted = s.prompted /\ t.chain = s.chain /\ t.status = s.status
  /\ t.isScheduling = s.isScheduling /\ t.isCancelling = s.isCancelling
  /\ t.active = s.active /\ t.toolCallQueue = s.toolCallQueue
  /\ t.completed = s.completed
  /\ t.reports = s.reports /\ t.isFinalizing = s.isFinalizing

LEMMA abortSteps ==
  ASSUME NEW s \in Scheduler, NEW sig \in Signals, NEW t, t = abort(s, sig)
  PROVE  /\ Aborts(s, t, sig)
         /\ Range(t.requestQueue) = Range(s.requestQueue) \ dropped(s, sig)
         /\ IsInjective(s.requestQueue) => IsInjective(t.requestQueue)
<1>1. Aborts(s, t, sig)
  BY DEF abort, dropAborted, Aborts, Scheduler
<1>2. PICK S : S = {r \in Requests : SignalOf[r] # sig}
  OBVIOUS
<1>3. s.requestQueue \in Seq(Requests)
  BY DEF Scheduler
<1>4. t.requestQueue = Keep(s.requestQueue, S)
  BY <1>1, <1>2 DEF Aborts
<1>5. Range(t.requestQueue) = Range(s.requestQueue) \cap S
  BY <1>3, <1>4, KeepElements
<1>6. Range(s.requestQueue) \cap S = Range(s.requestQueue) \ dropped(s, sig)
  BY <1>2, <1>3, RangeOfSeq DEF dropped
<1>7. IsInjective(s.requestQueue) => IsInjective(t.requestQueue)
  BY <1>3, <1>4, KeepElements
<1> QED BY <1>1, <1>5, <1>6, <1>7

(* The batch was handed over: the scheduler is ready for the next request. *)
Resets(s, u, o) ==
  /\ u.aborted = s.aborted /\ u.prompted = s.prompted
  /\ u.isScheduling = s.isScheduling
  /\ ~u.isCancelling /\ ~u.isFinalizing
  /\ u.completed = <<>>
  /\ u.active = s.active /\ u.toolCallQueue = s.toolCallQueue
  /\ u.status = s.status /\ u.reports = s.reports
  /\ u.chain = [s.chain EXCEPT ![o] = Returned(o)]

Next1(s, u, t, o, r) ==
  /\ Resets(s, u, o)
  /\ s.requestQueue # <<>> /\ r = Head(s.requestQueue) /\ u.requestQueue = Tail(s.requestQueue)
  /\ IF isRunning(u) THEN Refused(u, t) ELSE \E bad \in SUBSET CallSet(r) : Enters(u, t, r, bad)

LEMMA HandlerSteps ==
  ASSUME TypeOK, NEW o \in Owner, HandlerReturns(o)
  PROVE  /\ Now(o, "finalizing")
         /\ \/ /\ Resets(sch, sch', o)
               /\ sch.requestQueue = <<>> /\ sch'.requestQueue = <<>>
               /\ UNCHANGED rejected
            \/ \E u \in Scheduler, r \in Requests :
                 /\ Next1(sch, u, sch', o, r)
                 /\ rejected' = IF isRunning(u) THEN rejected \cup {r} ELSE rejected
<1>1. sch \in Scheduler /\ Now(o, "finalizing")
  BY DEF TypeOK, HandlerReturns
<1>2. PICK x \in Scheduler : x = [sch EXCEPT !.completed = <<>>, !.isFinalizing = FALSE,
                                             !.isCancelling = FALSE]
  <2>1. <<>> \in Seq(Calls)
    OBVIOUS
  <2>2. [sch EXCEPT !.completed = <<>>, !.isFinalizing = FALSE, !.isCancelling = FALSE]
          \in Scheduler
    BY <1>1, <2>1 DEF Scheduler
  <2> QED BY <2>2
<1>3. PICK s \in Scheduler : s = Return(x, o)
  BY <1>2, ReturnType
<1>4. Resets(sch, s, o) /\ s.requestQueue = sch.requestQueue
  BY <1>1, <1>2, <1>3 DEF Return, Resets, Scheduler
<1>5. CASE sch.requestQueue = <<>>
  <2>1. sch' = s /\ UNCHANGED rejected
    BY <1>2, <1>3, <1>4, <1>5 DEF HandlerReturns
  <2> QED BY <1>1, <1>4, <1>5, <2>1
<1>6. CASE sch.requestQueue # <<>>
  <2>1. PICK r \in Requests : r = Head(sch.requestQueue)
    BY <1>1, <1>6, HeadTailProperties DEF Scheduler
  <2>2. PICK u \in Scheduler : u = [s EXCEPT !.requestQueue = Tail(@)]
    <3>1. Tail(s.requestQueue) \in Seq(Requests)
      BY <1>1, <1>4, <1>6, HeadTailProperties DEF Scheduler
    <3>2. [s EXCEPT !.requestQueue = Tail(@)] \in Scheduler
      BY <3>1 DEF Scheduler
    <3> QED BY <3>2
  <2>3. PICK bad \in SUBSET CallSet(r) : sch' = schedule(u, r, bad)
    BY <1>2, <1>3, <1>4, <1>6, <2>1, <2>2 DEF HandlerReturns
  <2>4. rejected' = IF isRunning(s) THEN rejected \cup {r} ELSE rejected
    BY <1>2, <1>3, <1>4, <1>6, <2>1, <2>2 DEF HandlerReturns
  <2>5. isRunning(s) <=> isRunning(u)
    BY <2>2 DEF isRunning, Scheduler
  <2>6. Resets(sch, u, o) /\ u.requestQueue = Tail(sch.requestQueue)
    BY <1>4, <2>2 DEF Resets, Scheduler
  <2>7. IF isRunning(u) THEN Refused(u, sch') ELSE Enters(u, sch', r, bad)
    BY <2>3, scheduleSteps
  <2>8. Next1(sch, u, sch', o, r)
    BY <1>6, <2>1, <2>6, <2>7 DEF Next1
  <2> QED BY <1>1, <2>4, <2>5, <2>8
<1> QED BY <1>5, <1>6

(* The requests whose calls the scheduler took over, and those calls.      *)
Entered == {r \in Range(sent) : r \notin rejected /\ r \notin Range(sch.requestQueue)}
Taken == UNION {CallSet(r) : r \in Entered}

(* A request that was sent is queued, rejected or taken over, and queued   *)
(* once.                                                                   *)
RequestsKept ==
  /\ IsInjective(sch.requestQueue)
  /\ Range(sch.requestQueue) \cup rejected \subseteq Range(sent)
  /\ Range(sch.requestQueue) \cap rejected = {}

PlaceInv == TypeOK /\ RequestsKept /\ Placed(sch, Taken) /\ SlotOpen(sch)

LEMMA TakenCalls ==
  ASSUME TypeOK, NEW r \in Requests
  PROVE  /\ Entered \subseteq Requests /\ Taken \subseteq Calls
         /\ CallSet(r) \subseteq Calls /\ CallSet(r) # {}
         /\ r \notin Entered => CallSet(r) \cap Taken = {}
         /\ r \in Entered => CallSet(r) \subseteq Taken
<1>1. sent \in Seq(Requests) /\ \A p \in Requests : CallsOf[p] \in Seq(Calls)
  BY SchedulerAssumption DEF TypeOK
<1>2. Entered \subseteq Requests /\ \A p \in Requests : CallSet(p) \subseteq Calls
  BY <1>1, RangeOfSeq DEF Entered, CallSet
<1>3. CallSet(r) # {}
  <2>1. CallsOf[r] # <<>>
    BY NonemptyBatches
  <2>2. 1 \in DOMAIN CallsOf[r]
    BY <1>1, <2>1
  <2> QED BY <2>2 DEF CallSet, Range
<1>4. ASSUME NEW p \in Requests, p # r PROVE CallSet(r) \cap CallSet(p) = {}
  BY <1>4, DistinctCalls DEF CallSet, Range
<1> QED BY <1>2, <1>3, <1>4 DEF Taken

LEMMA SameEntered ==
  ASSUME RequestsKept, UNCHANGED <<sent, rejected>>, sch'.requestQueue = sch.requestQueue
  PROVE  RequestsKept' /\ Entered' = Entered /\ Taken' = Taken
  BY DEF RequestsKept, Entered, Taken

(* The next request of the queue, or the one that is scheduled, is         *)
(* entered or refused.                                                     *)
LEMMA EnterPlaced ==
  ASSUME NEW s \in Scheduler, NEW r \in Requests, NEW bad \in SUBSET CallSet(r),
         NEW t \in Scheduler, Enters(s, t, r, bad), NEW T, Placed(s, T), SlotOpen(s),
         CallSet(r) \cap T = {}
  PROVE  /\ Placed(t, T \cup CallSet(r)) /\ SlotOpen(t)
         /\ t.requestQueue = s.requestQueue
<1>1. ScheduleChain(r) \in Owner /\ SignalOf[r] \in Signals
  BY SchedulerAssumption DEF Owner, ScheduleChain
<1>2. PICK u \in Scheduler :
          /\ Enqueued(s, u, r, bad)
          /\ IF s.active # None THEN Returns(u, t, ScheduleChain(r))
             ELSE Advances(u, t, ScheduleChain(r), SignalOf[r])
  BY DEF Enters
<1>3. Placed(u, T \cup CallSet(r)) /\ u.active = s.active
  BY <1>2, enqueuedPlaced DEF Enqueued
<1>4. CASE s.active # None
  <2>1. SlotOpen(u)
    <3>1. s.active \in Calls /\ s.active \notin CallSet(r)
      BY <1>4 DEF Scheduler, Placed, Slot
    <3> QED BY <1>2, <1>3, <1>4, <3>1 DEF Enqueued, SlotOpen
  <2>2. t.requestQueue = s.requestQueue
    BY <1>2, <1>4 DEF Enqueued, Returns, SameRest
  <2> QED BY <1>1, <1>2, <1>3, <1>4, <2>1, <2>2, returnPlaced
<1>5. CASE s.active = None
  <2>1. t.requestQueue = s.requestQueue
    BY <1>2, <1>5 DEF Enqueued, Advances, SameRest
  <2> QED BY <1>1, <1>2, <1>3, <1>5, <2>1, advancePlaced
<1> QED BY <1>4, <1>5

LEMMA clearsPlaced ==
  ASSUME NEW s \in Scheduler, NEW o \in Owner, NEW sig \in Signals, NEW t \in Scheduler,
         Clears(s, t, o, sig), NEW T, Placed(s, T), SlotOpen(s)
  PROVE  Placed(t, T) /\ SlotOpen(t) /\ t.requestQueue = s.requestQueue
<1>1. ASSUME NEW u \in Scheduler, Dropped(s, u), Advances(u, t, o, sig)
      PROVE  Placed(t, T) /\ SlotOpen(t) /\ t.requestQueue = s.requestQueue
  <2>1. Placed(u, T) /\ u.active = None /\ u.requestQueue = s.requestQueue
    BY <1>1, droppedPlaced DEF Dropped, SameRest
  <2>2. t.requestQueue = u.requestQueue
    BY <1>1 DEF Advances, SameRest
  <2> QED BY <1>1, <2>1, <2>2, advancePlaced
<1>2. CASE Returns(s, t, o)
  <2>1. t.requestQueue = s.requestQueue
    BY <1>2 DEF Returns, SameRest
  <2> QED BY <1>2, <2>1, returnPlaced
<1> QED BY <1>1, <1>2 DEF Clears

LEMMA settlesPlaced ==
  ASSUME NEW s \in Scheduler, NEW o \in Owner, NEW sig \in Signals, NEW t \in Scheduler,
         Settles(s, t, o, sig), NEW T, Placed(s, T)
  PROVE  Placed(t, T) /\ SlotOpen(t) /\ t.requestQueue = s.requestQueue
<1>1. ASSUME NEW u \in Scheduler, Emptied(s, u), Advances(u, t, o, sig)
      PROVE  Placed(t, T) /\ SlotOpen(t) /\ t.requestQueue = s.requestQueue
  <2>1. Placed(u, T) /\ u.active = None /\ u.requestQueue = s.requestQueue
    BY <1>1, emptiedPlaced DEF Emptied, SameRest
  <2>2. t.requestQueue = u.requestQueue
    BY <1>1 DEF Advances, SameRest
  <2> QED BY <1>1, <2>1, <2>2, advancePlaced
<1>2. CASE s.active # None /\ s.status[s.active] \notin Terminal /\ Returns(s, t, o)
  <2>1. s.active \in Calls /\ s.status[s.active] \in Status /\ s.active \in T
    BY <1>2 DEF Scheduler, Placed, Slot
  <2>2. s.status[s.active] \in Unfinished
    BY <1>2, <2>1 DEF Placed, Status, Unfinished
  <2>3. SlotOpen(s) /\ t.requestQueue = s.requestQueue
    BY <1>2, <2>2 DEF SlotOpen, Returns, SameRest
  <2> QED BY <1>2, <2>3, returnPlaced
<1> QED BY <1>1, <1>2 DEF Settles

LEMMA samePlaced ==
  ASSUME NEW s \in Scheduler, NEW t \in Scheduler, NEW T, Placed(s, T), SlotOpen(s),
         t.active = s.active, t.toolCallQueue = s.toolCallQueue, t.reports = s.reports,
         t.completed = s.completed \/ t.completed = <<>>,
         \A d \in Calls : t.status[d] # s.status[d] =>
           d = s.active /\ t.status[d] \in Unfinished \cup {"error"},
         \A p \in Owner : t.chain[p].call # None =>
           t.chain[p].call = s.chain[p].call \/ t.chain[p].call = s.active
  PROVE  Placed(t, T) /\ SlotOpen(t)
<1>1. /\ Queued(t) = Queued(s) /\ Slot(t) = Slot(s)
      /\ Done(t) \subseteq Done(s) /\ Handed(t) = Handed(s)
  BY DEF Queued, Slot, Done, Handed, Range
<1>2. None \notin Calls
  BY SchedulerAssumption
<1>3. \A d \in Calls : t.status[d] # s.status[d] => d \in Slot(s)
  BY <1>2 DEF Slot
<1>4. \A d \in Calls : t.status[d] # "scheduled" /\ (t.status[d] = "none" <=> d \notin T)
  BY <1>3 DEF Placed, Unfinished
<1>5. \A d \in Queued(s) \cup Done(s) \cup Handed(s) : t.status[d] = s.status[d]
  BY <1>3, SetsInCalls DEF Placed
<1>6. \A p \in Owner : t.chain[p].call # None => t.chain[p].call \in T \ Queued(t)
  <2>1. s.active # None => s.active \in T \ Queued(s)
    BY DEF Placed, Slot
  <2> QED BY <1>1, <2>1 DEF Placed
<1>7. SlotOpen(t)
  <2>1. s.active # None => s.active \in Calls
    BY DEF Scheduler
  <2> QED BY <2>1 DEF SlotOpen
<1> QED BY <1>1, <1>4, <1>5, <1>6, <1>7 DEF Placed

LEMMA PlaceFacts ==
  ASSUME PlaceInv
  PROVE  /\ TypeOK /\ sch \in Scheduler
         /\ \A d \in Calls : sch.status[d] # "scheduled"
         /\ Queued(sch) \cap Slot(sch) = {}
         /\ \A p \in Owner : sch.chain[p].call # None => sch.chain[p].call \in Calls
  BY DEF PlaceInv, Placed, TypeOK, Scheduler, Wait

(* A step that leaves the requests alone.                                  *)
LEMMA PlaceStep ==
  ASSUME PlaceInv, TypeOK', UNCHANGED <<sent, rejected>>,
         sch'.requestQueue = sch.requestQueue,
         Placed(sch', Taken) /\ SlotOpen(sch')
  PROVE  PlaceInv'
<1>1. RequestsKept' /\ Taken' = Taken
  BY SameEntered DEF PlaceInv
<1> QED BY <1>1 DEF PlaceInv

LEMMA ProceedingPlaced ==
  ASSUME NEW s \in Scheduler, NEW o \in Owner, NEW c \in Calls, NEW sig, NEW t,
         Proceeding(s, t, o, c, sig), NEW T, Placed(s, T), SlotOpen(s)
  PROVE  Placed(t, T) /\ SlotOpen(t) /\ t.requestQueue = s.requestQueue
<1>1. CASE Runs(s, t, o, c, sig)
  <2>1. t.requestQueue = s.requestQueue
    BY <1>1 DEF Runs, SameRest
  <2> QED BY <1>1, <2>1, runsPlaced
<1>2. CASE Returns(s, t, o)
  <2>1. t.requestQueue = s.requestQueue
    BY <1>2 DEF Returns, SameRest
  <2> QED BY <1>2, <2>1, returnPlaced
<1> QED BY <1>1, <1>2 DEF Proceeding

LEMMA HandlesPlaced ==
  ASSUME NEW s \in Scheduler, NEW o \in Owner, NEW c \in Calls, NEW outcome,
         NEW sig \in Signals, NEW found, NEW t \in Scheduler,
         Handles(s, t, o, c, outcome, sig, found), NEW T, Placed(s, T), SlotOpen(s),
         found => c \in T \ Queued(s)
  PROVE  Placed(t, T) /\ SlotOpen(t) /\ t.requestQueue = s.requestQueue
<1>1. CASE Clears(s, t, o, sig)
  BY <1>1, clearsPlaced
<1>2. CASE Proceeding(s, t, o, c, sig)
  BY <1>2, ProceedingPlaced
<1>3. CASE Returns(s, t, o)
  <2>1. t.requestQueue = s.requestQueue
    BY <1>3 DEF Returns, SameRest
  <2> QED BY <1>3, <2>1, returnPlaced
<1>4. ASSUME NEW w, Answers(s, t, o, w), w.call = c, found
      PROVE  Placed(t, T) /\ SlotOpen(t) /\ t.requestQueue = s.requestQueue
  <2>1. /\ Queued(t) = Queued(s) /\ Slot(t) = Slot(s)
        /\ Done(t) = Done(s) /\ Handed(t) = Handed(s)
    BY <1>4, SameSets DEF Answers, Same
  <2>2. \A p \in Owner : t.chain[p] = IF p = o THEN w ELSE s.chain[p]
    BY <1>4 DEF Answers, Scheduler
  <2>3. \A d \in Calls : t.status[d] = s.status[d]
                         \/ (Live(s, d) /\ t.status[d] = "awaiting_approval")
    BY <1>4 DEF Answers
  <2>4. \A d \in Calls : Live(s, d) => d \in Slot(s)
    BY DEF Live, Slot
  <2>5. \A d \in Calls : t.status[d] # "scheduled" /\ (t.status[d] = "none" <=> d \notin T)
    BY <2>3, <2>4 DEF Placed
  <2>6. \A d \in Queued(s) \cup Done(s) \cup Handed(s) : t.status[d] = s.status[d]
    BY <2>3, <2>4, SetsInCalls DEF Placed
  <2>7. \A p \in Owner : t.chain[p].call # None => t.chain[p].call \in T \ Queued(t)
    BY <1>4, <2>1, <2>2 DEF Placed
  <2>8. SlotOpen(t)
    <3>1. s.active # None => s.active \in Calls
      BY DEF Scheduler
    <3> QED BY <1>4, <2>3, <3>1 DEF SlotOpen, Answers, Same, Unfinished
  <2>9. t.requestQueue = s.requestQueue /\ t.toolCallQueue = s.toolCallQueue
    BY <1>4 DEF Answers, Same
  <2>10. Placed(t, T)
    <3>1. /\ IsInjective(t.toolCallQueue)
          /\ Queued(t) \cup Slot(t) \cup Done(t) \cup Handed(t) \subseteq T
          /\ Queued(t) \cap Slot(t) = {}
          /\ (Queued(t) \cup Slot(t)) \cap (Done(t) \cup Handed(t)) = {}
      BY <2>1, <2>9 DEF Placed
    <3>2. /\ \A d \in Queued(t) : t.status[d] \in {"validating", "error"}
          /\ \A d \in Done(t) \cup Handed(t) : t.status[d] \in Terminal
      BY <2>1, <2>6 DEF Placed
    <3> QED BY <2>5, <2>7, <3>1, <3>2 DEF Placed
  <2> QED BY <2>8, <2>9, <2>10
<1>5. /\ Waiting("editing", c, sig, None).call = c
      /\ Waiting("inlining", c, sig, None).call = c
  BY DEF Waiting
<1> QED BY <1>1, <1>2, <1>3, <1>4, <1>5 DEF Handles

LEMMA ValidationPlaced ==
  ASSUME PlaceInv, TypeOK', NEW o \in Owner,
         PolicyAllows(o) \/ PolicyDenies(o) \/ PolicyAsks(o) \/ ValidationFails(o)
  PROVE  PlaceInv'
<1>1. sch \in Scheduler /\ sch' \in Scheduler /\ Placed(sch, Taken) /\ SlotOpen(sch)
  BY DEF PlaceInv, TypeOK
<1>2. /\ Now(o, "validating")
      /\ \/ Proceeding(sch, sch', o, sch.chain[o].call, sch.chain[o].signal)
         \/ Fails(sch, sch', o)
         \/ Asks(sch, sch', o, sch.chain[o].call, sch.chain[o].signal)
  BY PlaceFacts, ValidationSteps
<1>3. sch.chain[o].call \in Calls /\ sch.chain[o].signal \in Signals
  BY <1>2, PlaceFacts, ForACallType DEF Now, ForACall
<1>4. UNCHANGED <<sent, rejected>>
  BY DEF PolicyAllows, PolicyDenies, PolicyAsks, ValidationFails
<1>5. CASE Proceeding(sch, sch', o, sch.chain[o].call, sch.chain[o].signal)
  BY <1>1, <1>3, <1>4, <1>5, ProceedingPlaced, PlaceStep
<1>6. CASE Fails(sch, sch', o)
  <2>1. PICK v \in Scheduler, new \in {"error", "cancelled"} :
          /\ Sets(sch, v, sch.chain[o].call, new)
          /\ Settles(v, sch', o, sch.chain[o].signal)
    BY <1>6 DEF Fails
  <2>2. new \in Unfinished \cup Terminal
    BY DEF Terminal
  <2>5. PICK c \in Calls : c = sch.chain[o].call
    BY <1>3
  <2>6. Sets(sch, v, c, new) /\ v.requestQueue = sch.requestQueue
    BY <2>1, <2>5 DEF Sets, SameRest
  <2>3. Placed(v, Taken) /\ v.requestQueue = sch.requestQueue
    BY <1>1, <2>2, <2>6, setsPlaced
  <2>4. Placed(sch', Taken) /\ SlotOpen(sch') /\ sch'.requestQueue = v.requestQueue
    BY <1>1, <1>3, <2>1, <2>3, settlesPlaced
  <2> QED BY <1>4, <2>3, <2>4, PlaceStep
<1>7. CASE Asks(sch, sch', o, sch.chain[o].call, sch.chain[o].signal)
  <2>1. \A p \in Owner : sch'.chain[p].call # None => sch'.chain[p] = sch.chain[p]
    BY <1>1, <1>7, ChainsAfterReturn DEF Asks
  <2>2. \A d \in Calls : sch'.status[d] # sch.status[d] =>
           d = sch.active /\ sch'.status[d] \in Unfinished \cup {"error"}
    BY <1>7 DEF Asks, Live, Unfinished
  <2>3. /\ sch'.active = sch.active /\ sch'.toolCallQueue = sch.toolCallQueue
        /\ sch'.reports = sch.reports /\ sch'.completed = sch.completed
        /\ sch'.requestQueue = sch.requestQueue
    BY <1>7 DEF Asks, Same
  <2>4. Placed(sch', Taken) /\ SlotOpen(sch')
    BY <1>1, <2>1, <2>2, <2>3, samePlaced
  <2> QED BY <1>4, <2>3, <2>4, PlaceStep
<1> QED BY <1>2, <1>5, <1>6, <1>7

(* The same for the result of a tool.                                      *)
LEMMA marksPlaced ==
  ASSUME NEW s \in Scheduler, NEW v \in Scheduler, NEW c \in Calls, NEW new \in Terminal,
         Marks(s, v, c, new), NEW T, Placed(s, T)
  PROVE  Placed(v, T)
<1>1. /\ Queued(v) = Queued(s) /\ Slot(v) = Slot(s)
      /\ Done(v) = Done(s) /\ Handed(v) = Handed(s)
  BY SameSets DEF Marks, Same
<1>2. \A d \in Calls : v.status[d] = s.status[d] \/ (d \in Slot(s) /\ v.status[d] = new)
  BY SchedulerAssumption DEF Marks, Slot
<1>3. \A d \in Calls : v.status[d] # "scheduled" /\ (v.status[d] = "none" <=> d \notin T)
  BY <1>2 DEF Placed, Terminal
<1>4. \A d \in Queued(s) \cup Done(s) \cup Handed(s) : v.status[d] = s.status[d]
  BY <1>2, SetsInCalls DEF Placed
<1> QED BY <1>1, <1>3, <1>4 DEF Marks, Same, Placed

LEMMA ExecutedPlaced ==
  ASSUME PlaceInv, TypeOK', NEW o \in Owner, NEW result \in Terminal, Executed(o, result)
  PROVE  PlaceInv'
<1>1. sch \in Scheduler /\ sch' \in Scheduler /\ Placed(sch, Taken) /\ SlotOpen(sch)
  BY DEF PlaceInv, TypeOK
<1>2. PICK v \in Scheduler, new \in Terminal :
        /\ sch.chain[o].at = "executing"
        /\ Marks(sch, v, sch.chain[o].call, new)
        /\ Settles(v, sch', o, sch.chain[o].signal)
  BY PlaceFacts, ExecutedSteps DEF Finished
<1>3. sch.chain[o].call \in Calls /\ sch.chain[o].signal \in Signals
  BY <1>2, PlaceFacts, ForACallType DEF ForACall
<1>4. UNCHANGED <<sent, rejected>>
  BY DEF Executed
<1>5. Placed(v, Taken)
  BY <1>1, <1>2, <1>3, marksPlaced
<1>6. v.requestQueue = sch.requestQueue
  BY <1>2 DEF Marks, Same
<1>7. Placed(sch', Taken) /\ SlotOpen(sch') /\ sch'.requestQueue = v.requestQueue
  BY <1>1, <1>2, <1>3, <1>5, settlesPlaced
<1> QED BY <1>4, <1>6, <1>7, PlaceStep

LEMMA ModificationPlaced ==
  ASSUME PlaceInv, TypeOK', NEW o \in Owner, sch.chain[o].at \in {"editing", "inlining"},
         (\E built \in BOOLEAN : Modified(o, built))
           \/ NotEdited(o) \/ NotInlined(o) \/ ModifyThrows(o)
  PROVE  PlaceInv'
<1>1. sch \in Scheduler /\ sch' \in Scheduler /\ Placed(sch, Taken) /\ SlotOpen(sch)
  BY DEF PlaceInv, TypeOK
<1>2. \/ \E new \in {"awaiting_approval", "error"} : Reopens(sch, sch', o, sch.chain[o].call, new)
      \/ Proceeding(sch, sch', o, sch.chain[o].call, sch.chain[o].signal)
      \/ Returns(sch, sch', o)
  BY <1>1, PlaceFacts, ModificationSteps
<1>3. sch.chain[o].call \in Calls /\ sch.chain[o].signal \in Signals
  BY PlaceFacts, ForACallType DEF ForACall
<1>4. UNCHANGED <<sent, rejected>>
  BY DEF Modified, NotEdited, NotInlined, ModifyThrows
<1>5. CASE Proceeding(sch, sch', o, sch.chain[o].call, sch.chain[o].signal)
  BY <1>1, <1>3, <1>4, <1>5, ProceedingPlaced, PlaceStep
<1>6. CASE Returns(sch, sch', o)
  <2>1. sch'.requestQueue = sch.requestQueue
    BY <1>6 DEF Returns, SameRest
  <2> QED BY <1>1, <1>4, <1>6, <2>1, returnPlaced, PlaceStep
<1>7. ASSUME NEW new \in {"awaiting_approval", "error"},
             Reopens(sch, sch', o, sch.chain[o].call, new)
      PROVE  PlaceInv'
  <2>1. \A p \in Owner : sch'.chain[p].call # None => sch'.chain[p] = sch.chain[p]
    BY <1>1, <1>7, ChainsAfterReturn DEF Reopens
  <2>2. \A d \in Calls : sch'.status[d] # sch.status[d] =>
           d = sch.active /\ sch'.status[d] \in Unfinished \cup {"error"}
    BY <1>7 DEF Reopens, Live, Unfinished
  <2>3. /\ sch'.active = sch.active /\ sch'.toolCallQueue = sch.toolCallQueue
        /\ sch'.reports = sch.reports /\ sch'.completed = sch.completed
        /\ sch'.requestQueue = sch.requestQueue
    BY <1>7 DEF Reopens, Same
  <2>4. Placed(sch', Taken) /\ SlotOpen(sch')
    BY <1>1, <2>1, <2>2, <2>3, samePlaced
  <2> QED BY <1>4, <2>3, <2>4, PlaceStep
<1> QED BY <1>2, <1>5, <1>6, <1>7

(* A call for which a prompt was shown was taken over and is not queued.   *)
LEMMA ConfirmedPlaced ==
  ASSUME PlaceInv, TypeOK', NEW o \in Owner, Confirmed(o) \/ ConfirmThrows(o)
  PROVE  PlaceInv'
<1>1. sch \in Scheduler /\ sch' \in Scheduler /\ Placed(sch, Taken) /\ SlotOpen(sch)
  BY DEF PlaceInv, TypeOK
<1>2. PICK c \in Calls, sig \in Signals : c = sch.chain[o].call /\ sig = sch.chain[o].signal
  <2>1. sch.chain[o].call \in Calls /\ sch.chain[o].signal \in Signals
    BY PlaceFacts, ForACallType DEF Confirmed, ConfirmThrows, Now, ForACall
  <2> QED BY <2>1
<1>3. UNCHANGED <<sent, rejected>>
  BY DEF Confirmed, ConfirmThrows
<1>4. CASE ConfirmThrows(o)
  <2>1. Returns(sch, sch', o)
    BY <1>1, <1>4, ReturnReturns DEF ConfirmThrows
  <2>2. sch'.requestQueue = sch.requestQueue
    BY <2>1 DEF Returns, SameRest
  <2> QED BY <1>1, <1>3, <2>1, <2>2, returnPlaced, PlaceStep
<1>5. CASE Confirmed(o)
  <2>1. Handles(sch, sch', o, c, sch.chain[o].outcome, sig, TRUE)
    BY <1>1, <1>2, <1>5, PlaceFacts, respondSteps DEF Confirmed
  <2>2. c \in Taken /\ c \notin Queued(sch)
    BY <1>1, <1>2, SchedulerAssumption DEF Placed
  <2>3. Placed(sch', Taken) /\ SlotOpen(sch') /\ sch'.requestQueue = sch.requestQueue
    BY <1>1, <2>1, <2>2, HandlesPlaced
  <2> QED BY <1>3, <2>3, PlaceStep
<1> QED BY <1>4, <1>5

(* A response arrives for a call that awaits approval, or for another.     *)
LEMMA RespondSteps ==
  ASSUME PlaceInv, NEW o \in Answerer, NEW outcome, Respond(o, outcome)
  PROVE  /\ sch.chain[o] = Idle /\ sch.prompted[o.of] \in Signals
         /\ o \in Owner /\ o.of \in Calls
         /\ UNCHANGED <<turn, sent, rejected>>
         /\ \/ /\ sch.active = o.of /\ sch.status[o.of] = "awaiting_approval"
               /\ Answers(sch, sch', o,
                          Waiting("confirming", o.of, sch.prompted[o.of], outcome))
            \/ /\ ~(sch.active = o.of /\ sch.status[o.of] = "awaiting_approval")
               /\ Handles(sch, sch', o, o.of, outcome, sch.prompted[o.of], FALSE)
<1>1. sch \in Scheduler /\ o \in Owner /\ o.of \in Calls /\ sch.chain[o] = Idle
  BY PlaceFacts DEF Respond, Owner, Answerer
<1>2. PICK sig \in Signals : sig = sch.prompted[o.of]
  BY <1>1 DEF Respond, Scheduler
<1>3. UNCHANGED <<turn, sent, rejected>>
  BY DEF Respond
<1>4. CASE sch.active = o.of /\ sch.status[o.of] = "awaiting_approval"
  <2>1. PICK w : w = Waiting("confirming", o.of, sig, outcome)
    OBVIOUS
  <2>2. sch' = [sch EXCEPT !.chain[o] = w] /\ w.at = "confirming"
    BY <1>2, <1>4, <2>1 DEF Respond, Waiting
  <2>3. Answers(sch, sch', o, w)
    BY <1>1, <2>2 DEF Answers, Same, Scheduler
  <2> QED BY <1>1, <1>2, <1>3, <1>4, <2>1, <2>3
<1>5. CASE ~(sch.active = o.of /\ sch.status[o.of] = "awaiting_approval")
  <2>1. sch' \in respond(sch, o, o.of, outcome, sig, FALSE)
    BY <1>2, <1>5 DEF Respond
  <2>2. Handles(sch, sch', o, o.of, outcome, sig, FALSE)
    BY <1>1, <2>1, PlaceFacts, respondSteps
  <2> QED BY <1>1, <1>2, <1>3, <1>5, <2>2
<1> QED BY <1>4, <1>5

LEMMA RespondPlaced ==
  ASSUME PlaceInv, TypeOK', NEW o \in Answerer, NEW outcome, Respond(o, outcome)
  PROVE  PlaceInv'
<1>1. sch \in Scheduler /\ sch' \in Scheduler /\ Placed(sch, Taken) /\ SlotOpen(sch)
  BY DEF PlaceInv, TypeOK
<1>2. PICK c \in Calls, sig \in Signals : c = o.of /\ sig = sch.prompted[o.of]
  BY RespondSteps
<1>3. o \in Owner /\ UNCHANGED <<sent, rejected>>
  BY RespondSteps
<1>4. ASSUME sch.active = c, Answers(sch, sch', o, Waiting("confirming", c, sig, outcome))
      PROVE  PlaceInv'
  <2>1. PICK w : w = Waiting("confirming", c, sig, outcome)
    OBVIOUS
  <2>2. w.at = "confirming" /\ w.call = c
    BY <2>1 DEF Waiting
  <2>3. Answers(sch, sch', o, w)
    BY <1>4, <2>1
  <2>4. /\ sch'.active = sch.active /\ sch'.toolCallQueue = sch.toolCallQueue
        /\ sch'.reports = sch.reports /\ sch'.completed = sch.completed
        /\ sch'.requestQueue = sch.requestQueue /\ sch'.status = sch.status
    BY <2>2, <2>3 DEF Answers, Same
  <2>5. \A p \in Owner : sch'.chain[p] = IF p = o THEN w ELSE sch.chain[p]
    BY <1>1, <2>3 DEF Answers, Scheduler
  <2>6. Placed(sch', Taken) /\ SlotOpen(sch')
    BY <1>1, <1>4, <2>2, <2>4, <2>5, samePlaced
  <2> QED BY <1>3, <2>4, <2>6, PlaceStep
<1>5. ASSUME Handles(sch, sch', o, c, outcome, sig, FALSE)
      PROVE  PlaceInv'
  <2>1. Placed(sch', Taken) /\ SlotOpen(sch') /\ sch'.requestQueue = sch.requestQueue
    BY <1>1, <1>3, <1>5, HandlesPlaced
  <2> QED BY <1>3, <2>1, PlaceStep
<1> QED BY <1>2, <1>4, <1>5, RespondSteps

(* Requests go to the scheduler or into its queue.                         *)
LEMMA ScheduleSteps ==
  ASSUME PlaceInv, NEW r \in Requests, Schedule(r)
  PROVE  /\ r \notin Range(sent) /\ sent' = Append(sent, r) /\ SignalOf[r] = turn
         /\ Ready /\ UNCHANGED <<turn, rejected>>
         /\ \/ /\ isRunning(sch) \/ sch.isScheduling
               /\ sch' = [sch EXCEPT !.requestQueue = Append(@, r)]
            \/ /\ ~isRunning(sch) /\ ~sch.isScheduling
               /\ \E bad \in SUBSET CallSet(r) : Enters(sch, sch', r, bad)
  BY PlaceFacts, scheduleSteps DEF Schedule

LEMMA SchedulePlaced ==
  ASSUME PlaceInv, TypeOK', NEW r \in Requests, Schedule(r)
  PROVE  PlaceInv'
<1>1. sch \in Scheduler /\ sch' \in Scheduler /\ Placed(sch, Taken) /\ SlotOpen(sch)
        /\ sent \in Seq(Requests) /\ sch.requestQueue \in Seq(Requests)
  BY DEF PlaceInv, TypeOK, Scheduler
<1>2. Range(sent') = Range(sent) \cup {r} /\ r \notin Range(sent) /\ rejected' = rejected
  <2>1. sent' = Append(sent, r) /\ r \notin Range(sent) /\ rejected' = rejected
    BY DEF Schedule
  <2>2. Range(Append(sent, r)) = Range(sent) \cup {r}
    BY <1>1, AppendElements
  <2> QED BY <2>1, <2>2
<1>3. RequestsKept /\ r \notin rejected /\ r \notin Range(sch.requestQueue)
  BY <1>2 DEF PlaceInv, RequestsKept
<1>4. CallSet(r) \cap Taken = {}
  BY <1>2, TakenCalls DEF PlaceInv, Entered
<1>5. ASSUME sch' = [sch EXCEPT !.requestQueue = Append(@, r)]
      PROVE  PlaceInv'
  <2>1. /\ sch'.active = sch.active /\ sch'.toolCallQueue = sch.toolCallQueue
        /\ sch'.reports = sch.reports /\ sch'.completed = sch.completed
        /\ sch'.status = sch.status /\ sch'.chain = sch.chain
        /\ sch'.requestQueue = Append(sch.requestQueue, r)
    BY <1>1, <1>5 DEF Scheduler
  <2>2. Placed(sch', Taken) /\ SlotOpen(sch')
    BY <1>1, <2>1, samePlaced
  <2>3. Range(sch'.requestQueue) = Range(sch.requestQueue) \cup {r}
        /\ IsInjective(sch'.requestQueue)
    BY <1>1, <1>3, <2>1, AppendElements DEF RequestsKept
  <2>4. RequestsKept'
    BY <1>2, <1>3, <2>3 DEF RequestsKept
  <2>5. Entered' = Entered
    BY <1>2, <2>3 DEF Entered
  <2>6. Taken' = Taken
    BY <2>5 DEF Taken
  <2> QED BY <2>2, <2>4, <2>6 DEF PlaceInv
<1>6. ASSUME NEW bad \in SUBSET CallSet(r), Enters(sch, sch', r, bad)
      PROVE  PlaceInv'
  <2>1. PICK T : T = Taken \cup CallSet(r)
    OBVIOUS
  <2>2. Placed(sch', T) /\ SlotOpen(sch') /\ sch'.requestQueue = sch.requestQueue
    BY <1>1, <1>4, <1>6, <2>1, EnterPlaced
  <2>3. RequestsKept'
    BY <1>2, <1>3, <2>2 DEF RequestsKept
  <2>4. Entered' = Entered \cup {r}
    BY <1>2, <1>3, <2>2 DEF Entered
  <2>5. Taken' = T
    BY <2>1, <2>4 DEF Taken
  <2> QED BY <2>2, <2>3, <2>5 DEF PlaceInv
<1> QED BY <1>5, <1>6, ScheduleSteps

LEMMA abortPlaced ==
  ASSUME PlaceInv, NEW sig \in Signals, NEW u \in Scheduler, u = abort(sch, sig)
  PROVE  Placed(u, Taken) /\ SlotOpen(u)
<1>1. Aborts(sch, u, sig) /\ sch \in Scheduler
  BY abortSteps, PlaceFacts
<1>2. Placed(sch, Taken) /\ SlotOpen(sch)
  BY DEF PlaceInv
<1> QED BY <1>1, <1>2, samePlaced DEF Aborts

LEMMA AbortPlaced ==
  ASSUME PlaceInv, TypeOK', NEW sig \in Signals, Abort(sig) \/ Escape(sig)
  PROVE  PlaceInv'
<1>1. sch \in Scheduler /\ sch' \in Scheduler /\ RequestsKept
  BY DEF PlaceInv, TypeOK
<1>2. PICK u \in Scheduler : u = abort(sch, sig)
  BY <1>1, abortType
<1>3. Placed(u, Taken) /\ SlotOpen(u)
  BY <1>2, abortPlaced
<1>4. Range(u.requestQueue) = Range(sch.requestQueue) \ dropped(sch, sig)
      /\ IsInjective(u.requestQueue)
  BY <1>1, <1>2, abortSteps DEF RequestsKept
<1>5. sent' = sent /\ rejected' = rejected \cup dropped(sch, sig)
  BY DEF Abort, Escape
<1>6. Placed(sch', Taken) /\ SlotOpen(sch') /\ sch'.requestQueue = u.requestQueue
  <2>1. CASE Abort(sig)
    BY <1>2, <1>3, <2>1 DEF Abort
  <2>2. CASE Escape(sig)
    <3>1. PICK o \in Owner : o = [kind |-> "cancel", of |-> sig]
      BY DEF Owner
    <3>2. sch' = cancelAll(u, o, sig)
      BY <1>2, <2>2, <3>1 DEF Escape
    <3>3. Clears(u, sch', o, sig)
      BY <1>3, <3>2, cancelAllSteps DEF Placed
    <3> QED BY <1>1, <1>3, <3>3, clearsPlaced
  <2> QED BY <2>1, <2>2
<1>7. dropped(sch, sig) \subseteq Range(sch.requestQueue)
  BY DEF dropped
<1>8. RequestsKept'
  BY <1>1, <1>4, <1>5, <1>6, <1>7 DEF RequestsKept
<1>9. Entered' = Entered
  BY <1>4, <1>5, <1>6, <1>7 DEF Entered
<1>10. Taken' = Taken
  BY <1>9 DEF Taken
<1> QED BY <1>6, <1>8, <1>10 DEF PlaceInv

LEMMA resetsPlaced ==
  ASSUME NEW s \in Scheduler, NEW u \in Scheduler, NEW o \in Owner, Resets(s, u, o),
         NEW T, Placed(s, T), SlotOpen(s)
  PROVE  Placed(u, T) /\ SlotOpen(u)
<1>1. \A p \in Owner : u.chain[p].call # None => u.chain[p] = s.chain[p]
  BY ChainsAfterReturn DEF Resets
<1> QED BY <1>1, samePlaced DEF Resets

LEMMA HandlerPlaced ==
  ASSUME PlaceInv, TypeOK', NEW o \in Owner, HandlerReturns(o)
  PROVE  PlaceInv'
<1>1. sch \in Scheduler /\ sch' \in Scheduler /\ Placed(sch, Taken) /\ SlotOpen(sch)
        /\ RequestsKept /\ sch.requestQueue \in Seq(Requests) /\ TypeOK
  BY DEF PlaceInv, TypeOK, Scheduler
<1>2. sent' = sent
  BY DEF HandlerReturns
<1>3. CASE Resets(sch, sch', o) /\ sch'.requestQueue = sch.requestQueue /\ UNCHANGED rejected
  <2>1. Placed(sch', Taken) /\ SlotOpen(sch')
    BY <1>1, <1>3, resetsPlaced
  <2> QED BY <1>2, <1>3, <2>1, PlaceStep
<1>4. ASSUME NEW u \in Scheduler, NEW r \in Requests, Next1(sch, u, sch', o, r),
             rejected' = IF isRunning(u) THEN rejected \cup {r} ELSE rejected
      PROVE  PlaceInv'
  <2>1. Placed(u, Taken) /\ SlotOpen(u)
    BY <1>1, <1>4, resetsPlaced DEF Next1
  <2>2. /\ IsInjective(u.requestQueue) /\ r \notin Range(u.requestQueue)
        /\ Range(sch.requestQueue) = {r} \cup Range(u.requestQueue)
    BY <1>1, <1>4, HeadRemoved DEF Next1, RequestsKept
  <2>3. r \notin rejected /\ r \notin Entered /\ CallSet(r) \cap Taken = {} /\ r \in Range(sent)
    BY <1>1, <2>2, TakenCalls DEF RequestsKept, Entered
  <2>4. CASE isRunning(u)
    <3>1. Refused(u, sch') /\ rejected' = rejected \cup {r}
      BY <1>4, <2>4 DEF Next1
    <3>2. /\ sch'.active = u.active /\ sch'.toolCallQueue = u.toolCallQueue
          /\ sch'.reports = u.reports /\ sch'.completed = u.completed
          /\ sch'.status = u.status /\ sch'.chain = u.chain
          /\ sch'.requestQueue = u.requestQueue
      BY <3>1 DEF Refused, Scheduler
    <3>3. Placed(sch', Taken) /\ SlotOpen(sch')
      BY <1>1, <2>1, <3>2, samePlaced
    <3>4. RequestsKept'
      BY <1>1, <1>2, <2>2, <2>3, <3>1, <3>2 DEF RequestsKept
    <3>5. Entered' = Entered
      BY <1>2, <2>2, <3>1, <3>2 DEF Entered
    <3> QED BY <3>3, <3>4, <3>5 DEF PlaceInv, Taken
  <2>5. CASE ~isRunning(u)
    <3>1. PICK bad \in SUBSET CallSet(r) : Enters(u, sch', r, bad)
      BY <1>4, <2>5 DEF Next1
    <3>2. rejected' = rejected
      BY <1>4, <2>5
    <3>3. PICK T : T = Taken \cup CallSet(r)
      OBVIOUS
    <3>4. Placed(sch', T) /\ SlotOpen(sch') /\ sch'.requestQueue = u.requestQueue
      BY <1>1, <2>1, <2>3, <3>1, <3>3, EnterPlaced
    <3>5. RequestsKept'
      BY <1>1, <1>2, <2>2, <3>2, <3>4 DEF RequestsKept
    <3>6. Entered' = Entered \cup {r}
      BY <1>2, <2>2, <2>3, <3>2, <3>4 DEF Entered
    <3>7. Taken' = T
      BY <3>3, <3>6 DEF Taken
    <3> QED BY <3>4, <3>5, <3>7 DEF PlaceInv
  <2> QED BY <2>4, <2>5
<1> QED BY <1>1, <1>3, <1>4, HandlerSteps

LEMMA ReturningPlaced ==
  ASSUME PlaceInv, TypeOK', NEW o \in Owner, HandlerThrows(o) \/ Unwind(o)
  PROVE  PlaceInv'
<1>1. sch \in Scheduler /\ sch' \in Scheduler /\ Placed(sch, Taken) /\ SlotOpen(sch)
  BY DEF PlaceInv, TypeOK
<1>2. UNCHANGED <<sent, rejected>>
  BY DEF HandlerThrows, Unwind
<1>3. /\ sch'.active = sch.active /\ sch'.toolCallQueue = sch.toolCallQueue
      /\ sch'.reports = sch.reports /\ sch'.completed = sch.completed
      /\ sch'.status = sch.status /\ sch'.requestQueue = sch.requestQueue
  BY <1>1 DEF HandlerThrows, Unwind, Return, Scheduler
<1>4. PICK w \in {Returned(o), Idle} :
        \A p \in Owner : sch'.chain[p] = IF p = o THEN w ELSE sch.chain[p]
  <2>1. CASE HandlerThrows(o)
    BY <1>1, <2>1 DEF HandlerThrows, Return, Scheduler
  <2>2. CASE Unwind(o)
    BY <1>1, <2>2 DEF Unwind, Scheduler
  <2> QED BY <2>1, <2>2
<1>5. Returned(o).call = None /\ Idle.call = None
  BY DEF Returned, Idle, Waiting
<1>6. Placed(sch', Taken) /\ SlotOpen(sch')
  BY <1>1, <1>3, <1>4, <1>5, samePlaced
<1> QED BY <1>2, <1>3, <1>6, PlaceStep

LEMMA PlaceInit == Init => PlaceInv
<1> SUFFICES ASSUME Init PROVE PlaceInv
  OBVIOUS
<1>1. TypeOK /\ sch \in Scheduler
  BY InitType DEF TypeOK
<1>2. Entered = {} /\ Taken = {}
  <2>1. Entered = {}
    BY DEF Init, Entered, Range
  <2> QED BY <2>1 DEF Taken
<1>3. /\ sch.active = None /\ sch.toolCallQueue = <<>> /\ sch.completed = <<>>
      /\ sch.requestQueue = <<>> /\ sch.reports = <<>>
      /\ \A c \in Calls : sch.status[c] = "none"
      /\ \A o \in Owner : sch.chain[o] = Idle
  BY DEF Init
<1>4. Queued(sch) = {} /\ Slot(sch) = {} /\ Done(sch) = {} /\ Handed(sch) = {}
  BY <1>3 DEF Queued, Slot, Done, Handed, Range
<1>5. RequestsKept
  BY <1>3 DEF RequestsKept, Init, Range, IsInjective
<1>6. Placed(sch, {}) /\ SlotOpen(sch)
  BY <1>3, <1>4 DEF Placed, SlotOpen, Idle, Waiting, IsInjective
<1> QED BY <1>1, <1>2, <1>5, <1>6 DEF PlaceInv

LEMMA PlaceNext == PlaceInv /\ [Next]_vars => PlaceInv'
<1> SUFFICES ASSUME PlaceInv, [Next]_vars PROVE PlaceInv'
  OBVIOUS
<1>1. TypeOK'
  BY NextType DEF PlaceInv
<1>2. CASE UNCHANGED vars \/ NewTurn
  <2>1. sch' = sch /\ sent' = sent /\ rejected' = rejected
    BY <1>2 DEF vars, NewTurn
  <2> QED BY <1>1, <2>1 DEF PlaceInv, RequestsKept, Entered, Taken
<1>3. ASSUME NEW r \in Requests, Schedule(r) PROVE PlaceInv'
  BY <1>1, <1>3, SchedulePlaced
<1>4. ASSUME NEW sig \in Signals, Abort(sig) \/ Escape(sig) PROVE PlaceInv'
  BY <1>1, <1>4, AbortPlaced
<1>5. ASSUME NEW o \in Answerer, NEW outcome \in Outcomes,
             UserResponds(o, outcome) \/ IdeResponds(o, outcome)
      PROVE  PlaceInv'
  BY <1>1, <1>5, RespondPlaced DEF UserResponds, IdeResponds
<1>6. ASSUME NEW o \in Owner, Resume(o) PROVE PlaceInv'
  <2>1. CASE PolicyAllows(o) \/ PolicyDenies(o) \/ PolicyAsks(o) \/ ValidationFails(o)
    BY <1>1, <2>1, ValidationPlaced
  <2>2. CASE \E result \in Terminal : Executed(o, result)
    BY <1>1, <2>2, ExecutedPlaced
  <2>3. CASE HandlerReturns(o)
    BY <1>1, <2>3, HandlerPlaced
  <2>4. CASE HandlerThrows(o) \/ Unwind(o)
    BY <1>1, <2>4, ReturningPlaced
  <2>5. CASE Confirmed(o) \/ ConfirmThrows(o)
    BY <1>1, <2>5, ConfirmedPlaced
  <2>6. CASE \/ \E built \in BOOLEAN : Modified(o, built)
             \/ NotEdited(o) \/ NotInlined(o) \/ ModifyThrows(o)
    <3>1. sch.chain[o].at \in {"editing", "inlining"}
      BY <2>6 DEF Modified, NotEdited, NotInlined, ModifyThrows, Now
    <3> QED BY <1>1, <2>6, <3>1, ModificationPlaced
  <2> QED BY <1>6, <2>1, <2>2, <2>3, <2>4, <2>5, <2>6 DEF Resume
<1> QED BY <1>2, <1>3, <1>4, <1>5, <1>6 DEF Next

(* What a step of chain o leaves alone, and that it moves calls only out   *)
(* of the queue and out of the slot.                                       *)
Moves(s, t, o) ==
  /\ t.requestQueue = s.requestQueue /\ t.aborted = s.aborted
  /\ \A p \in Owner \ {o} : t.chain[p] = s.chain[p]
  /\ Queued(t) \cup Slot(t) \subseteq Queued(s) \cup Slot(s)
  /\ Handed(s) \subseteq Handed(t)
  /\ t.isCancelling => s.isCancelling \/ t.active = None

LEMMA advanceMoves ==
  ASSUME NEW s \in Scheduler, NEW t \in Scheduler, NEW o \in Owner, NEW sig,
         IsInjective(s.toolCallQueue), s.active = None, Advances(s, t, o, sig)
  PROVE  /\ Moves(s, t, o) /\ t.isCancelling = s.isCancelling
         /\ Queued(t) \cup Slot(t) \subseteq Queued(s)
<1>1. /\ t.requestQueue = s.requestQueue /\ t.aborted = s.aborted
      /\ t.isCancelling = s.isCancelling
  BY DEF Advances, SameRest
<1>2. \E w : t.chain = [s.chain EXCEPT ![o] = w]
  BY DEF Advances, Finishes, Takes, Rests
<1>3. \A p \in Owner \ {o} : t.chain[p] = s.chain[p]
  BY <1>2 DEF Scheduler
<1>4. /\ Queued(t) \cup Slot(t) \subseteq Queued(s)
      /\ Handed(s) \subseteq Handed(t)
      /\ t.isCancelling => s.isCancelling \/ t.active = None
  <2>1. CASE Finishes(s, t, o, sig)
    <3>1. Queued(t) = {} /\ Handed(s) \subseteq Handed(t)
      BY <2>1, FinishesSets
    <3>2. t.active = None /\ Slot(t) = {}
      BY <2>1 DEF Finishes, Slot
    <3> QED BY <3>1, <3>2
  <2>2. CASE Takes(s, t, o, sig)
    BY <1>1, <2>2, TakesSets DEF Slot
  <2>3. CASE Rests(s, t, o, sig)
    BY <1>1, <2>3, RestsSets DEF Rests, Slot
  <2> QED BY <2>1, <2>2, <2>3 DEF Advances
<1> QED BY <1>1, <1>3, <1>4 DEF Moves

LEMMA returnMoves ==
  ASSUME NEW s \in Scheduler, NEW t, NEW o \in Owner, Returns(s, t, o)
  PROVE  Moves(s, t, o)
<1>1. /\ Queued(t) = Queued(s) /\ Slot(t) = Slot(s) /\ Handed(t) = Handed(s)
  BY SameSets DEF Returns
<1>2. \A p \in Owner \ {o} : t.chain[p] = s.chain[p]
  BY ChainsAfterReturn DEF Returns
<1> QED BY <1>1, <1>2 DEF Returns, SameRest, Moves

LEMMA settlesMoves ==
  ASSUME NEW s \in Scheduler, NEW t \in Scheduler, NEW o \in Owner, NEW sig,
         IsInjective(s.toolCallQueue), Settles(s, t, o, sig)
  PROVE  Moves(s, t, o)
<1>1. ASSUME NEW u \in Scheduler, Emptied(s, u), Advances(u, t, o, sig)
      PROVE  Moves(s, t, o)
  <2>1. Queued(u) = Queued(s) /\ Handed(u) = Handed(s) /\ u.active = None
    BY <1>1 DEF Emptied, Queued, Handed
  <2>2. Moves(u, t, o) /\ Queued(t) \cup Slot(t) \subseteq Queued(u)
    BY <1>1, <2>1, advanceMoves DEF Emptied
  <2> QED BY <1>1, <2>1, <2>2 DEF Emptied, SameRest, Moves
<1> QED BY <1>1, returnMoves DEF Settles

LEMMA clearsMoves ==
  ASSUME NEW s \in Scheduler, NEW t \in Scheduler, NEW o \in Owner, NEW sig,
         Clears(s, t, o, sig)
  PROVE  Moves(s, t, o) /\ (~s.isCancelling => t.active = None)
<1>1. ASSUME NEW u \in Scheduler, Dropped(s, u), Advances(u, t, o, sig)
      PROVE  Moves(s, t, o) /\ t.active = None
  <2>1. Queued(u) = {} /\ Handed(u) = Handed(s) /\ u.active = None
    BY <1>1 DEF Dropped, Queued, Handed, Range
  <2>2. IsInjective(u.toolCallQueue)
    BY <1>1 DEF Dropped, IsInjective
  <2>3. Moves(u, t, o) /\ Queued(t) \cup Slot(t) = {}
    BY <1>1, <2>1, <2>2, advanceMoves
  <2>4. t.active = None
    BY <2>3 DEF Slot
  <2> QED BY <1>1, <2>1, <2>3, <2>4 DEF Dropped, SameRest, Moves
<1> QED BY <1>1, returnMoves DEF Clears

LEMMA sameMoves ==
  ASSUME NEW s \in Scheduler, NEW t, NEW o \in Owner, Same(s, t),
         \/ \E w : t.chain = [s.chain EXCEPT ![o] = w]
         \/ t.chain = s.chain
  PROVE  Moves(s, t, o)
<1>1. /\ Queued(t) = Queued(s) /\ Slot(t) = Slot(s) /\ Handed(t) = Handed(s)
  BY SameSets DEF Same
<1>2. \A p \in Owner \ {o} : t.chain[p] = s.chain[p]
  BY DEF Scheduler
<1> QED BY <1>1, <1>2 DEF Same, Moves

LEMMA sameThenMoves ==
  ASSUME NEW s, NEW v, NEW t, NEW o, Same(s, v), v.chain = s.chain, Moves(v, t, o)
  PROVE  Moves(s, t, o)
<1>1. /\ Queued(v) = Queued(s) /\ Slot(v) = Slot(s) /\ Handed(v) = Handed(s)
  BY SameSets DEF Same
<1> QED BY <1>1 DEF Moves, Same

LEMMA proceedingMoves ==
  ASSUME NEW s \in Scheduler, NEW t, NEW o \in Owner, NEW c, NEW sig, Proceeding(s, t, o, c, sig)
  PROVE  Moves(s, t, o)
<1>1. CASE Runs(s, t, o, c, sig)
  <2>1. Same(s, t) /\ \E w : t.chain = [s.chain EXCEPT ![o] = w]
    BY <1>1 DEF Runs, Same, SameRest
  <2> QED BY <2>1, sameMoves
<1> QED BY <1>1, returnMoves DEF Proceeding

LEMMA handlesMoves ==
  ASSUME NEW s \in Scheduler, NEW t \in Scheduler, NEW o \in Owner, NEW c, NEW outcome, NEW sig,
         NEW found, Handles(s, t, o, c, outcome, sig, found)
  PROVE  Moves(s, t, o)
<1>1. ASSUME NEW w, Answers(s, t, o, w) PROVE Moves(s, t, o)
  BY <1>1, sameMoves DEF Answers
<1> QED BY <1>1, clearsMoves, returnMoves, proceedingMoves DEF Handles

(* The steps of a suspended chain, and of one that a response starts.      *)
Continues(o) ==
  \/ PolicyAllows(o) \/ PolicyDenies(o) \/ PolicyAsks(o) \/ ValidationFails(o)
  \/ \E result \in Terminal : Executed(o, result)
  \/ HandlerThrows(o) \/ Unwind(o)
  \/ Confirmed(o) \/ ConfirmThrows(o)
  \/ \E built \in BOOLEAN : Modified(o, built)
  \/ NotEdited(o) \/ NotInlined(o) \/ ModifyThrows(o)

LEMMA ContinuesMoves ==
  ASSUME PlaceInv, TypeOK', NEW o \in Owner, Continues(o)
  PROVE  /\ Moves(sch, sch', o) /\ sch.chain[o] # Idle
         /\ UNCHANGED <<turn, sent, rejected>>
<1>1. sch \in Scheduler /\ sch' \in Scheduler /\ IsInjective(sch.toolCallQueue) /\ SlotOpen(sch)
  BY DEF PlaceInv, TypeOK, Placed
<1>2. UNCHANGED <<turn, sent, rejected>>
  BY DEF Continues, PolicyAllows, PolicyDenies, PolicyAsks, ValidationFails, Executed,
         HandlerThrows, Unwind, Confirmed, ConfirmThrows, Modified, NotEdited, NotInlined,
         ModifyThrows
<1>3. sch.chain[o] # Idle
  <2>1. Idle.at = "idle"
    BY DEF Idle, Waiting
  <2> QED BY <2>1 DEF Continues, PolicyAllows, PolicyDenies, PolicyAsks, ValidationFails,
         Executed, HandlerThrows, Unwind, Confirmed, ConfirmThrows, Modified, NotEdited,
         NotInlined, ModifyThrows, Now
<1>4. CASE PolicyAllows(o) \/ PolicyDenies(o) \/ PolicyAsks(o) \/ ValidationFails(o)
  <2>1. \/ Proceeding(sch, sch', o, sch.chain[o].call, sch.chain[o].signal)
        \/ Fails(sch, sch', o)
        \/ Asks(sch, sch', o, sch.chain[o].call, sch.chain[o].signal)
    BY <1>4, PlaceFacts, ValidationSteps
  <2>2. CASE Fails(sch, sch', o)
    <3>1. PICK v \in Scheduler, new \in {"error", "cancelled"} :
            Sets(sch, v, sch.chain[o].call, new) /\ Settles(v, sch', o, sch.chain[o].signal)
      BY <2>2 DEF Fails
    <3>2. Same(sch, v) /\ v.chain = sch.chain
      BY <3>1 DEF Sets, Same, SameRest
    <3>3. IsInjective(v.toolCallQueue)
      BY <1>1, <3>2 DEF Same
    <3>4. Moves(v, sch', o)
      BY <1>1, <3>1, <3>3, settlesMoves
    <3>5. Moves(sch, sch', o)
      BY <3>2, <3>4, sameThenMoves
    <3> QED BY <1>2, <1>3, <3>5
  <2>3. CASE Asks(sch, sch', o, sch.chain[o].call, sch.chain[o].signal)
    <3>1. Same(sch, sch') /\ sch'.chain = [sch.chain EXCEPT ![o] = Returned(o)]
      BY <2>3 DEF Asks
    <3> QED BY <1>1, <1>2, <1>3, <3>1, sameMoves
  <2> QED BY <1>1, <1>2, <1>3, <2>1, <2>2, <2>3, proceedingMoves
<1>5. CASE \E result \in Terminal : Executed(o, result)
  <2>1. PICK v \in Scheduler, new \in Terminal :
          Marks(sch, v, sch.chain[o].call, new) /\ Settles(v, sch', o, sch.chain[o].signal)
    BY <1>5, PlaceFacts, ExecutedSteps DEF Finished
  <2>2. Same(sch, v) /\ v.chain = sch.chain
    BY <2>1 DEF Marks
  <2>3. IsInjective(v.toolCallQueue)
    BY <1>1, <2>2 DEF Same
  <2>4. Moves(v, sch', o)
    BY <1>1, <2>1, <2>3, settlesMoves
  <2>5. Moves(sch, sch', o)
    BY <2>2, <2>4, sameThenMoves
  <2> QED BY <1>2, <1>3, <2>5
<1>6. CASE HandlerThrows(o) \/ ConfirmThrows(o) \/ ModifyThrows(o)
  <2>1. sch' = Return(sch, o)
    BY <1>6 DEF HandlerThrows, ConfirmThrows, ModifyThrows
  <2> QED BY <1>1, <1>2, <1>3, <2>1, ReturnReturns, returnMoves
<1>7. CASE Unwind(o)
  <2>1. /\ Queued(sch') = Queued(sch) /\ Slot(sch') = Slot(sch) /\ Handed(sch') = Handed(sch)
        /\ sch'.requestQueue = sch.requestQueue /\ sch'.aborted = sch.aborted
        /\ sch'.isCancelling = sch.isCancelling
    BY <1>1, <1>7 DEF Unwind, Scheduler, Queued, Slot, Handed
  <2>2. \A p \in Owner \ {o} : sch'.chain[p] = sch.chain[p]
    BY <1>1, <1>7 DEF Unwind, Scheduler
  <2> QED BY <1>2, <1>3, <2>1, <2>2 DEF Moves
<1>8. CASE Confirmed(o)
  <2>1. PICK c \in Calls, sig \in Signals : c = sch.chain[o].call /\ sig = sch.chain[o].signal
    BY <1>8, PlaceFacts, ForACallType DEF Confirmed, Now, ForACall
  <2>2. Handles(sch, sch', o, c, sch.chain[o].outcome, sig, TRUE)
    BY <1>1, <1>8, <2>1, PlaceFacts, respondSteps DEF Confirmed
  <2> QED BY <1>1, <1>2, <1>3, <2>2, handlesMoves
<1>9. CASE \/ \E built \in BOOLEAN : Modified(o, built)
           \/ NotEdited(o) \/ NotInlined(o)
  <2>1. sch.chain[o].at \in {"editing", "inlining"}
    BY <1>9 DEF Modified, NotEdited, NotInlined, Now
  <2>2. \/ \E new \in {"awaiting_approval", "error"} : Reopens(sch, sch', o, sch.chain[o].call, new)
        \/ Proceeding(sch, sch', o, sch.chain[o].call, sch.chain[o].signal)
        \/ Returns(sch, sch', o)
    BY <1>1, <1>9, <2>1, PlaceFacts, ModificationSteps
  <2>3. ASSUME NEW new, Reopens(sch, sch', o, sch.chain[o].call, new)
        PROVE  Moves(sch, sch', o)
    BY <1>1, <2>3, sameMoves DEF Reopens
  <2> QED BY <1>1, <1>2, <1>3, <2>2, <2>3, proceedingMoves, returnMoves
<1> QED BY <1>4, <1>5, <1>6, <1>7, <1>8, <1>9 DEF Continues

LEMMA RespondMoves ==
  ASSUME PlaceInv, TypeOK', NEW o \in Answerer, NEW outcome, Respond(o, outcome)
  PROVE  Moves(sch, sch', o) /\ o \in Owner /\ UNCHANGED <<turn, sent, rejected>>
<1>1. sch \in Scheduler /\ sch' \in Scheduler
  BY DEF PlaceInv, TypeOK
<1>2. o \in Owner /\ UNCHANGED <<turn, sent, rejected>>
  BY RespondSteps
<1>3. ASSUME NEW w, Answers(sch, sch', o, w) PROVE Moves(sch, sch', o)
  BY <1>1, <1>2, <1>3, sameMoves DEF Answers
<1>4. ASSUME NEW c, NEW sig, Handles(sch, sch', o, c, outcome, sig, FALSE) PROVE Moves(sch, sch', o)
  BY <1>1, <1>2, <1>4, handlesMoves
<1> QED BY <1>2, <1>3, <1>4, RespondSteps

LEMMA entersMoves ==
  ASSUME NEW s \in Scheduler, NEW r \in Requests, NEW bad \in SUBSET CallSet(r),
         NEW t \in Scheduler, Enters(s, t, r, bad), NEW T, Placed(s, T),
         CallSet(r) \cap T = {}
  PROVE  /\ t.requestQueue = s.requestQueue /\ t.aborted = s.aborted
         /\ \A p \in Owner \ {ScheduleChain(r)} : t.chain[p] = s.chain[p]
         /\ Queued(t) \cup Slot(t) \subseteq Queued(s) \cup Slot(s) \cup CallSet(r)
         /\ Handed(s) \subseteq Handed(t)
         /\ ~t.isCancelling
<1>1. PICK o \in Owner : o = ScheduleChain(r)
  BY DEF Owner, ScheduleChain
<1>2. PICK u \in Scheduler :
          /\ Enqueued(s, u, r, bad)
          /\ IF s.active # None THEN Returns(u, t, o) ELSE Advances(u, t, o, SignalOf[r])
  BY <1>1 DEF Enters
<1>3. Placed(u, T \cup CallSet(r))
  BY <1>2, enqueuedPlaced
<1>4. /\ Queued(u) = Queued(s) \cup CallSet(r) /\ Slot(u) = Slot(s)
      /\ Handed(u) = Handed(s)
  <2>1. CallsOf[r] \in Seq(Calls) /\ s.toolCallQueue \in Seq(Calls)
    BY SchedulerAssumption DEF Scheduler
  <2>2. Queued(u) = Queued(s) \cup CallSet(r)
    BY <1>2, <2>1, RangeConcatenation DEF Enqueued, Queued, CallSet
  <2> QED BY <1>2, <2>2 DEF Enqueued, Slot, Handed
<1>5. /\ u.requestQueue = s.requestQueue /\ u.aborted = s.aborted /\ ~u.isCancelling
      /\ u.chain = s.chain /\ u.active = s.active
  BY <1>2 DEF Enqueued
<1>6. Moves(u, t, o) /\ t.isCancelling = u.isCancelling
  <2>1. CASE s.active # None
    BY <1>2, <2>1, returnMoves DEF Returns
  <2>2. CASE s.active = None
    BY <1>2, <1>3, <1>5, <2>2, advanceMoves DEF Placed
  <2> QED BY <2>1, <2>2
<1> QED BY <1>1, <1>4, <1>5, <1>6 DEF Moves

(* A chain that has not been started is idle.                              *)
CancelChain(sig) == [kind |-> "cancel", of |-> sig]
Fresh ==
  /\ \A r \in Requests \ Entered : sch.chain[ScheduleChain(r)] = Idle
  /\ \A sig \in Signals \ sch.aborted : sch.chain[CancelChain(sig)] = Idle

LEMMA FreshStep ==
  ASSUME Fresh, TypeOK, Entered \subseteq Entered', sch.aborted \subseteq sch'.aborted,
         NEW o \in Owner,
         \A p \in Owner \ {o} : sch'.chain[p] = sch.chain[p],
         \/ sch.chain[o] # Idle
         \/ o \in Answerer
         \/ \E r \in Entered' : o = ScheduleChain(r)
         \/ \E sig \in sch'.aborted : o = CancelChain(sig)
  PROVE  Fresh'
<1>1. ASSUME NEW r \in Requests \ Entered' PROVE sch'.chain[ScheduleChain(r)] = Idle
  <2>1. sch.chain[ScheduleChain(r)] = Idle /\ ScheduleChain(r) \in Owner
    BY <1>1 DEF Fresh, Owner, ScheduleChain
  <2>2. ScheduleChain(r) # o
    BY <1>1, <2>1 DEF ScheduleChain, CancelChain, Answerer
  <2> QED BY <2>1, <2>2
<1>2. ASSUME NEW sig \in Signals \ sch'.aborted PROVE sch'.chain[CancelChain(sig)] = Idle
  <2>1. sch.chain[CancelChain(sig)] = Idle /\ CancelChain(sig) \in Owner
    BY <1>2 DEF Fresh, Owner, CancelChain
  <2>2. CancelChain(sig) # o
    BY <1>2, <2>1 DEF ScheduleChain, CancelChain, Answerer
  <2> QED BY <2>1, <2>2
<1> QED BY <1>1, <1>2 DEF Fresh

(* A request has gone through when it was rejected or handed over whole.   *)
LEMMA SettledHanded ==
  ASSUME NEW r
  PROVE  Settled(r) <=> r \in rejected \/ CallSet(r) \subseteq Handed(sch)
  BY DEF Settled, Reported, Handed

LEMMA StaysSettled ==
  ASSUME rejected \subseteq rejected', Handed(sch) \subseteq Handed(sch'), NEW r, Settled(r)
  PROVE  Settled(r)'
  BY DEF Settled, Reported, Handed

(* Without Overlap a request is scheduled only when the slot and both      *)
(* queues are empty.                                                       *)
LEMMA ReadyEmpty ==
  ASSUME PlaceInv, ~Overlap, Ready
  PROVE  /\ \A r \in Range(sent) : Settled(r)
         /\ sch.active = None /\ Slot(sch) = {} /\ Queued(sch) = {}
         /\ sch.requestQueue = <<>>
<1>1. \A r \in Range(sent) : Settled(r)
  BY DEF Ready
<1>2. TypeOK /\ sch \in Scheduler /\ Placed(sch, Taken) /\ SlotOpen(sch) /\ RequestsKept
  BY DEF PlaceInv, TypeOK
<1>3. Taken \subseteq Handed(sch)
  BY <1>1, SettledHanded DEF Taken, Entered
<1>4. Slot(sch) = {} /\ Queued(sch) = {}
  BY <1>2, <1>3 DEF Placed
<1>5. sch.active = None
  BY <1>4 DEF Slot
<1>6. ASSUME NEW r \in Range(sch.requestQueue) PROVE FALSE
  <2>1. r \in Requests /\ r \in Range(sent) /\ r \notin rejected /\ r \notin Entered
    BY <1>2, RangeOfSeq DEF RequestsKept, Scheduler, Entered
  <2>2. CallSet(r) \subseteq Handed(sch)
    BY <1>1, <2>1, SettledHanded
  <2>3. CallSet(r) # {} /\ CallSet(r) \cap Taken = {}
    BY <1>2, <2>1, TakenCalls
  <2> QED BY <1>2, <2>2, <2>3 DEF Placed
<1>7. sch.requestQueue = <<>>
  <2>1. sch.requestQueue \in Seq(Requests)
    BY <1>2 DEF Scheduler
  <2>2. ASSUME sch.requestQueue # <<>> PROVE FALSE
    <3>1. 1 \in DOMAIN sch.requestQueue
      BY <2>1, <2>2
    <3> QED BY <1>6, <3>1 DEF Range
  <2> QED BY <2>2
<1> QED BY <1>1, <1>4, <1>5, <1>7

(* While a batch is in the works no other request is queued behind it,     *)
(* its calls are all of one request, and that request is of this turn.     *)
Alone ==
  /\ Len(sch.requestQueue) <= 1
  /\ sch.requestQueue # <<>> => sch.active = None
  /\ RejectedMeansAborted
  /\ \A r \in Range(sent) : Settled(r) \/ SignalOf[r] = turn
  /\ \A r \in Requests : \/ Queued(sch) \cup Slot(sch) \subseteq CallSet(r)
                         \/ (Queued(sch) \cup Slot(sch)) \cap CallSet(r) = {}

(* The second layer: what is queued behind what.                           *)
QueueInv ==
  /\ PlaceInv
  /\ Fresh
  /\ sch.isCancelling => sch.active = None
  /\ ~Overlap => Alone

LEMMA MovesQueue ==
  ASSUME QueueInv, PlaceInv', NEW o \in Owner, Moves(sch, sch', o),
         UNCHANGED <<turn, sent, rejected>>,
         sch.chain[o] # Idle \/ o \in Answerer
  PROVE  QueueInv'
<1>1. TypeOK /\ SlotOpen(sch) /\ sch \in Scheduler /\ sch' \in Scheduler
  BY DEF QueueInv, PlaceInv, TypeOK
<1>2. Entered' = Entered
  BY DEF Entered, Moves
<1>3. Fresh'
  <2>1. Entered \subseteq Entered' /\ sch.aborted \subseteq sch'.aborted
    BY <1>2 DEF Moves
  <2>2. \A p \in Owner \ {o} : sch'.chain[p] = sch.chain[p]
    BY DEF Moves
  <2> QED BY <1>1, <2>1, <2>2, FreshStep DEF QueueInv
<1>4. sch.active = None => sch'.active = None
  BY <1>1 DEF Moves, SlotOpen, Queued, Slot, Range
<1>5. sch'.isCancelling => sch'.active = None
  BY <1>4 DEF Moves, QueueInv
<1>6. ASSUME ~Overlap PROVE Alone'
  <2>1. Alone
    BY <1>6 DEF QueueInv
  <2>2. \A r \in Range(sent') : Settled(r)' \/ SignalOf[r] = turn'
    BY <2>1, StaysSettled DEF Moves, Alone
  <2>3. \A r \in Requests : \/ Queued(sch') \cup Slot(sch') \subseteq CallSet(r)
                            \/ (Queued(sch') \cup Slot(sch')) \cap CallSet(r) = {}
    BY <2>1 DEF Moves, Alone
  <2>4. /\ Len(sch'.requestQueue) <= 1
        /\ sch'.requestQueue # <<>> => sch'.active = None
        /\ RejectedMeansAborted'
    BY <1>4, <2>1 DEF Moves, Alone, RejectedMeansAborted
  <2> QED BY <2>2, <2>3, <2>4 DEF Alone
<1> QED BY <1>3, <1>5, <1>6 DEF QueueInv

LEMMA ScheduleQueue ==
  ASSUME QueueInv, PlaceInv', NEW r \in Requests, Schedule(r)
  PROVE  QueueInv'
<1>1. sch \in Scheduler /\ sch' \in Scheduler /\ Placed(sch, Taken) /\ PlaceInv
        /\ sent \in Seq(Requests) /\ sch.requestQueue \in Seq(Requests) /\ TypeOK
  BY DEF QueueInv, PlaceInv, TypeOK, Scheduler
<1>2. /\ r \notin Range(sent) /\ rejected' = rejected /\ turn' = turn /\ SignalOf[r] = turn
      /\ Range(sent') = Range(sent) \cup {r} /\ Ready
  <2>1. r \notin Range(sent) /\ sent' = Append(sent, r) /\ rejected' = rejected
          /\ turn' = turn /\ SignalOf[r] = turn /\ Ready
    BY DEF Schedule
  <2>2. Range(Append(sent, r)) = Range(sent) \cup {r}
    BY <1>1, AppendElements
  <2> QED BY <2>1, <2>2
<1>3. r \notin Range(sch.requestQueue) /\ r \notin rejected
  BY <1>1, <1>2 DEF PlaceInv, RequestsKept
<1>4. ASSUME sch' = [sch EXCEPT !.requestQueue = Append(@, r)]
      PROVE  QueueInv'
  <2>1. /\ sch'.active = sch.active /\ sch'.toolCallQueue = sch.toolCallQueue
        /\ sch'.reports = sch.reports /\ sch'.completed = sch.completed
        /\ sch'.aborted = sch.aborted /\ sch'.isCancelling = sch.isCancelling
        /\ sch'.chain = sch.chain
        /\ sch'.requestQueue = Append(sch.requestQueue, r)
    BY <1>1, <1>4 DEF Scheduler
  <2>2. Range(sch'.requestQueue) = Range(sch.requestQueue) \cup {r}
    BY <1>1, <2>1, AppendElements
  <2>3. Entered' = Entered
    BY <1>2, <2>2 DEF Entered
  <2>4. Fresh'
    BY <2>1, <2>3 DEF Fresh, QueueInv
  <2>5. Queued(sch') = Queued(sch) /\ Slot(sch') = Slot(sch) /\ Handed(sch') = Handed(sch)
    BY <2>1, SameSets
  <2>6. ASSUME ~Overlap PROVE Alone'
    <3>1. /\ \A p \in Range(sent) : Settled(p)
          /\ sch.active = None /\ Slot(sch) = {} /\ Queued(sch) = {}
          /\ sch.requestQueue = <<>>
      BY <1>1, <1>2, <2>6, ReadyEmpty
    <3>2. Len(sch'.requestQueue) <= 1 /\ RejectedMeansAborted'
      BY <1>2, <2>1, <2>6, <3>1 DEF RejectedMeansAborted, Alone, QueueInv
    <3>3. \A p \in Range(sent) : Settled(p)'
      BY <1>2, <2>5, <3>1, StaysSettled
    <3> QED BY <1>2, <2>1, <2>5, <3>1, <3>2, <3>3 DEF Alone
  <2> QED BY <2>1, <2>4, <2>6 DEF QueueInv
<1>5. ASSUME NEW bad \in SUBSET CallSet(r), Enters(sch, sch', r, bad)
      PROVE  QueueInv'
  <2>1. CallSet(r) \cap Taken = {}
    BY <1>1, <1>2, TakenCalls DEF Entered
  <2>2. /\ sch'.requestQueue = sch.requestQueue /\ sch'.aborted = sch.aborted
        /\ \A p \in Owner \ {ScheduleChain(r)} : sch'.chain[p] = sch.chain[p]
        /\ Queued(sch') \cup Slot(sch') \subseteq Queued(sch) \cup Slot(sch) \cup CallSet(r)
        /\ Handed(sch) \subseteq Handed(sch')
        /\ ~sch'.isCancelling
    BY <1>1, <1>5, <2>1, entersMoves
  <2>3. Entered' = Entered \cup {r}
    BY <1>2, <1>3, <2>2 DEF Entered
  <2>4. Fresh'
    <3>1. PICK o \in Owner : o = ScheduleChain(r)
      BY DEF Owner, ScheduleChain
    <3> QED BY <1>1, <2>2, <2>3, <3>1, FreshStep DEF QueueInv
  <2>5. ASSUME ~Overlap PROVE Alone'
    <3>1. /\ \A p \in Range(sent) : Settled(p)
          /\ sch.active = None /\ Slot(sch) = {} /\ Queued(sch) = {}
          /\ sch.requestQueue = <<>>
      BY <1>1, <1>2, <2>5, ReadyEmpty
    <3>2. Len(sch'.requestQueue) <= 1 /\ RejectedMeansAborted'
      BY <1>2, <2>2, <2>5, <3>1 DEF RejectedMeansAborted, Alone, QueueInv
    <3>3. \A p \in Range(sent) : Settled(p)'
      BY <1>2, <2>2, <3>1, StaysSettled
    <3>4. \A p \in Requests : \/ Queued(sch') \cup Slot(sch') \subseteq CallSet(p)
                              \/ (Queued(sch') \cup Slot(sch')) \cap CallSet(p) = {}
      <4>1. Queued(sch') \cup Slot(sch') \subseteq CallSet(r)
        BY <2>2, <3>1
      <4>2. \A p \in Requests : p # r => CallSet(p) \cap CallSet(r) = {}
        BY DistinctCalls DEF CallSet, Range
      <4> QED BY <4>1, <4>2
    <3> QED BY <1>2, <2>2, <3>1, <3>2, <3>3, <3>4 DEF Alone
  <2> QED BY <2>2, <2>4, <2>5 DEF QueueInv
<1> QED BY <1>1, <1>4, <1>5, ScheduleSteps

LEMMA KeepShorter ==
  ASSUME NEW R, NEW S, NEW q \in Seq(R)
  PROVE  Len(Keep(q, S)) <= Len(q)
<1> DEFINE kept == {i \in DOMAIN q : q[i] \in S}
           at(n) == CHOOSE i \in kept : Cardinality(kept \cap (1..i)) = n
<1>1. kept \in SUBSET (1..Len(q)) /\ Len(q) \in Nat
  OBVIOUS
<1>2. Cardinality(kept) \in Nat /\ Cardinality(kept) <= Len(q)
  <2> HIDE DEF kept
  <2>1. IsFiniteSet(1..Len(q)) /\ Cardinality(1..Len(q)) = Len(q)
    <3>1. 1..Len(q) = {} \/ 1 <= Len(q)
      BY <1>1
    <3> QED BY <1>1, <3>1, FS_Interval
  <2> QED BY <1>1, <2>1, FS_Subset, FS_CardinalityType
<1>3. Keep(q, S) = [n \in 1..Cardinality(kept) |-> q[at(n)]]
  BY DEF Keep
<1> HIDE DEF kept, at
<1>4. Len(Keep(q, S)) = Cardinality(kept)
  <2>1. DOMAIN Keep(q, S) = 1..Cardinality(kept) /\ Keep(q, S) \in Seq(R)
    BY <1>3, KeepType
  <2> QED BY <1>2, <2>1
<1> QED BY <1>2, <1>4

LEMMA AbortQueue ==
  ASSUME QueueInv, PlaceInv', NEW sig \in Signals, Abort(sig) \/ Escape(sig)
  PROVE  QueueInv'
<1>1. sch \in Scheduler /\ sch' \in Scheduler /\ PlaceInv /\ TypeOK /\ SlotOpen(sch)
        /\ sch.requestQueue \in Seq(Requests)
  BY DEF QueueInv, PlaceInv, TypeOK, Scheduler
<1>2. PICK u \in Scheduler : u = abort(sch, sig)
  BY <1>1, abortType
<1>3. Aborts(sch, u, sig) /\ Range(u.requestQueue) = Range(sch.requestQueue) \ dropped(sch, sig)
  BY <1>1, <1>2, abortSteps
<1>4. UNCHANGED <<sent, turn>> /\ rejected' = rejected \cup dropped(sch, sig)
  BY DEF Abort, Escape
<1>5. PICK o \in Owner : o = CancelChain(sig)
  BY DEF Owner, CancelChain
<1>6. Moves(u, sch', o)
  <2>1. CASE Abort(sig)
    <3>1. sch' = u
      BY <1>2, <2>1 DEF Abort
    <3> QED BY <3>1 DEF Moves
  <2>2. CASE Escape(sig)
    <3>1. sch' = cancelAll(u, o, sig)
      BY <1>2, <1>5, <2>2 DEF Escape, CancelChain
    <3>2. Queued(u) \cap Slot(u) = {}
      BY <1>1, <1>2, abortPlaced DEF Placed
    <3>3. Clears(u, sch', o, sig)
      BY <3>1, <3>2, cancelAllSteps
    <3> QED BY <1>1, <3>3, clearsMoves
  <2> QED BY <2>1, <2>2
<1>7. dropped(sch, sig) \subseteq Range(sch.requestQueue)
        /\ \A r \in dropped(sch, sig) : SignalOf[r] = sig
  BY DEF dropped
<1>8. /\ Queued(u) = Queued(sch) /\ Slot(u) = Slot(sch) /\ Handed(u) = Handed(sch)
      /\ u.active = sch.active /\ u.chain = sch.chain /\ u.isCancelling = sch.isCancelling
      /\ u.aborted = sch.aborted \cup {sig}
  BY <1>3, SameSets DEF Aborts
<1>9. Entered' = Entered
  BY <1>3, <1>4, <1>6, <1>7 DEF Entered, Moves
<1>10. Fresh'
  <2>1. Entered \subseteq Entered' /\ sch.aborted \subseteq sch'.aborted /\ sig \in sch'.aborted
    BY <1>6, <1>8, <1>9 DEF Moves
  <2>2. \A p \in Owner \ {o} : sch'.chain[p] = sch.chain[p]
    BY <1>6, <1>8 DEF Moves
  <2> QED BY <1>1, <1>5, <2>1, <2>2, FreshStep DEF QueueInv
<1>11. sch.active = None => sch'.active = None
  <2>1. ASSUME sch.active = None PROVE Queued(u) \cup Slot(u) = {}
    <3>1. sch.toolCallQueue = <<>>
      BY <1>1, <2>1 DEF SlotOpen
    <3>2. Queued(sch) = {}
      BY <3>1 DEF Queued, Range
    <3>3. Slot(sch) = {}
      BY <2>1 DEF Slot
    <3> QED BY <1>8, <3>2, <3>3
  <2> QED BY <1>6, <2>1 DEF Moves, Slot
<1>12. sch'.isCancelling => sch'.active = None
  BY <1>6, <1>8, <1>11 DEF Moves, QueueInv
<1>13. ASSUME ~Overlap PROVE Alone'
  <2>1. Alone
    BY <1>13 DEF QueueInv
  <2>2. /\ sch'.requestQueue = u.requestQueue /\ sch'.aborted = sch.aborted \cup {sig}
        /\ Queued(sch') \cup Slot(sch') \subseteq Queued(sch) \cup Slot(sch)
        /\ Handed(sch) \subseteq Handed(sch')
    BY <1>6, <1>8 DEF Moves
  <2>3. Len(u.requestQueue) <= Len(sch.requestQueue)
    <3>1. PICK S : S = {r \in Requests : SignalOf[r] # sig}
      OBVIOUS
    <3>2. u.requestQueue = Keep(sch.requestQueue, S)
      BY <1>3, <3>1 DEF Aborts
    <3> QED BY <1>1, <3>2, KeepShorter
  <2>4. /\ u.requestQueue \in Seq(Requests)
        /\ Len(u.requestQueue) \in Nat /\ Len(sch.requestQueue) \in Nat
    BY <1>1 DEF Scheduler
  <2>5. Len(sch'.requestQueue) <= 1
    BY <2>1, <2>2, <2>3, <2>4 DEF Alone
  <2>6. sch'.requestQueue # <<>> => sch'.active = None
    <3>1. sch'.requestQueue # <<>> => sch.requestQueue # <<>>
      BY <1>1, <2>2, <2>3, <2>4
    <3> QED BY <1>11, <2>1, <3>1 DEF Alone
  <2>7. RejectedMeansAborted'
    BY <1>4, <1>7, <2>1, <2>2 DEF RejectedMeansAborted, Alone
  <2>8. \A r \in Range(sent') : Settled(r)' \/ SignalOf[r] = turn'
    <3>1. \A r : Settled(r) => Settled(r)'
      BY <1>4, <2>2, StaysSettled
    <3> QED BY <1>4, <2>1, <3>1 DEF Alone
  <2>9. \A r \in Requests : \/ Queued(sch') \cup Slot(sch') \subseteq CallSet(r)
                            \/ (Queued(sch') \cup Slot(sch')) \cap CallSet(r) = {}
    BY <2>1, <2>2 DEF Alone
  <2> QED BY <2>5, <2>6, <2>7, <2>8, <2>9 DEF Alone
<1> QED BY <1>10, <1>12, <1>13 DEF QueueInv

LEMMA HandlerQueue ==
  ASSUME QueueInv, PlaceInv', NEW o \in Owner, HandlerReturns(o)
  PROVE  QueueInv'
<1>1. sch \in Scheduler /\ sch' \in Scheduler /\ PlaceInv /\ TypeOK /\ SlotOpen(sch)
        /\ Placed(sch, Taken) /\ RequestsKept /\ sch.requestQueue \in Seq(Requests)
  BY DEF QueueInv, PlaceInv, TypeOK, Scheduler
<1>2. UNCHANGED <<sent, turn>>
  BY DEF HandlerReturns
<1>3. sch.chain[o] # Idle
  BY DEF HandlerReturns, Now, Idle, Waiting
<1>4. ASSUME NEW u \in Scheduler, Resets(sch, u, o)
      PROVE  /\ Queued(u) = Queued(sch) /\ Slot(u) = Slot(sch) /\ Handed(u) = Handed(sch)
             /\ \A p \in Owner \ {o} : u.chain[p] = sch.chain[p]
             /\ u.aborted = sch.aborted /\ u.active = sch.active
             /\ ~u.isCancelling /\ ~u.isFinalizing
             /\ Placed(u, Taken)
  <2>1. Queued(u) = Queued(sch) /\ Slot(u) = Slot(sch) /\ Handed(u) = Handed(sch)
    BY <1>4 DEF Resets, Queued, Slot, Handed
  <2>2. \A p \in Owner \ {o} : u.chain[p] = sch.chain[p]
    BY <1>1, <1>4, ChainsAfterReturn DEF Resets
  <2>3. Placed(u, Taken)
    BY <1>1, <1>4, resetsPlaced
  <2> QED BY <1>4, <2>1, <2>2, <2>3 DEF Resets
<1>5. CASE Resets(sch, sch', o) /\ sch'.requestQueue = sch.requestQueue /\ UNCHANGED rejected
  <2>1. Moves(sch, sch', o)
    BY <1>1, <1>4, <1>5 DEF Moves
  <2> QED BY <1>2, <1>3, <1>5, <2>1, MovesQueue
<1>6. ASSUME NEW u \in Scheduler, NEW r \in Requests, Next1(sch, u, sch', o, r),
             rejected' = IF isRunning(u) THEN rejected \cup {r} ELSE rejected
      PROVE  QueueInv'
  <2>1. Resets(sch, u, o) /\ sch.requestQueue # <<>> /\ u.requestQueue = Tail(sch.requestQueue)
    BY <1>6 DEF Next1
  <2>2. /\ r \notin Range(u.requestQueue)
        /\ Range(sch.requestQueue) = {r} \cup Range(u.requestQueue)
    BY <1>1, <1>6, HeadRemoved DEF Next1, RequestsKept
  <2>3. r \notin Entered /\ r \notin rejected /\ r \in Range(sent) /\ CallSet(r) \cap Taken = {}
    BY <1>1, <2>2, TakenCalls DEF Entered, RequestsKept
  <2>4. CASE isRunning(u)
    <3>1. Refused(u, sch') /\ rejected' = rejected \cup {r}
      BY <1>6, <2>4 DEF Next1
    <3>2. sch'.requestQueue = u.requestQueue /\ sch'.aborted = u.aborted
            /\ sch'.chain = u.chain /\ ~sch'.isCancelling
      BY <3>1 DEF Refused, Scheduler
    <3>3. Entered' = Entered
      BY <1>2, <2>2, <3>1, <3>2 DEF Entered
    <3>4. Fresh'
      <4>1. Entered \subseteq Entered' /\ sch.aborted \subseteq sch'.aborted
        BY <1>4, <2>1, <3>2, <3>3
      <4>2. \A p \in Owner \ {o} : sch'.chain[p] = sch.chain[p]
        BY <1>4, <2>1, <3>2
      <4> QED BY <1>1, <1>3, <4>1, <4>2, FreshStep DEF QueueInv
    <3>5. Overlap
      <4>1. ~Overlap => sch.active = None
        BY <2>1 DEF QueueInv, Alone
      <4>2. u.active # None
        BY <1>4, <2>1, <2>4 DEF isRunning
      <4> QED BY <1>4, <2>1, <4>1, <4>2, SchedulerAssumption
    <3> QED BY <3>2, <3>4, <3>5 DEF QueueInv
  <2>5. CASE ~isRunning(u)
    <3>1. PICK bad \in SUBSET CallSet(r) : Enters(u, sch', r, bad)
      BY <1>6, <2>5 DEF Next1
    <3>2. rejected' = rejected
      BY <1>6, <2>5
    <3>3. /\ sch'.requestQueue = u.requestQueue /\ sch'.aborted = u.aborted
          /\ \A p \in Owner \ {ScheduleChain(r)} : sch'.chain[p] = u.chain[p]
          /\ Queued(sch') \cup Slot(sch') \subseteq Queued(u) \cup Slot(u) \cup CallSet(r)
          /\ Handed(u) \subseteq Handed(sch')
          /\ ~sch'.isCancelling
      BY <1>1, <1>4, <2>1, <2>3, <3>1, entersMoves
    <3>4. Entered' = Entered \cup {r}
      BY <1>2, <2>2, <2>3, <3>2, <3>3 DEF Entered
    <3>5. Fresh'
      <4>1. ASSUME NEW p \in Requests \ Entered' PROVE sch'.chain[ScheduleChain(p)] = Idle
        <5>1. sch.chain[ScheduleChain(p)] = Idle /\ ScheduleChain(p) \in Owner /\ p # r
          BY <3>4, <4>1 DEF Fresh, QueueInv, Owner, ScheduleChain
        <5>2. ScheduleChain(p) # o /\ ScheduleChain(p) # ScheduleChain(r)
          BY <1>3, <5>1 DEF ScheduleChain
        <5> QED BY <1>4, <2>1, <3>3, <5>1, <5>2
      <4>2. ASSUME NEW sig \in Signals \ sch'.aborted PROVE sch'.chain[CancelChain(sig)] = Idle
        <5>1. sch.chain[CancelChain(sig)] = Idle /\ CancelChain(sig) \in Owner
          BY <1>4, <2>1, <3>3, <4>2 DEF Fresh, QueueInv, Owner, CancelChain
        <5>2. CancelChain(sig) # o /\ CancelChain(sig) # ScheduleChain(r)
          BY <1>3, <5>1 DEF ScheduleChain, CancelChain
        <5> QED BY <1>4, <2>1, <3>3, <5>1, <5>2
      <4> QED BY <4>1, <4>2 DEF Fresh
    <3>6. ASSUME ~Overlap PROVE Alone'
      <4>1. Alone
        BY <3>6 DEF QueueInv
      <4>2. Slot(sch) = {} /\ Queued(sch) = {}
        BY <1>1, <2>1, <4>1 DEF Alone, Slot, Queued, SlotOpen, Range
      <4>3. sch'.requestQueue = <<>>
        <5>1. Len(sch.requestQueue) = 1
          <6>1. PICK q \in Seq(Requests) : q = sch.requestQueue
            BY <1>1
          <6>2. PICK n \in Nat : n = Len(q)
            BY <6>1
          <6>3. n <= 1
            BY <2>1, <4>1, <6>1, <6>2 DEF Alone
          <6>4. n # 0
            BY <2>1, <6>1, <6>2, EmptySeq
          <6>5. n = 1
            BY <6>3, <6>4
          <6> QED BY <6>1, <6>2, <6>5
        <5>2. PICK q \in Seq(Requests) : q = Tail(sch.requestQueue)
          BY <1>1, <2>1, HeadTailProperties
        <5>3. Len(q) = 0
          BY <1>1, <2>1, <5>1, <5>2, HeadTailProperties
        <5> QED BY <2>1, <3>3, <5>2, <5>3
      <4>4. RejectedMeansAborted'
        BY <1>4, <2>1, <3>2, <3>3, <4>1 DEF RejectedMeansAborted, Alone
      <4>5. \A p \in Range(sent') : Settled(p)' \/ SignalOf[p] = turn'
        <5>1. \A p : Settled(p) => Settled(p)'
          BY <1>4, <2>1, <3>2, <3>3, StaysSettled
        <5> QED BY <1>2, <4>1, <5>1 DEF Alone
      <4>6. \A p \in Requests : \/ Queued(sch') \cup Slot(sch') \subseteq CallSet(p)
                                \/ (Queued(sch') \cup Slot(sch')) \cap CallSet(p) = {}
        <5>1. Queued(sch') \cup Slot(sch') \subseteq CallSet(r)
          BY <1>4, <2>1, <3>3, <4>2
        <5>2. \A p \in Requests : p # r => CallSet(p) \cap CallSet(r) = {}
          BY DistinctCalls DEF CallSet, Range
        <5> QED BY <5>1, <5>2
      <4>7. Len(sch'.requestQueue) <= 1
        BY <4>3
      <4> QED BY <4>3, <4>4, <4>5, <4>6, <4>7 DEF Alone
    <3> QED BY <3>3, <3>5, <3>6 DEF QueueInv
  <2> QED BY <2>4, <2>5
<1> QED BY <1>1, <1>5, <1>6, HandlerSteps

LEMMA QueueInit == Init => QueueInv
<1> SUFFICES ASSUME Init PROVE QueueInv
  OBVIOUS
<1>1. PlaceInv /\ TypeOK
  BY PlaceInit, InitType
<1>2. \A o \in Owner : sch.chain[o] = Idle
  BY DEF Init
<1>3. Fresh
  BY <1>2 DEF Fresh, Owner, ScheduleChain, CancelChain
<1>4. /\ sch.active = None /\ sch.requestQueue = <<>> /\ rejected = {} /\ Range(sent) = {}
      /\ sch.toolCallQueue = <<>>
  BY DEF Init, Range
<1>5. Queued(sch) \cup Slot(sch) = {} /\ Len(sch.requestQueue) <= 1
  BY <1>4 DEF Queued, Slot, Range
<1> QED BY <1>1, <1>3, <1>4, <1>5 DEF QueueInv, Alone, RejectedMeansAborted

LEMMA QueueNext == QueueInv /\ [Next]_vars => QueueInv'
<1> SUFFICES ASSUME QueueInv, [Next]_vars PROVE QueueInv'
  OBVIOUS
<1>1. PlaceInv /\ PlaceInv' /\ TypeOK'
  BY PlaceNext DEF QueueInv, PlaceInv
<1>2. CASE UNCHANGED vars
  <2>1. /\ sch' = sch /\ sent' = sent /\ rejected' = rejected /\ turn' = turn
    BY <1>2 DEF vars
  <2>2. Fresh'
    BY <2>1 DEF Fresh, QueueInv, Entered
  <2>3. ~Overlap => Alone'
    BY <2>1 DEF QueueInv, Alone, RejectedMeansAborted, Settled, Reported
  <2> QED BY <1>1, <2>1, <2>2, <2>3 DEF QueueInv
<1>3. CASE NewTurn
  <2>1. /\ sch' = sch /\ sent' = sent /\ rejected' = rejected /\ Ready
    BY <1>3 DEF NewTurn
  <2>2. Fresh'
    BY <2>1 DEF Fresh, QueueInv, Entered
  <2>3. ASSUME ~Overlap PROVE Alone'
    <3>1. \A r \in Range(sent) : Settled(r)
      BY <1>1, <2>1, <2>3, ReadyEmpty
    <3>2. \A r \in Range(sent') : Settled(r)'
      BY <2>1, <3>1 DEF Settled, Reported
    <3> QED BY <2>1, <2>3, <3>2 DEF QueueInv, Alone, RejectedMeansAborted
  <2> QED BY <1>1, <2>1, <2>2, <2>3 DEF QueueInv
<1>4. ASSUME NEW r \in Requests, Schedule(r) PROVE QueueInv'
  BY <1>1, <1>4, ScheduleQueue
<1>5. ASSUME NEW sig \in Signals, Abort(sig) \/ Escape(sig) PROVE QueueInv'
  BY <1>1, <1>5, AbortQueue
<1>6. ASSUME NEW o \in Answerer, NEW outcome \in Outcomes,
             UserResponds(o, outcome) \/ IdeResponds(o, outcome)
      PROVE  QueueInv'
  <2>1. Respond(o, outcome)
    BY <1>6 DEF UserResponds, IdeResponds
  <2> QED BY <1>1, <2>1, RespondMoves, MovesQueue
<1>7. ASSUME NEW o \in Owner, Resume(o) PROVE QueueInv'
  <2>1. CASE HandlerReturns(o)
    BY <1>1, <2>1, HandlerQueue
  <2>2. CASE Continues(o)
    BY <1>1, <2>2, ContinuesMoves, MovesQueue
  <2> QED BY <1>7, <2>1, <2>2 DEF Resume, Continues
<1> QED BY <1>2, <1>3, <1>4, <1>5, <1>6, <1>7 DEF Next

(* With a client that waits for each batch (Overlap is FALSE) the scheduler *)
(* never takes a queued request while it is busy: a promise of schedule() is *)
(* rejected only by the abort listener (coreToolScheduler.ts, abortHandler). *)
THEOREM RejectedOnlyWhenAborted == Spec /\ ~Overlap => []RejectedMeansAborted
<1>1. Init => QueueInv
  BY QueueInit
<1>2. QueueInv /\ [Next]_vars => QueueInv'
  BY QueueNext
<1>3. Spec => []QueueInv
  BY <1>1, <1>2, PTL DEF Spec
<1>4. QueueInv => (~Overlap => RejectedMeansAborted)
  BY DEF QueueInv, Alone
<1>5. CASE ~Overlap
  <2>1. QueueInv => RejectedMeansAborted
    BY <1>4, <1>5
  <2> QED BY <1>3, <2>1, PTL
<1> QED BY <1>5

(* The chains that wait for the call in the slot.                          *)
Holds(s, p) == s.active # None /\ s.chain[p].call = s.active

(* The place of such a chain tells the status of the call.                 *)
Fits(s, p) ==
  \/ s.status[s.active] = "validating" /\ s.chain[p].at = "validating"
  \/ s.status[s.active] = "executing" /\ s.chain[p].at = "executing"
  \/ /\ s.status[s.active] = "awaiting_approval"
     /\ p = [kind |-> "user", of |-> s.active]
     /\ s.chain[p].at \in {"confirming", "editing", "inlining"}

(* At most one chain waits for it, and one does unless the user is asked.  *)
SlotOwned(s) ==
  /\ \A p, q \in Owner : Holds(s, p) /\ Holds(s, q) => p = q
  /\ \A p \in Owner : Holds(s, p) => Fits(s, p)
  /\ s.active # None /\ s.status[s.active] \in {"validating", "executing"}
       => \E p \in Owner : Holds(s, p)

ActiveOpen(s) == s.active # None => s.status[s.active] # "error"

LEMMA advanceOwned ==
  ASSUME NEW s \in Scheduler, NEW t \in Scheduler, NEW o \in Owner, NEW sig,
         s.active = None, Advances(s, t, o, sig), NEW T, Placed(s, T)
  PROVE  SlotOwned(t) /\ ActiveOpen(t)
<1>1. CASE Finishes(s, t, o, sig) \/ Rests(s, t, o, sig)
  <2>1. t.active = None
    BY <1>1 DEF Finishes, Rests
  <2> QED BY <2>1 DEF SlotOwned, ActiveOpen, Holds
<1>2. CASE Takes(s, t, o, sig)
  <2>1. t.active \in Queued(s) /\ t.active \in Calls /\ t.status = s.status
        /\ s.status[t.active] # "error"
    <3>1. t.active \in Queued(s)
      BY <1>2, TakesSets DEF Placed
    <3> QED BY <1>2, <3>1 DEF Takes
  <2>2. \A p \in Owner : t.chain[p] = IF p = o THEN Waiting("validating", t.active, sig, None)
                                      ELSE s.chain[p]
    BY <1>2 DEF Takes, Scheduler
  <2>3. t.status[t.active] = "validating"
    BY <2>1 DEF Placed
  <2>4. t.active # None
    BY <2>1, SchedulerAssumption
  <2>5. \A p \in Owner : Holds(t, p) <=> p = o
    BY <2>1, <2>2, <2>4 DEF Holds, Waiting, Placed
  <2>6. Fits(t, o)
    BY <2>2, <2>3 DEF Fits, Waiting
  <2> QED BY <2>3, <2>5, <2>6 DEF SlotOwned, ActiveOpen
<1> QED BY <1>1, <1>2 DEF Advances

(* The slot stays as it is and chain o no longer waits for a call.         *)
Releases(s, t, o) ==
  /\ t.active = s.active
  /\ s.active # None => t.status[s.active] = s.status[s.active]
  /\ \A p \in Owner \ {o} : t.chain[p] = s.chain[p]
  /\ t.chain[o].call = None

LEMMA releasesOwned ==
  ASSUME NEW s \in Scheduler, NEW t, NEW o \in Owner, Releases(s, t, o)
  PROVE  /\ /\ ~Holds(s, o) \/ s.status[s.active] \notin {"validating", "executing"}
            /\ SlotOwned(s)
           => SlotOwned(t)
         /\ ActiveOpen(s) => ActiveOpen(t)
<1>1. \A p \in Owner : Holds(t, p) <=> Holds(s, p) /\ p # o
  BY DEF Releases, Holds
<1>2. \A p \in Owner \ {o} : Holds(s, p) /\ Fits(s, p) => Fits(t, p)
  BY DEF Releases, Holds, Fits
<1>3. ASSUME ~Holds(s, o) \/ s.status[s.active] \notin {"validating", "executing"}, SlotOwned(s)
      PROVE  SlotOwned(t)
  <2>1. \A p, q \in Owner : Holds(t, p) /\ Holds(t, q) => p = q
    BY <1>1, <1>3 DEF SlotOwned
  <2>2. \A p \in Owner : Holds(t, p) => Fits(t, p)
    BY <1>1, <1>2, <1>3 DEF SlotOwned
  <2>3. t.active # None /\ t.status[t.active] \in {"validating", "executing"}
          => \E p \in Owner : Holds(t, p)
    BY <1>1, <1>3 DEF SlotOwned, Releases
  <2> QED BY <2>1, <2>2, <2>3 DEF SlotOwned
<1>4. ActiveOpen(s) => ActiveOpen(t)
  BY DEF Releases, ActiveOpen
<1> QED BY <1>3, <1>4

LEMMA returnReleases ==
  ASSUME NEW s \in Scheduler, NEW t, NEW o \in Owner, Returns(s, t, o)
  PROVE  Releases(s, t, o)
<1>1. \A p \in Owner : t.chain[p] = IF p = o THEN Returned(o) ELSE s.chain[p]
  BY DEF Returns, Scheduler
<1>2. Returned(o).call = None
  BY DEF Returned, Idle, Waiting
<1>3. /\ t.chain[o].call = None
      /\ \A p \in Owner \ {o} : t.chain[p] = s.chain[p]
  BY <1>1, <1>2
<1> QED BY <1>3 DEF Returns, Releases

LEMMA runsOwned ==
  ASSUME NEW s \in Scheduler, NEW t, NEW o \in Owner, NEW c \in Calls, NEW sig,
         Runs(s, t, o, c, sig)
  PROVE  /\ (\A p \in Owner : Holds(s, p) => p = o) => SlotOwned(t)
         /\ ActiveOpen(t)
<1>1. /\ t.active = c /\ s.active = c /\ t.status[c] = "executing" /\ c # None
      /\ \A p \in Owner : t.chain[p] = IF p = o THEN Waiting("executing", c, sig, None)
                                       ELSE s.chain[p]
  BY SchedulerAssumption DEF Runs, Scheduler
<1>2. ASSUME \A p \in Owner : Holds(s, p) => p = o PROVE SlotOwned(t)
  <2>1. \A p \in Owner : Holds(t, p) <=> p = o
    BY <1>1, <1>2 DEF Holds, Waiting
  <2>2. Fits(t, o)
    BY <1>1 DEF Fits, Waiting
  <2> QED BY <2>1, <2>2 DEF SlotOwned
<1> QED BY <1>1, <1>2 DEF ActiveOpen

LEMMA settlesOwned ==
  ASSUME NEW s \in Scheduler, NEW t \in Scheduler, NEW o \in Owner, NEW sig,
         Settles(s, t, o, sig), NEW T, Placed(s, T)
  PROVE  /\ (s.active # None /\ s.status[s.active] \notin Terminal
               => SlotOwned(s) /\ ~Holds(s, o)) => SlotOwned(t)
         /\ ActiveOpen(t)
<1>1. ASSUME NEW u \in Scheduler, Emptied(s, u), Advances(u, t, o, sig)
      PROVE  SlotOwned(t) /\ ActiveOpen(t)
  BY <1>1, emptiedPlaced, advanceOwned DEF Emptied
<1>2. CASE s.active # None /\ s.status[s.active] \notin Terminal /\ Returns(s, t, o)
  <2>1. ActiveOpen(s)
    BY <1>2 DEF ActiveOpen, Terminal
  <2>2. Releases(s, t, o)
    BY <1>2, returnReleases
  <2>3. ActiveOpen(t)
    BY <2>1, <2>2, releasesOwned
  <2>4. SlotOwned(s) /\ ~Holds(s, o) => SlotOwned(t)
    BY <2>2, releasesOwned
  <2> QED BY <1>2, <2>3, <2>4
<1> QED BY <1>1, <1>2 DEF Settles

LEMMA clearsOwned ==
  ASSUME NEW s \in Scheduler, NEW t \in Scheduler, NEW o \in Owner, NEW sig,
         Clears(s, t, o, sig), NEW T, Placed(s, T), SlotOpen(s)
  PROVE  /\ /\ ~Holds(s, o) \/ s.status[s.active] \notin {"validating", "executing"}
            /\ SlotOwned(s)
           => SlotOwned(t)
         /\ ActiveOpen(s) => ActiveOpen(t)
<1>1. ASSUME NEW u \in Scheduler, Dropped(s, u), Advances(u, t, o, sig)
      PROVE  SlotOwned(t) /\ ActiveOpen(t)
  BY <1>1, droppedPlaced, advanceOwned DEF Dropped
<1>2. CASE Returns(s, t, o)
  BY <1>2, returnReleases, releasesOwned
<1> QED BY <1>1, <1>2 DEF Clears

LEMMA entersOwned ==
  ASSUME NEW s \in Scheduler, NEW r \in Requests, NEW bad \in SUBSET CallSet(r),
         NEW t \in Scheduler, Enters(s, t, r, bad), NEW T, Placed(s, T),
         CallSet(r) \cap T = {}, s.chain[ScheduleChain(r)].call = None
  PROVE  /\ SlotOwned(s) => SlotOwned(t)
         /\ ActiveOpen(s) => ActiveOpen(t)
<1>1. PICK o \in Owner : o = ScheduleChain(r)
  BY DEF Owner, ScheduleChain
<1>2. PICK u \in Scheduler :
          /\ Enqueued(s, u, r, bad)
          /\ IF s.active # None THEN Returns(u, t, o) ELSE Advances(u, t, o, SignalOf[r])
  BY <1>1 DEF Enters
<1>3. CASE s.active # None
  <2>1. Releases(u, t, o)
    BY <1>2, <1>3, returnReleases
  <2>2. s.active \in Calls /\ s.active \notin CallSet(r)
    BY <1>3 DEF Scheduler, Placed, Slot
  <2>3. /\ u.active = s.active /\ u.status[s.active] = s.status[s.active]
        /\ u.chain = s.chain
    BY <1>2, <2>2 DEF Enqueued
  <2>4. Releases(s, t, o)
    BY <2>1, <2>3 DEF Releases
  <2>5. ~Holds(s, o)
    BY <1>1 DEF Holds
  <2> QED BY <2>4, <2>5, releasesOwned
<1>4. CASE s.active = None
  <2>1. Placed(u, T \cup CallSet(r)) /\ u.active = None
    BY <1>2, <1>4, enqueuedPlaced DEF Enqueued
  <2> QED BY <1>2, <1>4, <2>1, advanceOwned
<1> QED BY <1>3, <1>4

(* A response to the call in the slot waits.                               *)
LEMMA answersOwned ==
  ASSUME NEW s \in Scheduler, NEW t, NEW o \in Owner, NEW w, Answers(s, t, o, w), w.call \in Calls,
         w.call = s.active => /\ o = [kind |-> "user", of |-> w.call]
                              /\ s.status[w.call] = "awaiting_approval"
  PROVE  /\ (~Holds(s, o) \/ s.chain[o].call = w.call) /\ SlotOwned(s) => SlotOwned(t)
         /\ ActiveOpen(s) => ActiveOpen(t)
<1>1. /\ t.active = s.active
      /\ \A p \in Owner : t.chain[p] = IF p = o THEN w ELSE s.chain[p]
      /\ w.at \in {"confirming", "editing", "inlining"}
  BY DEF Answers, Same, Scheduler
<1>2. s.active # None => s.active \in Calls
  BY DEF Scheduler
<1>3. s.active # None => t.status[s.active] = s.status[s.active]
  BY <1>2 DEF Answers, Live
<1>4. ASSUME ~Holds(s, o) \/ s.chain[o].call = w.call, SlotOwned(s)
      PROVE  SlotOwned(t)
  <2>1. \A p \in Owner : Holds(t, p) => Holds(s, p) \/ (p = o /\ w.call = s.active)
    BY <1>1 DEF Holds
  <2>2. \A p \in Owner : Holds(s, p) => Holds(t, p)
    BY <1>1, <1>4 DEF Holds
  <2>3. w.call = s.active => \A p \in Owner : Holds(s, p) => p = o
    BY <1>4 DEF SlotOwned, Fits
  <2>4. \A p, q \in Owner : Holds(t, p) /\ Holds(t, q) => p = q
    BY <1>4, <2>1, <2>3 DEF SlotOwned
  <2>5. ASSUME NEW p \in Owner, Holds(t, p) PROVE Fits(t, p)
    <3>1. CASE p = o /\ w.call = s.active
      BY <1>1, <1>3, <2>5, <3>1 DEF Fits, Holds
    <3>2. CASE Holds(s, p) /\ w.call # s.active
      <4>1. p # o
        BY <1>1, <2>5, <3>2 DEF Holds
      <4>2. t.chain[p] = s.chain[p] /\ Fits(s, p)
        BY <1>1, <1>4, <3>2, <4>1 DEF SlotOwned
      <4> QED BY <1>1, <1>3, <3>2, <4>2 DEF Fits, Holds
    <3>3. CASE Holds(s, p) /\ w.call = s.active
      BY <2>3, <3>1, <3>3
    <3> QED BY <2>1, <2>5, <3>1, <3>2, <3>3
  <2>6. t.active # None /\ t.status[t.active] \in {"validating", "executing"}
          => \E p \in Owner : Holds(t, p)
    BY <1>1, <1>3, <1>4, <2>2 DEF SlotOwned
  <2> QED BY <2>4, <2>5, <2>6 DEF SlotOwned
<1>5. ActiveOpen(s) => ActiveOpen(t)
  BY <1>1, <1>3 DEF ActiveOpen
<1> QED BY <1>4, <1>5

(* The third layer: where edits are not shown in the IDE a call in the slot *)
(* has one chain that waits for it; and where an invocation is always      *)
(* rebuilt, the call in the slot is not finished.                          *)
OwnInv ==
  /\ QueueInv
  /\ ~Ide => SlotOwned(sch)
  /\ "rebuild" \notin MayThrow => ActiveOpen(sch)

LEMMA OwnFacts ==
  ASSUME OwnInv
  PROVE  /\ QueueInv /\ PlaceInv /\ TypeOK /\ sch \in Scheduler
         /\ Placed(sch, Taken) /\ SlotOpen(sch)
         /\ sch.active # None => sch.active \in Calls
         /\ \A p \in Owner : Holds(sch, p) => sch.chain[p].call \in Calls
  BY DEF OwnInv, QueueInv, PlaceInv, TypeOK, Holds, Scheduler

LEMMA OwnStep ==
  ASSUME OwnInv, QueueInv',
         ~Ide /\ SlotOwned(sch) => SlotOwned(sch'),
         "rebuild" \notin MayThrow /\ ActiveOpen(sch) => ActiveOpen(sch')
  PROVE  OwnInv'
  BY DEF OwnInv

LEMMA ValidationOwned ==
  ASSUME OwnInv, TypeOK', QueueInv', NEW o \in Owner,
         PolicyAllows(o) \/ PolicyDenies(o) \/ PolicyAsks(o) \/ ValidationFails(o)
  PROVE  OwnInv'
<1>1. sch \in Scheduler /\ sch' \in Scheduler /\ Placed(sch, Taken) /\ SlotOpen(sch)
  BY OwnFacts DEF TypeOK
<1>2. /\ Now(o, "validating")
      /\ \/ Proceeding(sch, sch', o, sch.chain[o].call, sch.chain[o].signal)
         \/ Fails(sch, sch', o)
         \/ Asks(sch, sch', o, sch.chain[o].call, sch.chain[o].signal)
  BY OwnFacts, PlaceFacts, ValidationSteps
<1>3. PICK c \in Calls, sig \in Signals : c = sch.chain[o].call /\ sig = sch.chain[o].signal
  <2>1. sch.chain[o].call \in Calls /\ sch.chain[o].signal \in Signals
    BY <1>2, OwnFacts, ForACallType DEF Now, ForACall
  <2> QED BY <2>1
<1>4. Holds(sch, o) <=> c = sch.active
  BY <1>3, SchedulerAssumption DEF Holds
<1>5. SlotOwned(sch) /\ c = sch.active
        => sch.status[c] = "validating" /\ Live(sch, c) /\ \A p \in Owner : Holds(sch, p) => p = o
  BY <1>2, <1>4, SchedulerAssumption DEF SlotOwned, Fits, Now, Live, Terminal
<1>6. CASE Proceeding(sch, sch', o, c, sig)
  <2>1. CASE Live(sch, c)
    <3>1. Runs(sch, sch', o, c, sig) /\ c = sch.active
      BY <1>6, <2>1 DEF Proceeding, Live
    <3>2. ActiveOpen(sch')
      BY <1>1, <3>1, runsOwned
    <3>3. SlotOwned(sch) => SlotOwned(sch')
      BY <1>1, <1>5, <3>1, runsOwned
    <3> QED BY <3>2, <3>3, OwnStep
  <2>2. CASE ~Live(sch, c)
    <3>1. Releases(sch, sch', o)
      BY <1>1, <1>6, <2>2, returnReleases DEF Proceeding
    <3>2. SlotOwned(sch) => ~Holds(sch, o)
      BY <1>4, <1>5, <2>2
    <3>3. /\ SlotOwned(sch) => SlotOwned(sch')
          /\ ActiveOpen(sch) => ActiveOpen(sch')
      BY <1>1, <3>1, <3>2, releasesOwned
    <3> QED BY <3>3, OwnStep
  <2> QED BY <2>1, <2>2
<1>7. CASE Fails(sch, sch', o)
  <2>1. PICK v \in Scheduler, new \in {"error", "cancelled"} :
          Sets(sch, v, c, new) /\ Settles(v, sch', o, sig)
    BY <1>3, <1>7 DEF Fails
  <2>2. Placed(v, Taken)
    BY <1>1, <2>1, setsPlaced DEF Terminal
  <2>3. ASSUME SlotOwned(sch), v.active # None, v.status[v.active] \notin Terminal
        PROVE  SlotOwned(v) /\ ~Holds(v, o)
    <3>1. /\ v.active = sch.active /\ v.chain = sch.chain
          /\ \A d \in Calls : v.status[d] = IF d = c /\ Live(sch, c) THEN new ELSE sch.status[d]
      BY <2>1 DEF Sets
    <3>2. v.active # c
      BY <1>5, <2>3, <3>1 DEF Terminal
    <3>3. v.status[v.active] = sch.status[sch.active]
      BY <2>3, <3>1, <3>2, OwnFacts
    <3>4. \A p \in Owner : /\ Holds(v, p) <=> Holds(sch, p)
                           /\ Fits(v, p) <=> Fits(sch, p)
      BY <3>1, <3>3 DEF Holds, Fits
    <3>5. SlotOwned(v)
      BY <2>3, <3>1, <3>3, <3>4 DEF SlotOwned
    <3> QED BY <1>4, <3>1, <3>2, <3>4, <3>5
  <2>4. ActiveOpen(sch')
    BY <1>1, <2>1, <2>2, settlesOwned
  <2>5. SlotOwned(sch) => SlotOwned(sch')
    BY <1>1, <2>1, <2>2, <2>3, settlesOwned
  <2> QED BY <2>4, <2>5, OwnStep
<1>8. CASE Asks(sch, sch', o, c, sig)
  <2>1. /\ sch'.active = sch.active
        /\ \A p \in Owner : sch'.chain[p] = IF p = o THEN Returned(o) ELSE sch.chain[p]
        /\ \A d \in Calls : sch'.status[d] = IF d = c /\ Live(sch, c) THEN "awaiting_approval"
                                             ELSE sch.status[d]
    BY <1>1, <1>8 DEF Asks, Same, Scheduler
  <2>2. Returned(o).call = None
    BY DEF Returned, Idle, Waiting
  <2>3. ActiveOpen(sch) => ActiveOpen(sch')
    BY <2>1, OwnFacts DEF ActiveOpen
  <2>4. CASE c # sch.active
    <3>1. Releases(sch, sch', o)
      BY <2>1, <2>2, <2>4, OwnFacts DEF Releases
    <3>2. SlotOwned(sch) => SlotOwned(sch')
      BY <1>1, <1>4, <2>4, <3>1, releasesOwned
    <3> QED BY <2>3, <3>2, OwnStep
  <2>5. ASSUME c = sch.active, SlotOwned(sch) PROVE SlotOwned(sch')
    <3>1. \A p \in Owner : ~Holds(sch', p)
      BY <1>5, <2>1, <2>2, <2>5 DEF Holds
    <3>2. sch'.status[sch'.active] = "awaiting_approval"
      BY <1>5, <2>1, <2>5
    <3> QED BY <3>1, <3>2 DEF SlotOwned
  <2> QED BY <2>3, <2>4, <2>5, OwnStep
<1> QED BY <1>2, <1>3, <1>6, <1>7, <1>8

LEMMA ExecutedOwned ==
  ASSUME OwnInv, TypeOK', QueueInv', NEW o \in Owner, NEW result \in Terminal,
         Executed(o, result)
  PROVE  OwnInv'
<1>1. sch \in Scheduler /\ sch' \in Scheduler /\ Placed(sch, Taken) /\ SlotOpen(sch)
  BY OwnFacts DEF TypeOK
<1>2. Finished(sch, sch', o)
  BY OwnFacts, ExecutedSteps
<1>3. PICK c \in Calls, sig \in Signals : c = sch.chain[o].call /\ sig = sch.chain[o].signal
  <2>1. sch.chain[o].call \in Calls /\ sch.chain[o].signal \in Signals
    BY <1>2, OwnFacts, ForACallType DEF Finished, ForACall
  <2> QED BY <2>1
<1>4. PICK v \in Scheduler, new \in Terminal : Marks(sch, v, c, new) /\ Settles(v, sch', o, sig)
  BY <1>2, <1>3 DEF Finished
<1>5. /\ v.active = sch.active /\ v.chain = sch.chain
      /\ \A d \in Calls : v.status[d] = IF d = c /\ sch.active = c THEN new ELSE sch.status[d]
  BY <1>4 DEF Marks, Same
<1>6. Placed(v, Taken)
  BY <1>1, <1>4, marksPlaced
<1>7. ASSUME SlotOwned(sch), v.active # None, v.status[v.active] \notin Terminal
      PROVE  SlotOwned(v) /\ ~Holds(v, o)
  <2>1. v.active # c
    BY <1>5, <1>7
  <2>2. v.status[v.active] = sch.status[sch.active]
    BY <1>5, <1>7, <2>1, OwnFacts
  <2>3. \A p \in Owner : /\ Holds(v, p) <=> Holds(sch, p)
                         /\ Fits(v, p) <=> Fits(sch, p)
    BY <1>5, <2>2 DEF Holds, Fits
  <2>4. SlotOwned(v)
    BY <1>5, <1>7, <2>2, <2>3 DEF SlotOwned
  <2>5. ~Holds(v, o)
    BY <1>3, <1>5, <2>1 DEF Holds
  <2> QED BY <2>4, <2>5
<1>8. ActiveOpen(sch')
  BY <1>1, <1>4, <1>6, settlesOwned
<1>9. SlotOwned(sch) => SlotOwned(sch')
  BY <1>1, <1>4, <1>6, <1>7, settlesOwned
<1> QED BY <1>8, <1>9, OwnStep

LEMMA HandlesOwned ==
  ASSUME NEW s \in Scheduler, NEW t \in Scheduler, NEW o \in Owner, NEW c \in Calls,
         NEW sig \in Signals, NEW outcome,
         Handles(s, t, o, c, outcome, sig, TRUE), NEW T, Placed(s, T), SlotOpen(s),
         s.chain[o].call = c, s.chain[o].at \in {"confirming", "editing", "inlining"}
  PROVE  /\ SlotOwned(s) => SlotOwned(t)
         /\ ActiveOpen(s) => ActiveOpen(t)
<1>1. SlotOwned(s) /\ s.active = c
        => /\ s.status[c] = "awaiting_approval" /\ Live(s, c)
           /\ o = [kind |-> "user", of |-> c]
           /\ \A p \in Owner : Holds(s, p) => p = o
  <2>1. s.active = c => Holds(s, o)
    BY SchedulerAssumption DEF Holds
  <2> QED BY <2>1, SchedulerAssumption DEF SlotOwned, Fits, Live, Terminal
<1>2. SlotOwned(s) => ~Holds(s, o) \/ s.status[s.active] \notin {"validating", "executing"}
  BY <1>1 DEF Holds
<1>3. CASE Clears(s, t, o, sig)
  BY <1>2, <1>3, clearsOwned
<1>4. CASE Returns(s, t, o)
  BY <1>2, <1>4, returnReleases, releasesOwned
<1>5. CASE Proceeding(s, t, o, c, sig)
  <2>1. CASE Live(s, c)
    <3>1. Runs(s, t, o, c, sig) /\ s.active = c
      BY <1>5, <2>1 DEF Proceeding, Live
    <3>2. ActiveOpen(t)
      BY <3>1, runsOwned
    <3>3. SlotOwned(s) => SlotOwned(t)
      BY <1>1, <3>1, runsOwned
    <3> QED BY <3>2, <3>3
  <2> QED BY <1>4, <1>5, <2>1 DEF Proceeding
<1>6. ASSUME NEW w, Answers(s, t, o, w), w.call = c
      PROVE  /\ SlotOwned(s) => SlotOwned(t)
             /\ ActiveOpen(s) => ActiveOpen(t)
  <2>1. ActiveOpen(s) => ActiveOpen(t)
    <3>1. s.active # None => s.active \in Calls
      BY DEF Scheduler
    <3> QED BY <1>6, <3>1 DEF Answers, Same, ActiveOpen
  <2>2. ASSUME SlotOwned(s) PROVE SlotOwned(t)
    <3>1. w.call = s.active => /\ o = [kind |-> "user", of |-> w.call]
                               /\ s.status[w.call] = "awaiting_approval"
      BY <1>1, <1>6, <2>2
    <3> QED BY <1>6, <2>2, <3>1, answersOwned
  <2> QED BY <2>1, <2>2
<1>7. /\ Waiting("editing", c, sig, None).call = c
      /\ Waiting("inlining", c, sig, None).call = c
  BY DEF Waiting
<1> QED BY <1>3, <1>4, <1>5, <1>6, <1>7 DEF Handles

LEMMA ConfirmedOwned ==
  ASSUME OwnInv, TypeOK', QueueInv', NEW o \in Owner, Confirmed(o) \/ ConfirmThrows(o)
  PROVE  OwnInv'
<1>1. sch \in Scheduler /\ sch' \in Scheduler /\ Placed(sch, Taken) /\ SlotOpen(sch)
  BY OwnFacts DEF TypeOK
<1>2. Now(o, "confirming")
  BY DEF Confirmed, ConfirmThrows
<1>3. PICK c \in Calls, sig \in Signals : c = sch.chain[o].call /\ sig = sch.chain[o].signal
  <2>1. sch.chain[o].call \in Calls /\ sch.chain[o].signal \in Signals
    BY <1>2, OwnFacts, ForACallType DEF Now, ForACall
  <2> QED BY <2>1
<1>4. CASE ConfirmThrows(o)
  <2>1. Releases(sch, sch', o)
    BY <1>1, <1>4, ReturnReturns, returnReleases DEF ConfirmThrows
  <2>2. SlotOwned(sch) =>
          ~Holds(sch, o) \/ sch.status[sch.active] \notin {"validating", "executing"}
    BY <1>2 DEF SlotOwned, Fits, Now
  <2>3. /\ SlotOwned(sch) => SlotOwned(sch')
        /\ ActiveOpen(sch) => ActiveOpen(sch')
    BY <1>1, <2>1, <2>2, releasesOwned
  <2> QED BY <2>3, OwnStep
<1>5. CASE Confirmed(o)
  <2>1. Handles(sch, sch', o, c, sch.chain[o].outcome, sig, TRUE)
    BY <1>1, <1>3, <1>5, OwnFacts, PlaceFacts, respondSteps DEF Confirmed
  <2>2. /\ SlotOwned(sch) => SlotOwned(sch')
        /\ ActiveOpen(sch) => ActiveOpen(sch')
    <3>1. sch.chain[o].at \in {"confirming", "editing", "inlining"}
      BY <1>2 DEF Now
    <3>2. PICK outcome : outcome = sch.chain[o].outcome
      OBVIOUS
    <3>3. PICK x \in Scheduler, y \in Scheduler : x = sch /\ y = sch'
      BY <1>1
    <3>4. Handles(x, y, o, c, outcome, sig, TRUE) /\ Placed(x, Taken) /\ SlotOpen(x)
      BY <1>1, <2>1, <3>2, <3>3
    <3>5. x.chain[o].call = c /\ x.chain[o].at \in {"confirming", "editing", "inlining"}
      BY <1>3, <3>1, <3>3
    <3>6. /\ SlotOwned(x) => SlotOwned(y)
          /\ ActiveOpen(x) => ActiveOpen(y)
      BY <3>4, <3>5, HandlesOwned
    <3> QED BY <3>3, <3>6
  <2> QED BY <2>2, OwnStep
<1> QED BY <1>4, <1>5

LEMMA ModificationOwned ==
  ASSUME OwnInv, TypeOK', QueueInv', NEW o \in Owner, sch.chain[o].at \in {"editing", "inlining"},
         (\E built \in BOOLEAN : Modified(o, built))
           \/ NotEdited(o) \/ NotInlined(o) \/ ModifyThrows(o)
  PROVE  OwnInv'
<1>1. sch \in Scheduler /\ sch' \in Scheduler /\ Placed(sch, Taken) /\ SlotOpen(sch)
  BY OwnFacts DEF TypeOK
<1>2. PICK c \in Calls, sig \in Signals : c = sch.chain[o].call /\ sig = sch.chain[o].signal
  <2>1. sch.chain[o].call \in Calls /\ sch.chain[o].signal \in Signals
    BY OwnFacts, ForACallType DEF ForACall
  <2> QED BY <2>1
<1>3. \/ Reopens(sch, sch', o, c, "awaiting_approval")
      \/ Reopens(sch, sch', o, c, "error") /\ "rebuild" \in MayThrow
      \/ Proceeding(sch, sch', o, c, sig)
      \/ Returns(sch, sch', o)
  BY <1>1, <1>2, OwnFacts, PlaceFacts, ModificationSteps
<1>4. SlotOwned(sch) /\ sch.active = c
        => /\ sch.status[c] = "awaiting_approval" /\ Live(sch, c)
           /\ \A p \in Owner : Holds(sch, p) => p = o
  <2>1. sch.active = c => Holds(sch, o)
    BY <1>2, SchedulerAssumption DEF Holds
  <2> QED BY <2>1, SchedulerAssumption DEF SlotOwned, Fits, Live, Terminal
<1>5. SlotOwned(sch) => ~Holds(sch, o) \/ sch.status[sch.active] \notin {"validating", "executing"}
  BY <1>2, <1>4 DEF Holds
<1>6. CASE Returns(sch, sch', o)
  <2>1. /\ SlotOwned(sch) => SlotOwned(sch')
        /\ ActiveOpen(sch) => ActiveOpen(sch')
    BY <1>1, <1>5, <1>6, returnReleases, releasesOwned
  <2> QED BY <2>1, OwnStep
<1>7. CASE Proceeding(sch, sch', o, c, sig)
  <2>1. CASE Live(sch, c)
    <3>1. Runs(sch, sch', o, c, sig) /\ c = sch.active
      BY <1>7, <2>1 DEF Proceeding, Live
    <3>2. ActiveOpen(sch')
      BY <1>1, <3>1, runsOwned
    <3>3. SlotOwned(sch) => SlotOwned(sch')
      BY <1>1, <1>4, <3>1, runsOwned
    <3> QED BY <3>2, <3>3, OwnStep
  <2> QED BY <1>6, <1>7, <2>1 DEF Proceeding
<1>8. ASSUME NEW new \in {"awaiting_approval", "error"}, Reopens(sch, sch', o, c, new),
             new = "error" => "rebuild" \in MayThrow
      PROVE  OwnInv'
  <2>1. /\ sch'.active = sch.active
        /\ \A p \in Owner : sch'.chain[p] = IF p = o THEN Returned(o) ELSE sch.chain[p]
        /\ \A d \in Calls : sch'.status[d] = IF d = c /\ Live(sch, c) THEN new ELSE sch.status[d]
    BY <1>1, <1>8 DEF Reopens, Same, Scheduler
  <2>2. Returned(o).call = None
    BY DEF Returned, Idle, Waiting
  <2>3. "rebuild" \notin MayThrow /\ ActiveOpen(sch) => ActiveOpen(sch')
    BY <1>8, <2>1, OwnFacts DEF ActiveOpen
  <2>4. CASE c # sch.active
    <3>1. Releases(sch, sch', o)
      BY <2>1, <2>2, <2>4, OwnFacts DEF Releases
    <3>2. SlotOwned(sch) => SlotOwned(sch')
      BY <1>1, <1>2, <2>4, <3>1, releasesOwned DEF Holds
    <3> QED BY <2>3, <3>2, OwnStep
  <2>5. ASSUME c = sch.active, SlotOwned(sch) PROVE SlotOwned(sch')
    <3>1. \A p \in Owner : ~Holds(sch', p)
      BY <1>4, <2>1, <2>2, <2>5 DEF Holds
    <3>2. sch'.status[sch'.active] \notin {"validating", "executing"}
      BY <1>4, <2>1, <2>5
    <3> QED BY <3>1, <3>2 DEF SlotOwned
  <2> QED BY <2>3, <2>4, <2>5, OwnStep
<1> QED BY <1>3, <1>6, <1>7, <1>8

LEMMA RespondOwned ==
  ASSUME OwnInv, TypeOK', QueueInv', NEW o \in Answerer, NEW outcome,
         UserResponds(o, outcome) \/ IdeResponds(o, outcome)
  PROVE  OwnInv'
<1>1. sch \in Scheduler /\ sch' \in Scheduler /\ Placed(sch, Taken) /\ SlotOpen(sch)
  BY OwnFacts DEF TypeOK
<1>2. Respond(o, outcome)
  BY DEF UserResponds, IdeResponds
<1>3. PICK c \in Calls, sig \in Signals : c = o.of /\ sig = sch.prompted[o.of]
  BY <1>2, OwnFacts, RespondSteps
<1>4. o \in Owner /\ sch.chain[o] = Idle
  BY <1>2, OwnFacts, RespondSteps
<1>5. ~Holds(sch, o)
  BY <1>4 DEF Holds, Idle, Waiting
<1>6. ~Ide => /\ o = [kind |-> "user", of |-> c]
              /\ outcome = "Cancel" \/ (sch.active = c /\ sch.status[c] = "awaiting_approval")
  BY <1>3 DEF UserResponds, IdeResponds, Answerer
<1>7. ASSUME sch.active = c, sch.status[c] = "awaiting_approval",
             Answers(sch, sch', o, Waiting("confirming", c, sig, outcome))
      PROVE  OwnInv'
  <2>1. PICK w : w = Waiting("confirming", c, sig, outcome)
    OBVIOUS
  <2>2. Answers(sch, sch', o, w) /\ w.call = c
    BY <1>7, <2>1 DEF Waiting
  <2>3. ~Ide /\ SlotOwned(sch) => SlotOwned(sch')
    BY <1>1, <1>4, <1>5, <1>6, <1>7, <2>2, answersOwned
  <2>4. ActiveOpen(sch) => ActiveOpen(sch')
    BY <2>2, <1>7 DEF Answers, Same, ActiveOpen
  <2> QED BY <2>3, <2>4, OwnStep
<1>8. ASSUME ~(sch.active = c /\ sch.status[c] = "awaiting_approval"),
             Handles(sch, sch', o, c, outcome, sig, FALSE)
      PROVE  OwnInv'
  <2>1. CASE Clears(sch, sch', o, sig)
    <3>1. /\ SlotOwned(sch) => SlotOwned(sch')
          /\ ActiveOpen(sch) => ActiveOpen(sch')
      BY <1>1, <1>4, <1>5, <2>1, clearsOwned
    <3> QED BY <3>1, OwnStep
  <2>2. CASE Returns(sch, sch', o)
    <3>1. /\ SlotOwned(sch) => SlotOwned(sch')
          /\ ActiveOpen(sch) => ActiveOpen(sch')
      BY <1>1, <1>4, <1>5, <2>2, returnReleases, releasesOwned
    <3> QED BY <3>1, OwnStep
  <2>3. CASE outcome # "Cancel" /\ Runs(sch, sch', o, c, sig)
    <3>1. ActiveOpen(sch')
      BY <1>1, <1>4, <2>3, runsOwned
    <3> QED BY <1>6, <1>8, <2>3, <3>1, OwnStep
  <2> QED BY <1>8, <2>1, <2>2, <2>3 DEF Handles, Proceeding
<1> QED BY <1>2, <1>3, <1>7, <1>8, OwnFacts, RespondSteps

(* A chain that waits for no call, and one that has not been started.      *)
LEMMA ReturningOwned ==
  ASSUME OwnInv, TypeOK', QueueInv', NEW o \in Owner, HandlerThrows(o) \/ Unwind(o)
  PROVE  OwnInv'
<1>1. sch \in Scheduler
  BY OwnFacts
<1>2. sch.chain[o].at \in {"finalizing", "unwinding"} /\ sch.chain[o] \in Wait
  BY <1>1 DEF HandlerThrows, Unwind, Now, Scheduler
<1>3. ~Holds(sch, o)
  BY <1>2 DEF Wait, ForACall, Holds
<1>4. Releases(sch, sch', o)
  <2>1. CASE HandlerThrows(o)
    BY <1>1, <2>1, ReturnReturns, returnReleases DEF HandlerThrows
  <2>2. CASE Unwind(o)
    <3>1. /\ sch'.active = sch.active /\ sch'.status = sch.status
          /\ \A p \in Owner : sch'.chain[p] = IF p = o THEN Idle ELSE sch.chain[p]
      BY <1>1, <2>2 DEF Unwind, Scheduler
    <3> QED BY <3>1 DEF Releases, Idle, Waiting
  <2> QED BY <2>1, <2>2
<1>5. /\ SlotOwned(sch) => SlotOwned(sch')
      /\ ActiveOpen(sch) => ActiveOpen(sch')
  BY <1>1, <1>3, <1>4, releasesOwned
<1> QED BY <1>5, OwnStep

LEMMA HandlerOwned ==
  ASSUME OwnInv, TypeOK', QueueInv', NEW o \in Owner, HandlerReturns(o)
  PROVE  OwnInv'
<1>1. sch \in Scheduler /\ sch' \in Scheduler /\ Placed(sch, Taken) /\ TypeOK /\ QueueInv
        /\ SlotOpen(sch) /\ RequestsKept
  BY OwnFacts DEF TypeOK, PlaceInv
<1>2. sch.chain[o].at = "finalizing" /\ sch.chain[o] \in Wait
  BY <1>1 DEF HandlerReturns, Now, Scheduler
<1>3. ~Holds(sch, o)
  BY <1>2 DEF Wait, ForACall, Holds
<1>4. ASSUME NEW u \in Scheduler, Resets(sch, u, o)
      PROVE  /\ SlotOwned(sch) => SlotOwned(u)
             /\ ActiveOpen(sch) => ActiveOpen(u)
             /\ \A p \in Owner : u.chain[p] = sch.chain[p] \/ u.chain[p].call = None
  <2>1. \A p \in Owner : u.chain[p] = IF p = o THEN Returned(o) ELSE sch.chain[p]
    BY <1>1, <1>4 DEF Resets, Scheduler
  <2>2. Returned(o).call = None
    BY DEF Returned, Idle, Waiting
  <2>3. Releases(sch, u, o)
    BY <1>4, <2>1, <2>2 DEF Releases, Resets
  <2> QED BY <1>1, <1>3, <2>1, <2>2, <2>3, releasesOwned
<1>5. CASE Resets(sch, sch', o)
  BY <1>1, <1>4, <1>5, OwnStep
<1>6. ASSUME NEW u \in Scheduler, NEW r \in Requests, Next1(sch, u, sch', o, r)
      PROVE  OwnInv'
  <2>1. Resets(sch, u, o)
    BY <1>6 DEF Next1
  <2>2. CASE isRunning(u)
    <3>1. Refused(u, sch')
      BY <1>6, <2>2 DEF Next1
    <3>2. sch'.active = u.active /\ sch'.status = u.status /\ sch'.chain = u.chain
      BY <3>1 DEF Refused, Scheduler
    <3>3. /\ SlotOwned(u) => SlotOwned(sch')
          /\ ActiveOpen(u) => ActiveOpen(sch')
      BY <3>2 DEF SlotOwned, ActiveOpen, Holds, Fits
    <3> QED BY <1>4, <2>1, <3>3, OwnStep
  <2>3. CASE ~isRunning(u)
    <3>1. PICK bad \in SUBSET CallSet(r) : Enters(u, sch', r, bad)
      BY <1>6, <2>3 DEF Next1
    <3>2. r \in Requests \ Entered /\ CallSet(r) \cap Taken = {}
      <4>1. r \in Range(sch.requestQueue)
        <5>1. sch.requestQueue \in Seq(Requests)
          BY <1>1 DEF Scheduler
        <5> QED BY <1>6, <5>1, HeadRemoved, <1>1 DEF Next1, RequestsKept
      <4> QED BY <1>1, <4>1, TakenCalls DEF Entered
    <3>3. Placed(u, Taken)
      BY <1>1, <2>1, resetsPlaced
    <3>4. u.chain[ScheduleChain(r)].call = None
      <4>1. ScheduleChain(r) \in Owner /\ sch.chain[ScheduleChain(r)].call = None
        BY <1>1, <3>2 DEF QueueInv, Fresh, Owner, ScheduleChain, Idle, Waiting
      <4> QED BY <1>4, <2>1, <4>1
    <3>5. /\ SlotOwned(u) => SlotOwned(sch')
          /\ ActiveOpen(u) => ActiveOpen(sch')
      BY <1>1, <3>1, <3>2, <3>3, <3>4, entersOwned
    <3> QED BY <1>4, <2>1, <3>5, OwnStep
  <2> QED BY <2>2, <2>3
<1> QED BY <1>1, <1>5, <1>6, HandlerSteps

LEMMA ClientOwned ==
  ASSUME OwnInv, TypeOK', QueueInv',
         \/ \E r \in Requests : Schedule(r)
         \/ \E sig \in Signals : Abort(sig) \/ Escape(sig)
  PROVE  OwnInv'
<1>1. sch \in Scheduler /\ sch' \in Scheduler /\ Placed(sch, Taken) /\ SlotOpen(sch)
        /\ QueueInv /\ PlaceInv /\ TypeOK
  BY OwnFacts DEF TypeOK
<1>2. ASSUME NEW r \in Requests, Schedule(r) PROVE OwnInv'
  <2>1. CASE sch' = [sch EXCEPT !.requestQueue = Append(@, r)]
    <3>1. sch'.active = sch.active /\ sch'.status = sch.status /\ sch'.chain = sch.chain
      BY <1>1, <2>1 DEF Scheduler
    <3>2. /\ SlotOwned(sch) => SlotOwned(sch')
          /\ ActiveOpen(sch) => ActiveOpen(sch')
      BY <3>1 DEF SlotOwned, ActiveOpen, Holds, Fits
    <3> QED BY <3>2, OwnStep
  <2>2. ASSUME NEW bad \in SUBSET CallSet(r), Enters(sch, sch', r, bad) PROVE OwnInv'
    <3>1. r \in Requests \ Entered /\ CallSet(r) \cap Taken = {}
      BY <1>1, <1>2, TakenCalls DEF Schedule, Entered
    <3>2. sch.chain[ScheduleChain(r)].call = None
      BY <1>1, <3>1 DEF QueueInv, Fresh, Idle, Waiting
    <3>3. /\ SlotOwned(sch) => SlotOwned(sch')
          /\ ActiveOpen(sch) => ActiveOpen(sch')
      BY <1>1, <2>2, <3>1, <3>2, entersOwned
    <3> QED BY <3>3, OwnStep
  <2> QED BY <1>1, <1>2, <2>1, <2>2, ScheduleSteps
<1>3. ASSUME NEW sig \in Signals, Abort(sig) \/ Escape(sig) PROVE OwnInv'
  <2>1. PICK u \in Scheduler : u = abort(sch, sig)
    BY <1>1, abortType
  <2>2. u.active = sch.active /\ u.status = sch.status /\ u.chain = sch.chain
    <3>1. Aborts(sch, u, sig)
      BY <1>1, <2>1, abortSteps
    <3> QED BY <3>1 DEF Aborts
  <2>3. /\ SlotOwned(sch) <=> SlotOwned(u)
        /\ ActiveOpen(sch) <=> ActiveOpen(u)
    BY <2>2 DEF SlotOwned, ActiveOpen, Holds, Fits
  <2>4. CASE Abort(sig)
    BY <2>1, <2>3, <2>4, OwnStep DEF Abort
  <2>5. CASE Escape(sig)
    <3>1. PICK o \in Owner : o = CancelChain(sig)
      BY DEF Owner, CancelChain
    <3>2. sch' = cancelAll(u, o, sig)
      BY <2>1, <2>5, <3>1 DEF Escape, CancelChain
    <3>3. Placed(u, Taken) /\ SlotOpen(u)
      BY <1>1, <2>1, abortPlaced
    <3>4. Clears(u, sch', o, sig)
      BY <3>2, <3>3, cancelAllSteps DEF Placed
    <3>5. sch.chain[o] = Idle
      BY <1>1, <2>5, <3>1 DEF Escape, QueueInv, Fresh
    <3>6. ~Holds(u, o)
      BY <2>2, <3>5 DEF Holds, Idle, Waiting
    <3>7. /\ SlotOwned(u) => SlotOwned(sch')
          /\ ActiveOpen(u) => ActiveOpen(sch')
      BY <1>1, <3>3, <3>4, <3>6, clearsOwned
    <3> QED BY <2>3, <3>7, OwnStep
  <2> QED BY <1>3, <2>4, <2>5
<1> QED BY <1>2, <1>3

LEMMA OwnInit == Init => OwnInv
<1> SUFFICES ASSUME Init PROVE OwnInv
  OBVIOUS
<1>1. QueueInv /\ sch.active = None
  BY QueueInit DEF Init
<1> QED BY <1>1 DEF OwnInv, SlotOwned, ActiveOpen, Holds

LEMMA OwnNext == OwnInv /\ [Next]_vars => OwnInv'
<1> SUFFICES ASSUME OwnInv, [Next]_vars PROVE OwnInv'
  OBVIOUS
<1>1. QueueInv /\ QueueInv' /\ TypeOK'
  BY QueueNext DEF OwnInv, QueueInv, PlaceInv
<1>2. CASE UNCHANGED vars \/ NewTurn
  <2>1. sch' = sch
    BY <1>2 DEF vars, NewTurn
  <2> QED BY <1>1, <2>1 DEF OwnInv
<1>3. ASSUME \/ \E r \in Requests : Schedule(r)
             \/ \E sig \in Signals : Abort(sig) \/ Escape(sig)
      PROVE  OwnInv'
  BY <1>1, <1>3, ClientOwned
<1>4. ASSUME NEW o \in Answerer, NEW outcome \in Outcomes,
             UserResponds(o, outcome) \/ IdeResponds(o, outcome)
      PROVE  OwnInv'
  BY <1>1, <1>4, RespondOwned
<1>5. ASSUME NEW o \in Owner, Resume(o) PROVE OwnInv'
  <2>1. CASE PolicyAllows(o) \/ PolicyDenies(o) \/ PolicyAsks(o) \/ ValidationFails(o)
    BY <1>1, <2>1, ValidationOwned
  <2>2. CASE \E result \in Terminal : Executed(o, result)
    BY <1>1, <2>2, ExecutedOwned
  <2>3. CASE HandlerReturns(o)
    BY <1>1, <2>3, HandlerOwned
  <2>4. CASE HandlerThrows(o) \/ Unwind(o)
    BY <1>1, <2>4, ReturningOwned
  <2>5. CASE Confirmed(o) \/ ConfirmThrows(o)
    BY <1>1, <2>5, ConfirmedOwned
  <2>6. CASE \/ \E built \in BOOLEAN : Modified(o, built)
             \/ NotEdited(o) \/ NotInlined(o) \/ ModifyThrows(o)
    <3>1. sch.chain[o].at \in {"editing", "inlining"}
      BY <2>6 DEF Modified, NotEdited, NotInlined, ModifyThrows, Now
    <3> QED BY <1>1, <2>6, <3>1, ModificationOwned
  <2> QED BY <1>5, <2>1, <2>2, <2>3, <2>4, <2>5, <2>6 DEF Resume
<1> QED BY <1>2, <1>3, <1>4, <1>5 DEF Next

===============================================================================
