---------------------------- MODULE ToolBatches ----------------------------
(***************************************************************************)
(* What CoreToolScheduler promises its client, with everything between a   *)
(* request and its completion report left out: requests are taken in the   *)
(* order they were made, each is reported once and as a whole, with a      *)
(* final result for every call, and a report is never changed later.  A    *)
(* request that is still queued may be withdrawn by aborting its signal.   *)
(***************************************************************************)
EXTENDS Integers, Sequences, Functions

CONSTANTS Requests, CallsOf

CallsIn(r) == Range(CallsOf[r])
Results == {"success", "error", "cancelled"}

VARIABLES
  pending,    \* the requests that were made and not settled, in order
  delivered   \* the reports: each a request and the results of its calls

Init == pending = <<>> /\ delivered = <<>>

Submit(r) ==
  /\ r \notin Range(pending)
  /\ \A i \in DOMAIN delivered : delivered[i].request # r
  /\ pending' = Append(pending, r)
  /\ UNCHANGED delivered

Deliver ==
  /\ pending # <<>>
  /\ \E result \in [CallsIn(Head(pending)) -> Results] :
       delivered' = Append(delivered, [request |-> Head(pending), result |-> result])
  /\ pending' = Tail(pending)

(* A request made and delivered in one step of the scheduler: all of its   *)
(* calls failed before the first await.                                    *)
SubmitAndDeliver(r) ==
  /\ pending = <<>>
  /\ \A i \in DOMAIN delivered : delivered[i].request # r
  /\ \E result \in [CallsIn(r) -> Results] :
       delivered' = Append(delivered, [request |-> r, result |-> result])
  /\ UNCHANGED pending

Withdraw(r) ==
  /\ \E i \in DOMAIN pending :
       /\ pending[i] = r
       /\ pending' = SubSeq(pending, 1, i - 1) \o SubSeq(pending, i + 1, Len(pending))
  /\ UNCHANGED delivered

Next ==
  \/ \E r \in Requests : Submit(r) \/ SubmitAndDeliver(r) \/ Withdraw(r)
  \/ Deliver

Spec == Init /\ [][Next]_<<pending, delivered>>
FairSpec == Spec /\ WF_<<pending, delivered>>(Deliver)

=============================================================================
