------------------------ MODULE MCCoreToolScheduler ------------------------
(***************************************************************************)
(* Instances of CoreToolScheduler: two batches of one or two calls each,   *)
(* under one signal or under one signal per turn.                          *)
(***************************************************************************)
EXTENDS CoreToolScheduler, TLC
CONSTANTS r1, r2, c1, c2, c3

Restricted(f) == [r \in Requests |-> f[r]]

(* The calls of the requests.                                              *)
TwoThenOne == Restricted((r1 :> <<c1, c2>>) @@ (r2 :> <<c3>>))
OneThenTwo == Restricted((r1 :> <<c1>>) @@ (r2 :> <<c2, c3>>))
OneEach == Restricted((r1 :> <<c1>>) @@ (r2 :> <<c2>>))

(* Their signals.                                                          *)
OneSignal == [r \in Requests |-> 1]
OwnSignal == Restricted((r1 :> 1) @@ (r2 :> 2))

=============================================================================
