------------------------- MODULE ModelFallbackProofs -------------------------
(***************************************************************************)
(* Theorems about ModelFallback, for every chain of models, every policy   *)
(* table and every bound.                                                  *)
(***************************************************************************)
EXTENDS ModelFallback, SequenceLemmas, SequenceTheorems, TLAPS

(* A request that has chosen a model asks for one, and one that got as far *)
(* as calling a model has one; the dialog is the one its request waits     *)
(* for, and would mark the model it names or none.                         *)
Placed ==
  \A c \in Callers :
    /\ req[c].at = "selected" => req[c].requested # None
    /\ req[c].at \in {"calling", "waiting", "asking", "streaming"}
         => req[c].requested # None /\ req[c].model # None

DialogFits == dialog # None => dialog.policy \in {None, dialog.failed}

IInv == TypeOK /\ NoDialogLost /\ Placed /\ DialogFits

------------------------------------------------------------------------------
(* Facts about the operators.                                              *)

(* The result of a selection is a model of the chain.                      *)
LEMMA FirstAvailableType ==
  ASSUME NEW h, NEW chain \in Seq(Models), chain # <<>>
  PROVE  FirstAvailable(h, chain) \in Models
<1> DEFINE open == {i \in DOMAIN chain : Available(h, chain[i])}
<1>1. CASE open = {}
  BY <1>1 DEF FirstAvailable
<1>2. CASE open # {}
  <2>1. open \in SUBSET Nat
    OBVIOUS
  <2>2. \E i \in open : \A j \in open : i <= j
    <3> HIDE DEF open
    <3> QED BY <1>2, <2>1, LeastElement
  <2>3. PICK i \in open : FirstAvailable(h, chain) = chain[i]
    BY <1>2, <2>2 DEF FirstAvailable
  <2> QED BY <2>3
<1> QED BY <1>1, <1>2

LEMMA IndexInType ==
  ASSUME NEW chain \in Seq(Models), NEW m \in Range(chain)
  PROVE  IndexIn(chain, m) \in 1..Len(chain) /\ chain[IndexIn(chain, m)] = m
<1>1. \E i \in DOMAIN chain : chain[i] = m
  BY DEF Range
<1> QED BY <1>1 DEF IndexIn

LEMMA AfterType ==
  ASSUME NEW chain \in Seq(Models), NEW i \in 1..(Len(chain) + 1)
  PROVE  /\ After(chain, i) \in Seq(Models)
         /\ i <= Len(chain) => After(chain, i) # <<>>
<1> DEFINE rest == SubSeq(chain, i, Len(chain))
<1>1. /\ rest \in Seq(Models)
      /\ Len(rest) = IF i <= Len(chain) THEN Len(chain) - i + 1 ELSE 0
  BY SubSeqProperties
<1>2. i <= Len(chain) => Len(rest) # 0
  <2> HIDE DEF rest
  <2> QED BY <1>1
<1>3. i <= Len(chain) => rest # <<>>
  <2> HIDE DEF rest
  <2> QED BY <1>1, <1>2
<1> QED BY <1>1, <1>3 DEF After

LEMMA resolveModelType ==
  ASSUME NEW m \in Models \cup {AutoModel}
  PROVE  resolveModel(m) \in Models
  BY FallbackAssumption DEF resolveModel, Models, Range

LEMMA resolvePolicyChainType ==
  ASSUME NEW g, NEW m \in Models \cup {AutoModel}
  PROVE  /\ resolvePolicyChain(g, m) \in Seq(Models)
         /\ resolvePolicyChain(g, m) # <<>>
<1> DEFINE r == resolveModel(m)
<1>1. r \in Models
  BY resolveModelType
<1>2. CASE g.model = AutoModel /\ r \in Range(Chain)
  <2>1. IndexIn(Chain, r) \in 1..Len(Chain)
    BY <1>2, FallbackAssumption, IndexInType
  <2>2. resolvePolicyChain(g, m) = After(Chain, IndexIn(Chain, r))
    BY <1>2 DEF resolvePolicyChain
  <2>3. /\ After(Chain, IndexIn(Chain, r)) \in Seq(Models)
        /\ After(Chain, IndexIn(Chain, r)) # <<>>
    BY <2>1, FallbackAssumption, AfterType
  <2> QED BY <2>2, <2>3
<1>3. CASE ~(g.model = AutoModel /\ r \in Range(Chain))
  <2>1. resolvePolicyChain(g, m) = <<r>>
    BY <1>3 DEF resolvePolicyChain
  <2> QED BY <1>1, <2>1
<1> QED BY <1>2, <1>3

LEMMA SelectionType ==
  ASSUME NEW g, NEW m \in Models \cup {AutoModel}
  PROVE  selectModelForAvailability(g, m) \in Models
  BY resolvePolicyChainType, FirstAvailableType DEF selectModelForAvailability

(* A model that the user chose is selected, whatever its health is.        *)
LEMMA SelectsChosen ==
  ASSUME NEW g, NEW m \in Models, g.model # AutoModel
  PROVE  selectModelForAvailability(g, m) = m
<1>1. resolvePolicyChain(g, m) = <<m>>
  BY FallbackAssumption DEF resolvePolicyChain, resolveModel
<1> DEFINE open == {i \in DOMAIN <<m>> : Available(g.health, <<m>>[i])}
<1>2. FirstAvailable(g.health, <<m>>) = m
  <2>1. CASE open = {}
    BY <2>1 DEF FirstAvailable
  <2>2. CASE open # {}
    <3>1. open = {1}
      BY <2>2
    <3>2. (CHOOSE i \in open : \A j \in open : i <= j) = 1
      BY <3>1
    <3> QED BY <2>2, <3>2 DEF FirstAvailable
  <2> QED BY <2>1, <2>2
<1> QED BY <1>1, <1>2 DEF selectModelForAvailability

(* Applying a selection, resetting a turn and setting a model give a       *)
(* configuration again and make no model unavailable for good.             *)
LEMMA applyModelSelectionType ==
  ASSUME NEW g \in Shared, NEW m \in Models \cup {AutoModel}
  PROVE  applyModelSelection(g, m) \in Shared
  BY SelectionType DEF applyModelSelection, consumeStickyAttempt, Shared, Health

LEMMA setModelType ==
  ASSUME NEW g \in Shared, NEW m \in Models \cup {AutoModel}
  PROVE  setModel(g, m) \in Shared
  BY DEF setModel, reset, Shared, Health

LEMMA TransitionType ==
  ASSUME NEW g \in Shared, NEW p \in Models \cup {None}, NEW kind \in FailureKind
  PROVE  applyAvailabilityTransition(g, p, kind) \in Shared
  BY DEF applyAvailabilityTransition, markTerminal, markRetryOncePerTurn, Shared, Health

LEMMA FallbackDialogType ==
  ASSUME NEW c \in Callers, NEW kind \in FailureKind, cfg \in Shared, req \in [Callers -> Request],
         req[c].model # None
  PROVE  /\ FallbackDialog(c, kind) \in Dialog
         /\ FallbackDialog(c, kind).by = c
         /\ FallbackDialog(c, kind).policy \in {None, FallbackDialog(c, kind).failed}
<1> DEFINE failed == req[c].model
           chain == resolvePolicyChain(cfg, cfg.active)
           known == failed \in Range(chain)
           candidates == IF known THEN After(chain, IndexIn(chain, failed) + 1) ELSE chain
           fallback == IF candidates = <<>> THEN failed ELSE FirstAvailable(cfg.health, candidates)
<1>1. failed \in Models \cup {AutoModel}
  BY DEF Request
<1>2. chain \in Seq(Models) /\ chain # <<>>
  BY resolvePolicyChainType DEF Shared
<1>3. known => failed \in Models
  <2> HIDE DEF chain, failed
  <2> QED BY <1>2 DEF Range
<1>4. candidates \in Seq(Models) /\ (~known => candidates # <<>>)
  <2> HIDE DEF chain, failed
  <2>1. CASE known
    <3>1. IndexIn(chain, failed) \in 1..Len(chain) /\ Len(chain) \in Nat
      BY <1>2, <2>1, IndexInType
    <3>2. IndexIn(chain, failed) + 1 \in 1..(Len(chain) + 1)
      BY <3>1
    <3>3. After(chain, IndexIn(chain, failed) + 1) \in Seq(Models)
      BY <1>2, <3>2, AfterType
    <3> QED BY <2>1, <3>3
  <2>2. CASE ~known
    BY <1>2, <2>2
  <2> QED BY <2>1, <2>2
<1>5. fallback \in Models
  <2> HIDE DEF candidates, failed, known
  <2> QED BY <1>3, <1>4, FirstAvailableType
<1>6. FallbackDialog(c, kind)
        = [by |-> c, failed |-> failed, kind |-> kind, fallback |-> fallback,
           policy |-> IF known THEN failed ELSE None]
  BY DEF FallbackDialog
<1> HIDE DEF failed, known, fallback
<1> QED BY <1>1, <1>3, <1>5, <1>6 DEF Dialog

------------------------------------------------------------------------------
(* Every action preserves the invariant.                                   *)

InCall == {"calling", "waiting", "asking", "streaming"}

(* A step of a request that is not and does not become a wait for the      *)
(* dialog.                                                                 *)
LEMMA Move ==
  ASSUME IInv, NEW c \in Callers, NEW r \in Request,
         req' = [req EXCEPT ![c] = r], req[c].at # "asking", r.at # "asking",
         r.at = "selected" => r.requested # None,
         r.at \in InCall => r.requested # None /\ r.model # None,
         cfg' \in Shared, dialog' = dialog, left' = left, used' \in [Bounded -> Nat]
  PROVE  IInv'
<1> USE DEF IInv
<1>1. TypeOK'
  BY DEF TypeOK
<1>2. NoDialogLost'
  BY DEF NoDialogLost, TypeOK
<1>3. Placed'
  BY DEF Placed, TypeOK, InCall
<1>4. DialogFits'
  BY DEF DialogFits
<1> QED BY <1>1, <1>2, <1>3, <1>4

LEMMA NoRequestType == NoRequest \in Request /\ NoRequest.at = "idle"
  BY FallbackAssumption DEF NoRequest, Request, Place

LEMMA CalledType ==
  ASSUME NEW r \in Request, NEW m \in Models, NEW final \in Models, NEW n \in Nat
  PROVE  /\ Called(r, m, final, n) \in Request
         /\ Called(r, m, final, n).at = "calling"
         /\ Called(r, m, final, n).requested # None /\ Called(r, m, final, n).model # None
  BY FallbackAssumption DEF Called, Request, Place

LEMMA BeginInv ==
  ASSUME IInv, NEW c \in Callers, NEW m \in Models, Begin(c, m), req[c].at # "asking",
         dialog' = dialog, left' = left, used' \in [Bounded -> Nat]
  PROVE  IInv'
<1> DEFINE final == selectModelForAvailability(cfg, m)
           r == Called(req[c], m, final, attemptsFor(cfg, m))
<1>1. final \in Models /\ attemptsFor(cfg, m) \in Nat
  BY SelectionType, FallbackAssumption DEF attemptsFor
<1>2. applyModelSelection(cfg, m) \in Shared
  BY applyModelSelectionType DEF IInv, TypeOK
<1>3. cfg' \in Shared
  BY <1>2 DEF Begin
<1>4. r \in Request /\ r.at = "calling" /\ r.requested # None /\ r.model # None
  BY <1>1, CalledType DEF IInv, TypeOK
<1>5. req' = [req EXCEPT ![c] = r]
  BY DEF Begin
<1> HIDE DEF r
<1> QED BY <1>3, <1>4, <1>5, Move

LEMMA SelectInv ==
  ASSUME IInv, NEW m \in Models, Select(m), req["chat"].at # "asking",
         dialog' = dialog, left' = left, used' = used
  PROVE  IInv'
<1> DEFINE final == selectModelForAvailability(cfg, m)
           r == [req["chat"] EXCEPT !.at = "selected", !.requested = m]
<1>1. cfg \in Shared /\ req["chat"] \in Request /\ used \in [Bounded -> Nat]
  BY DEF IInv, TypeOK, Callers
<1>2. final \in Models
  BY SelectionType
<1>3. cfg' \in Shared
  <2>1. cfg' = [cfg EXCEPT !.active = final, !.sequence = final]
    BY DEF Select
  <2> HIDE DEF final
  <2> QED BY <1>1, <1>2, <2>1 DEF Shared
<1>4. r \in Request /\ r.at = "selected" /\ r.requested # None
  BY <1>1, FallbackAssumption DEF Request, Place
<1>5. req' = [req EXCEPT !["chat"] = r]
  BY DEF Select
<1> HIDE DEF r
<1> QED BY <1>1, <1>3, <1>4, <1>5, Move DEF Callers, InCall

LEMMA EndInv ==
  ASSUME IInv, NEW c \in Callers, End(c), req[c].at # "asking",
         cfg' \in Shared, dialog' = dialog, left' = left, used' \in [Bounded -> Nat]
  PROVE  IInv'
<1>1. req' = [req EXCEPT ![c] = NoRequest]
  BY DEF End
<1> QED BY <1>1, NoRequestType, Move DEF InCall

(* A request goes to another place with the models it has.                 *)
LEMMA PlaceInv ==
  ASSUME IInv, NEW c \in Callers, NEW at \in Place, req' = [req EXCEPT ![c].at = at],
         req[c].at # "asking", at \notin {"asking", "selected"}, at \in InCall => req[c].at \in InCall,
         cfg' \in Shared, dialog' = dialog, left' = left, used' \in [Bounded -> Nat]
  PROVE  IInv'
<1> DEFINE r == [req[c] EXCEPT !.at = at]
<1>1. req[c] \in Request
  BY DEF IInv, TypeOK
<1>2. /\ r \in Request /\ r.at = at
      /\ r.requested = req[c].requested /\ r.model = req[c].model
  BY <1>1 DEF Request
<1>3. req' = [req EXCEPT ![c] = r]
  OBVIOUS
<1>4. r.at \in InCall => r.requested # None /\ r.model # None
  BY <1>2 DEF IInv, Placed, InCall
<1> HIDE DEF r
<1> QED BY <1>2, <1>3, <1>4, Move

LEMMA handleFallbackInv ==
  ASSUME IInv, NEW c \in Callers, NEW kind \in FailureKind, req[c].at = "calling",
         handleFallback(c, kind), cfg' = cfg, left' = left, used' = used
  PROVE  IInv'
<1>1. CASE dialog # None /\ End(c) /\ dialog' = dialog
  BY <1>1, EndInv DEF IInv, TypeOK
<1>2. CASE /\ dialog = None /\ dialog' = FallbackDialog(c, kind)
           /\ req' = [req EXCEPT ![c].at = "asking"]
  <2>1. req[c].requested # None /\ req[c].model # None
    BY DEF IInv, Placed
  <2>2. /\ dialog' \in Dialog /\ dialog'.by = c
        /\ dialog'.policy \in {None, dialog'.failed}
    BY <1>2, <2>1, FallbackDialogType DEF IInv, TypeOK
  <2>3. dialog' # None
    BY <2>2, NoneIsNoDialog
  <2>4. req' \in [Callers -> Request] /\ TypeOK'
    BY <1>2, <2>2 DEF IInv, TypeOK, Request, Place
  <2>5. NoDialogLost'
    BY <1>2, <2>2, <2>3 DEF IInv, NoDialogLost, TypeOK, Request
  <2>6. Placed'
    BY <1>2, <2>1 DEF IInv, Placed, TypeOK, Request
  <2>7. DialogFits'
    BY <2>2 DEF DialogFits
  <2> QED BY <2>4, <2>5, <2>6, <2>7 DEF IInv
<1> QED BY <1>1, <1>2 DEF handleFallback

LEMMA AbortInv ==
  ASSUME IInv, NEW c \in Callers, Abort(c)
  PROVE  IInv'
<1>1. CASE req[c].at # "asking"
  BY <1>1, EndInv DEF Abort, IInv, TypeOK
<1>2. CASE req[c].at = "asking"
  <2>1. req' = [req EXCEPT ![c].aborted = TRUE]
    BY <1>2 DEF Abort
  <2>2. TypeOK'
    BY ZenonT(30), <2>1 DEF Abort, IInv, TypeOK, Request
  <2>3. \A d \in Callers : /\ req'[d].at = req[d].at /\ req'[d].model = req[d].model
                            /\ req'[d].requested = req[d].requested
    BY <2>1 DEF IInv, TypeOK, Request
  <2>4. NoDialogLost' /\ Placed' /\ DialogFits'
    BY <2>3 DEF Abort, IInv, NoDialogLost, Placed, DialogFits
  <2> QED BY <2>2, <2>4 DEF IInv
<1> QED BY <1>1, <1>2

(* The model of the next attempt.                                          *)
LEMMA NextModelType ==
  ASSUME NEW c \in Callers, NEW g \in Shared, NEW r \in Request, r.model # None
  PROVE  NextModel(c, g, r) \in Models \cup {AutoModel} /\ NextModel(c, g, r) # None
<1>1. NextModel(c, g, r) \in Models \cup {AutoModel}
  BY resolveModelType DEF NextModel, Shared, Request
<1> QED BY <1>1, FallbackAssumption

LEMMA RetryInv ==
  ASSUME IInv, NEW c \in Callers, Retry(c)
  PROVE  IInv'
<1> DEFINE n == req[c].attempt + 1
           r == [req[c] EXCEPT !.at = "calling", !.model = NextModel(c, cfg, req[c]),
                               !.attempt = n]
<1>1. req[c] \in Request /\ cfg \in Shared
  BY DEF IInv, TypeOK
<1>2. req[c].at = "waiting" /\ req[c].requested # None /\ req[c].model # None
  BY DEF Retry, IInv, Placed
<1>3. NextModel(c, cfg, req[c]) \in Models \cup {AutoModel} /\ NextModel(c, cfg, req[c]) # None
  BY <1>1, <1>2, NextModelType
<1>4. n \in Nat
  BY <1>1 DEF Request
<1>5. /\ r \in Request /\ r.at = "calling" /\ r.requested # None /\ r.model # None
  BY <1>1, <1>2, <1>3, <1>4 DEF Request, Place
<1>6. req' = [req EXCEPT ![c] = r]
  BY DEF Retry, NextAttempt
<1>7. cfg' \in Shared /\ dialog' = dialog /\ left' = left /\ used' \in [Bounded -> Nat]
  BY DEF Retry, IInv, TypeOK
<1> HIDE DEF r
<1> QED BY <1>2, <1>5, <1>6, <1>7, Move

LEMMA configAfterType ==
  ASSUME IInv, dialog # None, NEW choice
  PROVE  configAfter(choice) \in Shared
<1>1. dialog \in Dialog /\ cfg \in Shared
  BY DEF IInv, TypeOK
<1>2. /\ dialog.fallback \in Models /\ dialog.policy \in Models \cup {None}
      /\ dialog.kind \in FailureKind
  BY <1>1 DEF Dialog
<1>3. applyAvailabilityTransition(cfg, dialog.policy, dialog.kind) \in Shared
  BY <1>1, <1>2, TransitionType
<1>4. setModel(cfg, dialog.fallback) \in Shared
  BY <1>1, <1>2, setModelType
<1>5. applyAvailabilityTransition(setModel(cfg, dialog.fallback), dialog.policy, dialog.kind)
        \in Shared
  BY <1>2, <1>4, TransitionType
<1> QED BY <1>1, <1>2, <1>3, <1>5 DEF configAfter, Shared

LEMMA ChooseInv ==
  ASSUME IInv, NEW choice, Choose(choice)
  PROVE  IInv'
<1> DEFINE c == dialog.by
           g == configAfter(choice)
<1>1. /\ dialog \in Dialog /\ dialog # None /\ c \in Callers
      /\ dialog.failed \in Models \cup {AutoModel} /\ dialog.fallback \in Models
  BY DEF Choose, IInv, TypeOK, Dialog
<1>2. /\ req[c] \in Request /\ req[c].at = "asking"
      /\ req[c].requested # None /\ req[c].model # None
  BY <1>1 DEF IInv, TypeOK, NoDialogLost, Placed
<1>3. g \in Shared /\ cfg' = g /\ dialog' = None
  BY <1>1, configAfterType DEF Choose
<1>4. PICK r \in Request : /\ req' = [req EXCEPT ![c] = r] /\ r.at \in {"idle", "calling"}
                           /\ r.at = "calling" => r.requested # None /\ r.model # None
  <2>1. CASE End(c)
    BY <2>1, NoRequestType DEF End
  <2>2. CASE NextAttempt(c, g, 1)
    <3> DEFINE r == [req[c] EXCEPT !.at = "calling", !.model = NextModel(c, g, req[c]),
                                   !.attempt = 1]
    <3>1. NextModel(c, g, req[c]) \in Models \cup {AutoModel} /\ NextModel(c, g, req[c]) # None
      <4> HIDE DEF c, g
      <4> QED BY <1>1, <1>2, <1>3, NextModelType
    <3>2. r \in Request /\ r.at = "calling" /\ r.requested # None /\ r.model # None
      <4> HIDE DEF c, g
      <4> QED BY <1>2, <3>1 DEF Request, Place
    <3>3. req' = [req EXCEPT ![c] = r]
      BY <2>2 DEF NextAttempt
    <3> HIDE DEF r
    <3> QED BY <3>2, <3>3
  <2> QED BY <2>1, <2>2 DEF Choose
<1>5. used' \in [Bounded -> Nat] /\ left' \subseteq Models \cup {AutoModel}
  BY <1>1 DEF Choose, IInv, TypeOK, Bounded
<1>6. TypeOK'
  BY <1>1, <1>3, <1>4, <1>5 DEF IInv, TypeOK
<1>7. NoDialogLost'
  BY <1>1, <1>3, <1>4 DEF IInv, NoDialogLost, TypeOK
<1>8. Placed'
  BY <1>1, <1>4 DEF IInv, Placed, TypeOK
<1>9. DialogFits'
  BY <1>3 DEF DialogFits
<1> QED BY <1>6, <1>7, <1>8, <1>9 DEF IInv

LEMMA SetModelInv ==
  ASSUME IInv, NEW m \in Models \cup {AutoModel}, SetModel(m)
  PROVE  IInv'
<1>1. cfg' \in Shared
  BY setModelType DEF SetModel, IInv, TypeOK
<1>2. TypeOK'
  BY <1>1 DEF SetModel, IInv, TypeOK, Bounded
<1>3. NoDialogLost' /\ Placed' /\ DialogFits'
  BY DEF SetModel, IInv, NoDialogLost, Placed, DialogFits
<1> QED BY <1>2, <1>3 DEF IInv

LEMMA SendInv ==
  ASSUME IInv, NEW newPrompt \in BOOLEAN, NEW invalidStream \in BOOLEAN,
         Send(newPrompt, invalidStream)
  PROVE  IInv'
<1>1. cfg' \in Shared
  BY DEF Send, IInv, TypeOK, Shared, resetTurn, Health
<1>2. used' \in [Bounded -> Nat]
  BY DEF Send, IInv, TypeOK, Bounded
<1> QED BY <1>1, <1>2, PlaceInv DEF Send, Callers, Place, InCall

LEMMA RouteInv ==
  ASSUME IInv, Route
  PROVE  IInv'
<1> USE DEF Callers
<1>1. cfg \in Shared /\ used \in [Bounded -> Nat]
  BY DEF IInv, TypeOK
<1>2. CASE RouteSame
  <2>1. cfg.sequence \in Models
    BY <1>1, <1>2 DEF RouteSame, Shared
  <2> QED BY <1>1, <1>2, <2>1, SelectInv DEF RouteSame
<1>3. CASE RouteFixed
  <2>1. cfg.model \in Models \cup {AutoModel}
    BY <1>1 DEF Shared
  <2>2. selectModelForAvailability(cfg, cfg.model) \in Models
    BY <2>1, SelectionType
  <2> QED BY <1>1, <1>3, <2>1, <2>2, SelectInv DEF RouteFixed
<1>4. CASE RouteClassify
  BY <1>1, <1>4, PlaceInv DEF RouteClassify, Place, InCall
<1>5. CASE Classified
  BY <1>1, <1>5, SelectInv DEF Classified, Models
<1>6. CASE Start
  <2>1. req["chat"].requested \in Models
    BY <1>6 DEF Start, IInv, TypeOK, Placed, Request
  <2> QED BY <1>1, <1>6, <2>1, BeginInv DEF Start
<1> QED BY <1>2, <1>3, <1>4, <1>5, <1>6 DEF Route

LEMMA AskInv ==
  ASSUME IInv, Ask
  PROVE  IInv'
<1>1. used' \in [Bounded -> Nat]
  BY DEF Ask, IInv, TypeOK, Bounded
<1> QED BY <1>1, BeginInv DEF Ask, Callers, Models

LEMMA RespondsInv ==
  ASSUME IInv, NEW c \in Callers, Responds(c)
  PROVE  IInv'
<1>1. cfg \in Shared /\ req[c] \in Request /\ used \in [Bounded -> Nat]
  BY DEF IInv, TypeOK
<1>2. CASE Succeeds(c)
  <2>1. cfg' \in Shared
    <3>1. req[c].model = AutoModel \/ req[c].model \in Models
      BY <1>1, <1>2 DEF Succeeds, IInv, Placed, Request
    <3> QED BY <1>1, <1>2, <3>1 DEF Succeeds, markHealthy, Shared, Health
  <2>2. CASE c = "chat"
    BY <1>1, <1>2, <2>1, <2>2, PlaceInv DEF Succeeds, Place, InCall
  <2>3. CASE c # "chat"
    BY <1>1, <1>2, <2>1, <2>3, EndInv DEF Succeeds
  <2> QED BY <2>2, <2>3
<1>3. CASE FailsForGood(c)
  BY <1>3, handleFallbackInv DEF FailsForGood, FailureKind
<1>4. CASE Overloaded(c)
  <2>1. CASE req[c].attempt < req[c].max /\ req' = [req EXCEPT ![c].at = "waiting"]
             /\ dialog' = dialog
    BY <1>1, <1>4, <2>1, PlaceInv DEF Overloaded, Place, InCall
  <2>2. CASE handleFallback(c, "transient")
    BY <1>4, <2>2, handleFallbackInv DEF Overloaded, FailureKind
  <2> QED BY <1>4, <2>1, <2>2 DEF Overloaded
<1>5. CASE FailsOtherwise(c)
  <2>1. CASE End(c)
    BY <1>1, <1>5, <2>1, EndInv DEF FailsOtherwise
  <2>2. CASE req' = [req EXCEPT ![c].at = "waiting"]
    BY <1>1, <1>5, <2>2, PlaceInv DEF FailsOtherwise, Place, InCall
  <2> QED BY <1>5, <2>1, <2>2 DEF FailsOtherwise
<1> QED BY <1>2, <1>3, <1>4, <1>5 DEF Responds

LEMMA StreamInv ==
  ASSUME IInv, Streamed \/ StreamBroke
  PROVE  IInv'
<1> USE DEF Callers
<1>1. cfg \in Shared /\ req["chat"] \in Request /\ used \in [Bounded -> Nat]
  BY DEF IInv, TypeOK
<1>2. CASE Streamed
  BY <1>1, <1>2, EndInv DEF Streamed
<1>3. CASE StreamBroke
  <2> DEFINE m == req["chat"].requested
             called == Called(req["chat"], m, selectModelForAvailability(cfg, m),
                              attemptsFor(cfg, m))
             r == [called EXCEPT !.restarted = TRUE]
  <2>1. m \in Models
    BY <1>1, <1>3 DEF StreamBroke, IInv, Placed, Request
  <2>2. selectModelForAvailability(cfg, m) \in Models /\ attemptsFor(cfg, m) \in Nat
    BY <2>1, SelectionType, FallbackAssumption DEF attemptsFor
  <2>3. /\ called \in Request /\ called.at = "calling"
        /\ called.requested # None /\ called.model # None
    <3> HIDE DEF m
    <3> QED BY <1>1, <2>1, <2>2, CalledType
  <2>4. r \in Request /\ r.at = "calling" /\ r.requested # None /\ r.model # None
    <3> HIDE DEF called
    <3> QED BY <2>3 DEF Request
  <2>5. cfg' \in Shared
    BY <1>1, <1>3, <2>1, applyModelSelectionType DEF StreamBroke
  <2>6. req' = [req EXCEPT !["chat"] = r]
    BY <1>3 DEF StreamBroke
  <2>7. req["chat"].at = "streaming" /\ dialog' = dialog /\ left' = left /\ used' = used
    BY <1>3 DEF StreamBroke
  <2> HIDE DEF r
  <2> QED BY <1>1, <2>4, <2>5, <2>6, <2>7, Move
<1> QED BY <1>2, <1>3

LEMMA IInvInit == Init => IInv
<1> SUFFICES ASSUME Init PROVE IInv
  OBVIOUS
<1>1. TypeOK
  BY NoRequestType DEF Init, TypeOK, Shared, Health
<1>2. \A c \in Callers : req[c].at = "idle"
  BY NoRequestType DEF Init
<1>3. NoDialogLost /\ Placed /\ DialogFits
  BY <1>2 DEF Init, NoDialogLost, Placed, DialogFits
<1> QED BY <1>1, <1>3 DEF IInv

LEMMA IInvNext == IInv /\ [Next]_vars => IInv'
<1> SUFFICES ASSUME IInv, [Next]_vars PROVE IInv'
  OBVIOUS
<1>1. CASE UNCHANGED vars
  BY <1>1 DEF vars, IInv, TypeOK, NoDialogLost, Placed, DialogFits
<1>2. CASE Next
  BY <1>2, SendInv, RouteInv, AskInv, RespondsInv, RetryInv, AbortInv, StreamInv,
     ChooseInv, SetModelInv DEF Next
<1> QED BY <1>1, <1>2

THEOREM Invariant == Spec => []IInv
  BY IInvInit, IInvNext, PTL DEF Spec

(* The variables keep their types.                                         *)
THEOREM FallbackTypeCorrect == Spec => []TypeOK
<1>1. IInv => TypeOK
  BY DEF IInv
<1> QED BY <1>1, Invariant, PTL

(* A request that waits for the user always has the dialog: the dialog of  *)
(* one request is never replaced by the failure of another.                *)
THEOREM DialogIsKept == Spec => []NoDialogLost
<1>1. IInv => NoDialogLost
  BY DEF IInv
<1> QED BY <1>1, Invariant, PTL

------------------------------------------------------------------------------
(* Which steps make a model unavailable.                                   *)

NewlyTerminal(g, h) == {m \in Models : g.health[m] # "terminal" /\ h.health[m] = "terminal"}

(* Selecting a model or finding it healthy marks nothing.                  *)
LEMMA SelectionMarksNothing ==
  ASSUME NEW g \in Shared, NEW m \in Models \cup {AutoModel}
  PROVE  NewlyTerminal(g, applyModelSelection(g, m)) = {}
  BY DEF NewlyTerminal, applyModelSelection, consumeStickyAttempt, Shared

LEMMA BeginMarksNothing ==
  ASSUME cfg \in Shared, NEW c \in Callers, NEW m \in Models \cup {AutoModel},
         Begin(c, m) \/ Select(m)
  PROVE  NewlyTerminal(cfg, cfg') = {}
<1>1. CASE Begin(c, m)
  BY <1>1, SelectionMarksNothing DEF Begin
<1>2. CASE Select(m)
  <2>1. cfg'.health = cfg.health
    BY <1>2 DEF Select, Shared
  <2> QED BY <2>1 DEF NewlyTerminal
<1> QED BY <1>1, <1>2

(* The choice of the user marks at most the policy of the dialog.          *)
LEMMA ChoiceMarks ==
  ASSUME IInv, dialog # None, NEW choice
  PROVE  NewlyTerminal(cfg, configAfter(choice)) \subseteq {dialog.policy}
<1>1. cfg \in Shared /\ dialog \in Dialog
  BY DEF IInv, TypeOK
<1>2. /\ dialog.fallback \in Models /\ dialog.policy \in Models \cup {None}
      /\ dialog.kind \in FailureKind
  BY <1>1 DEF Dialog
<1>3. ASSUME NEW g \in Shared, \A m \in Models : g.health[m] = "terminal" => cfg.health[m] = "terminal"
      PROVE  NewlyTerminal(cfg, applyAvailabilityTransition(g, dialog.policy, dialog.kind))
               \subseteq {dialog.policy}
  BY <1>2, <1>3 DEF NewlyTerminal, applyAvailabilityTransition, markTerminal,
     markRetryOncePerTurn, Shared
<1>4. CASE choice = "stop"
  BY <1>4 DEF configAfter, NewlyTerminal
<1>5. CASE choice = "retry_once"
  BY <1>1, <1>3, <1>5 DEF configAfter
<1>6. CASE choice # "stop" /\ choice # "retry_once"
  <2> DEFINE g == setModel(cfg, dialog.fallback)
             h == applyAvailabilityTransition(g, dialog.policy, dialog.kind)
  <2>1. g \in Shared /\ \A m \in Models : g.health[m] # "terminal"
    <3>1. g \in Shared
      BY <1>1, <1>2, setModelType
    <3> QED BY <1>1, <3>1 DEF setModel, reset, Shared
  <2>2. NewlyTerminal(cfg, h) \subseteq {dialog.policy}
    <3> HIDE DEF g
    <3> QED BY <1>3, <2>1
  <2>3. h \in Shared
    <3> HIDE DEF g
    <3> QED BY <1>2, <2>1, TransitionType
  <2>4. configAfter(choice).health = h.health
    <3>1. configAfter(choice) = [h EXCEPT !.active = dialog.fallback]
      BY <1>6 DEF configAfter
    <3> HIDE DEF h
    <3> QED BY <2>3, <3>1 DEF Shared
  <2> QED BY <2>2, <2>4 DEF NewlyTerminal
<1> QED BY <1>4, <1>5, <1>6

LEMMA OnlyChoicesMark ==
  ASSUME IInv, [Next]_vars, NEW m \in NewlyTerminal(cfg, cfg')
  PROVE  dialog # None /\ dialog' = None /\ dialog.failed = m
<1>1. cfg \in Shared /\ m \in Models /\ cfg.health[m] # "terminal" /\ cfg'.health[m] = "terminal"
  BY DEF IInv, TypeOK, NewlyTerminal
<1> USE DEF Callers
<1>2. CASE UNCHANGED vars
  BY <1>1, <1>2 DEF vars
<1>3. ASSUME NEW a \in BOOLEAN, NEW b \in BOOLEAN, Send(a, b) PROVE FALSE
  BY <1>1, <1>3 DEF Send, resetTurn, Shared
<1>4. CASE Route
  <2>1. cfg.model \in Models \cup {AutoModel} /\ cfg.sequence \in Models \cup {None}
    BY <1>1 DEF Shared
  <2>2. selectModelForAvailability(cfg, cfg.model) \in Models
    BY <2>1, SelectionType
  <2>3. \A x \in Models \cup {AutoModel} : ~Begin("chat", x) /\ ~Select(x)
    BY <1>1, BeginMarksNothing DEF NewlyTerminal
  <2>4. CASE Start
    <3>1. req["chat"].requested \in Models
      BY <2>4 DEF Start, IInv, TypeOK, Placed, Request
    <3> QED BY <2>3, <2>4, <3>1 DEF Start
  <2> QED BY <1>1, <1>4, <2>1, <2>2, <2>3, <2>4
         DEF Route, RouteSame, RouteFixed, RouteClassify, Classified, Models
<1>5. CASE Ask
  BY <1>1, <1>5, BeginMarksNothing DEF Ask, Models
<1>6. ASSUME NEW c \in Callers, Responds(c) \/ Retry(c) \/ Abort(c) PROVE FALSE
  <2>1. cfg' = cfg \/ cfg' = [cfg EXCEPT !.health = markHealthy(@, req[c].model)]
    BY <1>6 DEF Responds, Succeeds, FailsForGood, Overloaded, FailsOtherwise, Retry, Abort
  <2> QED BY <1>1, <2>1 DEF markHealthy, Shared
<1>7. CASE Streamed
  BY <1>1, <1>7 DEF Streamed
<1>8. CASE StreamBroke
  <2>1. req["chat"].requested \in Models
    BY <1>8 DEF StreamBroke, IInv, TypeOK, Placed, Request
  <2> QED BY <1>1, <1>8, <2>1, SelectionMarksNothing DEF StreamBroke
<1>9. ASSUME NEW choice, Choose(choice)
      PROVE  dialog # None /\ dialog' = None /\ dialog.failed = m
  <2>1. dialog # None /\ dialog' = None /\ cfg' = configAfter(choice)
    BY <1>9 DEF Choose
  <2>2. m = dialog.policy
    BY <2>1, ChoiceMarks
  <2> QED BY <1>1, <2>1, <2>2, FallbackAssumption DEF IInv, DialogFits
<1>10. ASSUME NEW x \in Models \cup {AutoModel}, SetModel(x) PROVE FALSE
  BY <1>1, <1>10 DEF SetModel, setModel, reset, Shared
<1> QED BY <1>2, <1>3, <1>4, <1>5, <1>6, <1>7, <1>8, <1>9, <1>10 DEF Next

(* A model becomes unavailable only by an answer to a dialog that names it *)
(* as the model that failed: for every chain and every policy table, and   *)
(* whatever the other request does while the dialog is on the screen.      *)
THEOREM MarksShown == Spec => MarksShownModel
<1>1. IInv /\ [Next]_vars =>
        [\A m \in Models : cfg.health[m] # "terminal" /\ cfg'.health[m] = "terminal"
           => dialog # None /\ dialog'= None /\ dialog.failed = m]_vars
  BY OnlyChoicesMark DEF NewlyTerminal
<1> QED BY <1>1, Invariant, PTL DEF Spec, MarksShownModel

------------------------------------------------------------------------------
(* The model that the user chose.                                          *)

(* A new prompt asks for the configured model, when that is a model and    *)
(* not "auto": FallbackStrategy and OverrideStrategy agree, because the    *)
(* chain of a chosen model is that model alone.                            *)
LEMMA RouteFixedAsks ==
  ASSUME IInv, RouteFixed, cfg.model # AutoModel
  PROVE  req'["chat"].requested = cfg.model /\ cfg'.sequence = cfg.model
<1>1. cfg \in Shared /\ cfg.model \in Models /\ req \in [Callers -> Request]
  BY DEF IInv, TypeOK, Shared
<1>2. selectModelForAvailability(cfg, cfg.model) = cfg.model
  BY <1>1, SelectsChosen
<1>3. Select(cfg.model)
  BY <1>2 DEF RouteFixed
<1>4. req'["chat"].requested = cfg.model
  BY <1>1, <1>3 DEF Select, Callers, Request
<1>5. cfg'.sequence = cfg.model
  BY <1>1, <1>2, <1>3 DEF Select, Shared
<1> QED BY <1>4, <1>5

(* The turn calls the model it asks for, likewise.                         *)
LEMMA StartCalls ==
  ASSUME IInv, Start, cfg.model # AutoModel
  PROVE  req'["chat"].model = req["chat"].requested
<1>1. req["chat"].requested \in Models /\ req \in [Callers -> Request]
  BY DEF Start, IInv, TypeOK, Placed, Request, Callers
<1>2. selectModelForAvailability(cfg, req["chat"].requested) = req["chat"].requested
  BY <1>1, SelectsChosen
<1> QED BY <1>1, <1>2 DEF Start, Begin, Called, Callers, Request

(* Nothing else moves a chat that is choosing its model.                   *)
LEMMA OnlyRouteMoves ==
  ASSUME IInv, [Next]_vars, req["chat"].at \in {"routing", "selected"},
         req'["chat"].at # req["chat"].at
  PROVE  Route
<1>1. req \in [Callers -> Request] /\ "chat" \in Callers
  BY DEF IInv, TypeOK, Callers
<1>3. ASSUME req'["chat"] = req["chat"] PROVE FALSE
  BY <1>3
<1>4. CASE UNCHANGED vars
  BY <1>3, <1>4 DEF vars
<1>5. ASSUME NEW c \in Callers, c # "chat", NEW r, req' = [req EXCEPT ![c] = r] PROVE FALSE
  BY <1>1, <1>3, <1>5
<1>7. CASE Ask
  BY <1>5, <1>7 DEF Ask, Begin, Callers
<1>8. ASSUME NEW c \in Callers, Responds(c) \/ Retry(c) \/ Abort(c) PROVE FALSE
  <2>1. CASE c = "chat"
    BY <1>8, <2>1 DEF Responds, Succeeds, FailsForGood, Overloaded, FailsOtherwise, Retry, Abort
  <2>2. CASE c # "chat"
    <3>1. \E r : req' = [req EXCEPT ![c] = r]
      BY <1>8 DEF Responds, Succeeds, FailsForGood, Overloaded, FailsOtherwise, Retry, Abort,
         handleFallback, End, NextAttempt
    <3> QED BY <1>5, <2>2, <3>1
  <2> QED BY <2>1, <2>2
<1>9. CASE Streamed \/ StreamBroke
  BY <1>9 DEF Streamed, StreamBroke
<1>10. ASSUME NEW choice, Choose(choice) PROVE FALSE
  <2>1. dialog.by \in Callers /\ req[dialog.by].at = "asking"
    BY <1>10 DEF Choose, IInv, TypeOK, NoDialogLost, Dialog
  <2>2. dialog.by # "chat"
    BY <2>1
  <2>3. \E r : req' = [req EXCEPT ![dialog.by] = r]
    BY <1>10 DEF Choose, End, NextAttempt
  <2> QED BY <1>5, <2>1, <2>2, <2>3
<1>11. ASSUME NEW x \in Models \cup {AutoModel}, SetModel(x) PROVE FALSE
  BY <1>11 DEF SetModel
<1>12. ASSUME NEW a \in BOOLEAN, NEW b \in BOOLEAN, Send(a, b) PROVE FALSE
  BY <1>12 DEF Send
<1> QED BY <1>4, <1>7, <1>8, <1>9, <1>10, <1>11, <1>12 DEF Next

LEMMA ChatAsksChosen ==
  ASSUME IInv, [Next]_vars, cfg.model # AutoModel, req["chat"].at = "routing",
         cfg.sequence = None, req'["chat"].at = "selected"
  PROVE  req'["chat"].requested = cfg.model /\ cfg'.sequence = cfg.model
<1>1. Route
  BY OnlyRouteMoves
<1>2. req \in [Callers -> Request]
  BY DEF IInv, TypeOK
<1>3. ~(RouteSame \/ Classified \/ Start)
  BY DEF RouteSame, Classified, Start
<1>4. ~RouteClassify
  BY <1>2 DEF RouteClassify, Callers, Request
<1> QED BY <1>1, <1>3, <1>4, RouteFixedAsks DEF Route

LEMMA ChatCallsAsked ==
  ASSUME IInv, [Next]_vars, cfg.model # AutoModel, req["chat"].at = "selected",
         req'["chat"].at = "calling"
  PROVE  req'["chat"].model = req["chat"].requested
<1>1. Route
  BY OnlyRouteMoves
<1>2. ~(RouteSame \/ RouteFixed \/ RouteClassify \/ Classified)
  BY DEF RouteSame, RouteFixed, RouteClassify, Classified
<1> QED BY <1>1, <1>2, StartCalls DEF Route

(* A new prompt asks for the model that the user chose and calls what it   *)
(* asked for, even when that is marked unavailable, by another request     *)
(* just then too: for every chain and policy table.                        *)
THEOREM ChoiceHonoured == Spec => HonoursChoice
<1>1. IInv /\ [Next]_vars =>
        [cfg.model # AutoModel =>
           /\ req["chat"].at = "routing" /\ cfg.sequence = None /\ req'["chat"].at = "selected"
                => req'["chat"].requested = cfg.model /\ cfg'.sequence = cfg.model
           /\ req["chat"].at = "selected" /\ req'["chat"].at = "calling"
                => req'["chat"].model = req["chat"].requested]_vars
  BY ChatAsksChosen, ChatCallsAsked
<1> QED BY <1>1, Invariant, PTL DEF Spec, HonoursChoice

=============================================================================
