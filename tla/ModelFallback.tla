---------------------------- MODULE ModelFallback ----------------------------
(***************************************************************************)
(* Which model a request of the CLI calls, and what happens when the model *)
(* is out of quota or overloaded: the availability service                 *)
(* (packages/core/src/availability), the fallback handler                  *)
(* (packages/core/src/fallback), the retry loop (utils/retry.ts), the      *)
(* places where requests choose their model (core/client.ts,               *)
(* core/geminiChat.ts, core/baseLlmClient.ts) and the dialog of the user   *)
(* interface (cli/src/ui/hooks/useQuotaAndFallback.ts).                    *)
(*                                                                         *)
(* Two requests run concurrently and share the configuration: the chat's   *)
(* own, and one of a utility (prompt completion, classifier, loop check,   *)
(* next speaker check, compression).  The user is logged in with Google:   *)
(* for other credentials handleFallback returns at once.                   *)
(***************************************************************************)
EXTENDS Integers, Sequences, FiniteSets, Functions

CONSTANTS
  Chain,        \* the policy chain; its last model is the last resort
  UtilityModel, \* the model that utility requests ask for
  AutoModel,    \* the configured model "auto-gemini-..."
  None,
  MaxAttempts,  \* attempts before the user is asked
  Transitions,  \* Transitions[k]: the new status of a model after failure k
  Sends,        \* bound: messages of the chat
  Utilities,    \* bound: utility requests
  Settings,     \* bound: uses of /model
  Patience      \* bound: after so many retries the user stops

Models == Range(Chain) \cup {UtilityModel}

(* "terminal" stands for not_found too, "transient" for unknown.           *)
FailureKind == {"terminal", "transient"}

ASSUME FallbackAssumption ==
  /\ Chain \in Seq(Models) /\ Chain # <<>>
  /\ \A i, j \in DOMAIN Chain : Chain[i] = Chain[j] => i = j
  /\ AutoModel \notin Models /\ None \notin Models \cup {AutoModel}
  /\ MaxAttempts \in Nat \ {0}
  /\ Transitions \in [FailureKind -> {"terminal", "sticky_retry"}]
  /\ {Sends, Utilities, Settings, Patience} \subseteq Nat

Callers == {"chat", "utility"}

VARIABLES
  cfg,     \* what all requests share: see Shared
  req,     \* the request each caller has in progress
  dialog,  \* the fallback dialog on the screen
  left,    \* the models the user switched away from
  used     \* how often the bounded steps were taken

vars == <<cfg, req, dialog, left, used>>

(* The health of a model: "sticky" may be tried once more in this turn,    *)
(* "consumed" was.                                                         *)
Health == {"healthy", "terminal", "sticky", "consumed"}

Shared ==
  [model : Models \cup {AutoModel},            \* config.getModel()
   active : Models \cup {AutoModel},           \* config.getActiveModel()
   health : [Models -> Health],
   sequence : Models \cup {None}]              \* currentSequenceModel of the client

(* Where a request is: the client chooses a model ("routing", and while it *)
(* asks a model which model to use "classifying"; "selected" when it has   *)
(* chosen and the turn begins), the model was called ("calling"), the      *)
(* retry loop sleeps ("waiting") or awaits the fallback handler            *)
(* ("asking"), the answer is being streamed ("streaming").                 *)
Place == {"idle", "routing", "classifying", "selected", "calling", "waiting", "asking",
          "streaming"}

Request ==
  [at : Place,
   requested : Models \cup {None},             \* the key of the model config
   model : Models \cup {AutoModel, None},      \* lastModelToUse, currentModel
   initial : Models \cup {None},               \* initialActiveModel
   attempt : Nat,
   max : Nat,                             \* maxAttempts
   aborted : BOOLEAN,
   restarted : BOOLEAN]                        \* the stream broke once before

Dialog ==
  [by : Callers, failed : Models \cup {AutoModel}, fallback : Models,
   policy : Models \cup {None}, kind : FailureKind]

ASSUME NoneIsNoDialog == None \notin Dialog

Bounded == {"sends", "utilities", "settings", "retries"}

TypeOK ==
  /\ cfg \in Shared
  /\ req \in [Callers -> Request]
  /\ dialog \in Dialog \cup {None}
  /\ left \subseteq Models \cup {AutoModel}
  /\ used \in [Bounded -> Nat]

NoRequest ==
  [at |-> "idle", requested |-> None, model |-> None, initial |-> None,
   attempt |-> 0, max |-> MaxAttempts, aborted |-> FALSE, restarted |-> FALSE]

Init ==
  /\ cfg = [model |-> AutoModel, active |-> AutoModel,
            health |-> [m \in Models |-> "healthy"], sequence |-> None]
  /\ req = [c \in Callers |-> NoRequest]
  /\ dialog = None /\ left = {}
  /\ used = [b \in Bounded |-> 0]

------------------------------------------------------------------------------
(* The availability service.                                               *)

markTerminal(h, m) == [h EXCEPT ![m] = "terminal"]
markHealthy(h, m) == [h EXCEPT ![m] = "healthy"]
markRetryOncePerTurn(h, m) == [h EXCEPT ![m] = IF @ = "healthy" THEN "sticky" ELSE @]
consumeStickyAttempt(h, m) == [h EXCEPT ![m] = IF @ = "sticky" THEN "consumed" ELSE @]
resetTurn(h) == [m \in Models |-> IF h[m] = "consumed" THEN "sticky" ELSE h[m]]
reset == [m \in Models |-> "healthy"]

Available(h, m) == h[m] \in {"healthy", "sticky"}

(* selectFirstAvailable, with what both callers put in its place if it     *)
(* finds nothing: the last resort, which ends every chain.                 *)
FirstAvailable(h, chain) ==
  LET open == {i \in DOMAIN chain : Available(h, chain[i])}
  IN IF open = {} THEN chain[Len(chain)]
     ELSE chain[CHOOSE i \in open : \A j \in open : i <= j]

resolveModel(m) == IF m = AutoModel THEN Chain[1] ELSE m

IndexIn(chain, m) == CHOOSE i \in DOMAIN chain : chain[i] = m
After(chain, i) == SubSeq(chain, i, Len(chain))

(* Mutant: the chain is used for a model the user chose, too.              *)
resolvePolicyChain_always(g, preferred) ==
  LET m == resolveModel(preferred)
  IN IF m \in Range(Chain) THEN After(Chain, IndexIn(Chain, m)) ELSE <<m>>

resolvePolicyChain(g, preferred) ==
  LET m == resolveModel(preferred)
  IN IF g.model = AutoModel /\ m \in Range(Chain)
     THEN After(Chain, IndexIn(Chain, m)) ELSE <<m>>

selectModelForAvailability(g, m) == FirstAvailable(g.health, resolvePolicyChain(g, m))

applyModelSelection(g, m) ==
  LET final == selectModelForAvailability(g, m)
  IN [g EXCEPT !.active = final, !.health = consumeStickyAttempt(@, final)]

(* The attempts that the selection leaves to the retry loop.               *)
attemptsFor(g, m) ==
  IF g.health[selectModelForAvailability(g, m)] = "sticky" THEN 1 ELSE MaxAttempts

setModel(g, m) == [g EXCEPT !.model = m, !.active = m, !.health = reset]

------------------------------------------------------------------------------
(* A request for model m makes its first attempt, with the model selected. *)
Called(r, m, final, n) ==
  [r EXCEPT !.at = "calling", !.requested = m, !.model = final, !.initial = final,
            !.attempt = 1, !.max = n]

Begin(c, m) ==
  /\ cfg' = applyModelSelection(cfg, m)
  /\ req' = [req EXCEPT ![c] =
               Called(@, m, selectModelForAvailability(cfg, m), attemptsFor(cfg, m))]

(* The client asks for model m: it selects what is available for it, which *)
(* is the model of the prompt from now on, but takes no attempt; the       *)
(* request keeps asking for m.                                             *)
Select(m) ==
  LET final == selectModelForAvailability(cfg, m)
  IN /\ cfg' = [cfg EXCEPT !.active = final, !.sequence = final]
     /\ req' = [req EXCEPT !["chat"].at = "selected", !["chat"].requested = m]

End(c) == req' = [req EXCEPT ![c] = NoRequest]

(* sendMessageStream of the client: a new prompt, a tool's response or     *)
(* "please continue" (after an invalid stream the turn is not reset).      *)
Send(newPrompt, invalidStream) ==
  /\ req["chat"].at = "idle"
  /\ used["sends"] < Sends
  /\ ~newPrompt => used["sends"] > 0
  /\ invalidStream => ~newPrompt
  /\ used' = [used EXCEPT !["sends"] = @ + 1]
  /\ cfg' = [cfg EXCEPT !.health = IF invalidStream THEN @ ELSE resetTurn(@),
                        !.sequence = IF newPrompt THEN None ELSE @]
  /\ req' = [req EXCEPT !["chat"].at = "routing"]
  /\ UNCHANGED <<dialog, left>>

(* The model of the prompt's first message is used for all its messages.   *)
RouteSame ==
  /\ req["chat"].at = "routing"
  /\ cfg.sequence # None
  /\ Select(cfg.sequence)
  /\ UNCHANGED <<dialog, left, used>>

(* The router: FallbackStrategy, OverrideStrategy.                         *)
RouteFixed ==
  /\ req["chat"].at = "routing"
  /\ cfg.sequence = None
  /\ \/ /\ ~Available(cfg.health, resolveModel(cfg.model))
        /\ Select(selectModelForAvailability(cfg, cfg.model))
     \/ /\ Available(cfg.health, resolveModel(cfg.model))
        /\ cfg.model # AutoModel
        /\ Select(cfg.model)
  /\ UNCHANGED <<dialog, left, used>>

(* ClassifierStrategy: it calls a model first.                             *)
RouteClassify ==
  /\ req["chat"].at = "routing"
  /\ cfg.sequence = None
  /\ Available(cfg.health, resolveModel(cfg.model))
  /\ cfg.model = AutoModel
  /\ req' = [req EXCEPT !["chat"].at = "classifying"]
  /\ UNCHANGED <<cfg, dialog, left, used>>

Classified ==
  /\ req["chat"].at = "classifying"
  /\ \E m \in Range(Chain) : Select(m)
  /\ UNCHANGED <<dialog, left, used>>

(* The turn begins: the chat selects once more, by what is available now.  *)
(* A utility's request may have ended in between.                          *)
Start ==
  /\ req["chat"].at = "selected"
  /\ Begin("chat", req["chat"].requested)
  /\ UNCHANGED <<dialog, left, used>>

(* A utility request.                                                      *)
Ask ==
  /\ req["utility"].at = "idle"
  /\ used["utilities"] < Utilities
  /\ used' = [used EXCEPT !["utilities"] = @ + 1]
  /\ Begin("utility", UtilityModel)
  /\ UNCHANGED <<dialog, left>>

------------------------------------------------------------------------------
(* The retry loop.                                                         *)

(* The model of the next attempt (apiCall).  The chat follows the active   *)
(* model only if it changed since the request began.                       *)
NextModel(c, g, r) ==
  IF c = "utility" THEN g.active
  ELSE IF g.active # r.initial THEN resolveModel(g.active)
  ELSE r.model

NextAttempt(c, g, n) ==
  req' = [req EXCEPT ![c].at = "calling", ![c].model = NextModel(c, g, req[c]),
                     ![c].attempt = n]

Succeeds(c) ==
  /\ req[c].at = "calling"
  /\ cfg' = IF req[c].model = AutoModel THEN cfg
            ELSE [cfg EXCEPT !.health = markHealthy(@, req[c].model)]
  /\ IF c = "chat" THEN req' = [req EXCEPT ![c].at = "streaming"] ELSE End(c)
  /\ UNCHANGED <<dialog, left, used>>

(* Mutant: the last resort has no fallback.                                *)
FallbackDialog_none(c, kind) ==
  LET failed == req[c].model
      chain == resolvePolicyChain(cfg, cfg.active)
      known == failed \in Range(chain)
      candidates == IF known THEN After(chain, IndexIn(chain, failed) + 1) ELSE chain
  IN [by |-> c, failed |-> failed, kind |-> kind,
      fallback |-> IF candidates = <<>> THEN None
                   ELSE FirstAvailable(cfg.health, candidates),
      policy |-> IF known THEN failed ELSE None]

(* The question handleFallback asks.  The chain is that of the active      *)
(* model, which need not be the failed one; the last resort can only be    *)
(* tried again.                                                            *)
FallbackDialog(c, kind) ==
  LET failed == req[c].model
      chain == resolvePolicyChain(cfg, cfg.active)
      known == failed \in Range(chain)
      candidates == IF known THEN After(chain, IndexIn(chain, failed) + 1) ELSE chain
  IN [by |-> c, failed |-> failed, kind |-> kind,
      fallback |-> IF candidates = <<>> THEN failed
                   ELSE FirstAvailable(cfg.health, candidates),
      policy |-> IF known THEN failed ELSE None]

(* Mutant: a second dialog replaces the first.                             *)
handleFallback_replaces(c, kind) ==
  /\ dialog' = FallbackDialog(c, kind)
  /\ req' = [req EXCEPT ![c].at = "asking"]

(* handleFallback up to the user's choice.  While a dialog is on the       *)
(* screen, other requests stop.                                            *)
handleFallback(c, kind) ==
  \/ /\ dialog # None
     /\ End(c)
     /\ UNCHANGED dialog
  \/ /\ dialog = None
     /\ dialog' = FallbackDialog(c, kind)
     /\ req' = [req EXCEPT ![c].at = "asking"]

FailsForGood(c) ==
  /\ req[c].at = "calling"
  /\ handleFallback(c, "terminal")
  /\ UNCHANGED <<cfg, left, used>>

(* A retryable quota error or an error of the server.                      *)
Overloaded(c) ==
  /\ req[c].at = "calling"
  /\ \/ /\ req[c].attempt < req[c].max
        /\ req' = [req EXCEPT ![c].at = "waiting"]
        /\ UNCHANGED dialog
     \/ /\ req[c].attempt >= req[c].max
        /\ handleFallback(c, "transient")
  /\ UNCHANGED <<cfg, left, used>>

(* Any other error, or (for a utility) an answer that is of no use.        *)
FailsOtherwise(c) ==
  /\ req[c].at = "calling"
  /\ \/ End(c)
     \/ /\ req[c].attempt < req[c].max
        /\ req' = [req EXCEPT ![c].at = "waiting"]
  /\ UNCHANGED <<cfg, dialog, left, used>>

(* Mutant: the attempts are not counted.                                   *)
Retry_uncounted(c) ==
  /\ req[c].at = "waiting"
  /\ NextAttempt(c, cfg, req[c].attempt)
  /\ UNCHANGED <<cfg, dialog, left, used>>

(* The delay is over.                                                      *)
Retry(c) ==
  /\ req[c].at = "waiting"
  /\ NextAttempt(c, cfg, req[c].attempt + 1)
  /\ UNCHANGED <<cfg, dialog, left, used>>

(* The caller aborts.  While the dialog is open, that has no effect yet.   *)
(* (A utility's delay still elapses; its next attempt then fails at once.) *)
Abort(c) ==
  /\ req[c].at \in {"calling", "waiting", "asking"}
  /\ \/ req[c].at # "asking" /\ End(c)
     \/ req[c].at = "asking" /\ req' = [req EXCEPT ![c].aborted = TRUE]
  /\ UNCHANGED <<cfg, dialog, left, used>>

(* The stream of the answer ends, or breaks and the request is made again. *)
Streamed ==
  /\ req["chat"].at = "streaming"
  /\ End("chat")
  /\ UNCHANGED <<cfg, dialog, left, used>>

StreamBroke ==
  /\ req["chat"].at = "streaming"
  /\ ~req["chat"].restarted
  /\ LET m == req["chat"].requested
     IN /\ cfg' = applyModelSelection(cfg, m)
        /\ req' = [req EXCEPT !["chat"] =
                     [Called(@, m, selectModelForAvailability(cfg, m), attemptsFor(cfg, m))
                        EXCEPT !.restarted = TRUE]]
  /\ UNCHANGED <<dialog, left, used>>

------------------------------------------------------------------------------
(* The user.                                                               *)

(* What the dialog offers ("stop" stands for "upgrade" too).               *)
Choices ==
  IF dialog.failed = dialog.fallback THEN {"retry_once", "stop"}
  ELSE IF dialog.kind = "terminal" THEN {"retry_always", "stop"}
  ELSE {"retry_once", "retry_always", "stop"}

applyAvailabilityTransition(g, policy, kind) ==
  IF policy = None THEN g
  ELSE [g EXCEPT !.health = IF Transitions[kind] = "terminal"
                            THEN markTerminal(@, policy)
                            ELSE markRetryOncePerTurn(@, policy)]

(* Mutant: the failed policy is looked up after the user's choice.         *)
configAfter_late(choice) ==
  IF choice = "stop" THEN cfg
  ELSE IF choice = "retry_once"
  THEN applyAvailabilityTransition(cfg, resolveModel(cfg.active), dialog.kind)
  ELSE applyAvailabilityTransition(setModel(cfg, dialog.fallback),
                                   dialog.fallback, dialog.kind)

(* The configuration after a choice: "switch" first sets the model (and    *)
(* resets the service), then handleFallback goes on.                       *)
configAfter(choice) ==
  IF choice = "stop" THEN cfg
  ELSE IF choice = "retry_once"
  THEN applyAvailabilityTransition(cfg, dialog.policy, dialog.kind)
  ELSE [applyAvailabilityTransition(setModel(cfg, dialog.fallback),
                                    dialog.policy, dialog.kind)
          EXCEPT !.active = dialog.fallback]

Choose(choice) ==
  /\ dialog # None
  /\ choice \in Choices
  /\ choice # "stop" => used["retries"] < Patience
  /\ used' = [used EXCEPT !["retries"] = IF choice = "stop" THEN @ ELSE @ + 1]
  /\ cfg' = configAfter(choice)
  /\ left' = IF choice = "retry_always"
             THEN (left \cup {dialog.failed}) \ {dialog.fallback} ELSE left
  /\ IF choice = "stop" \/ req[dialog.by].aborted THEN End(dialog.by)
     ELSE NextAttempt(dialog.by, configAfter(choice), 1)
  /\ dialog' = None

(* The /model command, between messages.                                   *)
SetModel(m) ==
  /\ req["chat"].at = "idle" /\ dialog = None
  /\ used["settings"] < Settings
  /\ used' = [used EXCEPT !["settings"] = @ + 1]
  /\ cfg' = setModel(cfg, m)
  /\ left' = {}
  /\ UNCHANGED <<req, dialog>>

------------------------------------------------------------------------------
Route == RouteSame \/ RouteFixed \/ RouteClassify \/ Classified \/ Start
Responds(c) == Succeeds(c) \/ FailsForGood(c) \/ Overloaded(c) \/ FailsOtherwise(c)

Next ==
  \/ \E newPrompt, invalidStream \in BOOLEAN : Send(newPrompt, invalidStream)
  \/ Route \/ Ask
  \/ \E c \in Callers : Responds(c) \/ Retry(c) \/ Abort(c)
  \/ Streamed \/ StreamBroke
  \/ \E choice \in {"retry_once", "retry_always", "stop"} : Choose(choice)
  \/ \E m \in Models \cup {AutoModel} : SetModel(m)

Spec == Init /\ [][Next]_vars

(* Calls are answered or fail, delays end, streams end, the user answers   *)
(* the dialog.                                                             *)
Fairness ==
  /\ WF_vars(Route) /\ WF_vars(Streamed)
  /\ \A c \in Callers : WF_vars(Responds(c)) /\ WF_vars(Retry(c))
  /\ WF_vars(\E choice \in {"retry_once", "retry_always", "stop"} : Choose(choice))

FairSpec == Spec /\ Fairness

------------------------------------------------------------------------------
(* Properties.                                                             *)

(* A request that waits for the user is the one the dialog on the screen   *)
(* belongs to: no second failure takes the dialog away from a request,     *)
(* whose promise would then never be resolved (isDialogPending).           *)
NoDialogLost ==
  \A c \in Callers : req[c].at = "asking" <=> dialog # None /\ dialog.by = c

(* A model becomes unavailable only when the user answers a dialog that    *)
(* names it as the model that failed, although other requests change the   *)
(* active model while the dialog is open (failedPolicy in handleFallback). *)
MarksShownModel ==
  [][\A m \in Models : cfg.health[m] # "terminal" /\ cfg'.health[m] = "terminal"
       => dialog # None /\ dialog'= None /\ dialog.failed = m]_vars

(* A new prompt asks for the model the user chose, by /model or by         *)
(* switching in the dialog, and calls what it asked for: that may be       *)
(* marked unavailable, also by another request just then, but only "auto"  *)
(* leaves the choice to the program (resolvePolicyChain, at both           *)
(* selections).                                                            *)
HonoursChoice ==
  [][cfg.model # AutoModel =>
       /\ req["chat"].at = "routing" /\ cfg.sequence = None /\ req'["chat"].at = "selected"
            => req'["chat"].requested = cfg.model /\ cfg'.sequence = cfg.model
       /\ req["chat"].at = "selected" /\ req'["chat"].at = "calling"
            => req'["chat"].model = req["chat"].requested]_vars

(* Every request ends: attempts are bounded, and a retry after a fallback, *)
(* which starts the count anew, needs a decision of the user.              *)
RequestsEnd == \A c \in Callers : req[c].at # "idle" ~> req[c].at = "idle"

(* After the user switched from a failed model to the fallback model, the  *)
(* chat does not call the failed model again.                              *)
StaysWithFallback == req["chat"].at = "calling" => req["chat"].model \notin left

=============================================================================
