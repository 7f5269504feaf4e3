-------------------------- MODULE MCModelFallback --------------------------
(***************************************************************************)
(* ModelFallback with the default chain of the catalog (pro, flash) and    *)
(* its default transitions.                                                *)
(***************************************************************************)
EXTENDS ModelFallback, TLC
CONSTANTS pro, flash, lite

DEFAULT_CHAIN == <<pro, flash>>
DEFAULT_STATE == [kind \in FailureKind |-> "terminal"]

=============================================================================
