------------------------------ MODULE OrderSaga ------------------------------
(***************************************************************************)
(* What the order workflow promises of the effects it causes, whatever the *)
(* replies look like and wherever a run is interrupted: effects happen at  *)
(* most once and in saga order, a decision is backed by the effects it     *)
(* claims, and an interrupted run leaves at most one call in the air.      *)
(***************************************************************************)
CONSTANT Orders

Effects == {"check_inventory", "process_payment", "arrange_shipping",
            "rollback_inventory", "save_order", "send_notification"}

Reserved  == {"check_inventory"}
Paid      == Reserved \cup {"process_payment"}
Shipped   == Paid \cup {"arrange_shipping"}

\* The effects that must be there before e is.
Needs(e) ==
    CASE e = "check_inventory" -> {}
      [] e \in {"process_payment", "rollback_inventory"} -> Reserved
      [] e = "arrange_shipping" -> Paid
      [] e \in {"save_order", "send_notification"} -> Shipped

VARIABLES
    phase,     \* "open", then the decision told to the customer or "aborted"
    effects,   \* the effects that took place
    pending    \* the effects that may still take place after an abort

sagaVars == <<phase, effects, pending>>

SagaInit ==
    /\ phase = [o \in Orders |-> "open"]
    /\ effects = [o \in Orders |-> {}]
    /\ pending = [o \in Orders |-> {}]

\* e may happen now: it has not, what it needs has, a release only undoes a
\* reservation that was not paid for, and nothing follows a release.
Possible(o, e) ==
    /\ e \notin effects[o]
    /\ Needs(e) \subseteq effects[o]
    /\ e = "rollback_inventory" => "process_payment" \notin effects[o]
    /\ "rollback_inventory" \notin effects[o]

Perform(o) ==
    /\ phase[o] = "open"
    /\ \E e \in Effects : Possible(o, e) /\ effects' = [effects EXCEPT ![o] = @ \cup {e}]
    /\ UNCHANGED <<phase, pending>>

Backed(o, decision) ==
    CASE decision = "confirmed" ->
            Shipped \subseteq effects[o] /\ "rollback_inventory" \notin effects[o]
      [] decision = "failed" ->
            effects[o] \subseteq Reserved \cup {"rollback_inventory"}
      [] decision = "pending_review" -> effects[o] = {}

Decide(o) ==
    /\ phase[o] = "open"
    /\ \E d \in {"confirmed", "failed", "pending_review"} :
          Backed(o, d) /\ phase' = [phase EXCEPT ![o] = d]
    /\ UNCHANGED <<effects, pending>>

GiveUp(o) ==
    /\ phase[o] = "open"
    /\ phase' = [phase EXCEPT ![o] = "aborted"]
    /\ \/ UNCHANGED pending
       \/ \E e \in Effects : Possible(o, e) /\ pending' = [pending EXCEPT ![o] = {e}]
    /\ UNCHANGED effects

Late(o) ==
    /\ phase[o] = "aborted"
    /\ pending[o] # {}
    /\ effects' \in {effects, [effects EXCEPT ![o] = @ \cup pending[o]]}
    /\ pending' = [pending EXCEPT ![o] = {}]
    /\ UNCHANGED phase

SagaNext == \E o \in Orders : Perform(o) \/ Decide(o) \/ GiveUp(o) \/ Late(o)

SagaSpec == SagaInit /\ [][SagaNext]_sagaVars

=============================================================================
