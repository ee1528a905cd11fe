---------------------------- MODULE MCPeerAgents ----------------------------
(***************************************************************************)
(* Instances of PeerAgents for TLC.                                        *)
(***************************************************************************)
EXTENDS PeerAgents, TLC

CONSTANTS d1, d2

MCCalls == UNION {{d} \X (1 .. Budget[d]) : d \in Delegations}

\* The steps of the workflow; a careless LLM reserves or charges.
EveryStep == (d1 :> AllOps \ {"notify"}) @@ (d2 :> {"reserve", "charge"})
Budgets == (d1 :> 2) @@ (d2 :> 1)

OneReservation == d1 :> {"reserve"}
OneCharge == d1 :> {"charge"}
TwoCalls == d1 :> 2
ThreeCalls == d1 :> 3

Good == [target |-> "known", size |-> 2, amount |-> 4497,
         allowed |-> TRUE, present |-> TRUE, traced |-> TRUE]

\* The instructions of accepted orders: a known product and customer, a total
\* below or above what the payment service charges.  A shipment is asked for
\* without an order id: its agent leaves it empty or makes one up.
OrderArguments ==
    [o \in AllOps |->
        CASE o = "charge" -> {Good, [Good EXCEPT !.amount = ChargeMax + 1]}
          [] o = "ship"   -> {Good, [Good EXCEPT !.present = FALSE]}
          [] OTHER        -> {Good}]

PlainArguments == [o \in AllOps |-> {Good}]

NoInputs == [t \in ToolNames |-> {}]

\* What a careless agent makes up: a quantity no tool takes, a charge without
\* a payment token, a refund of somebody's charge.
AnyInputs ==
    [t \in ToolNames |->
        CASE t = "reserve_stock"   -> {Good, [Good EXCEPT !.size = QuantityMax + 1]}
          [] t = "charge_customer" -> {[Good EXCEPT !.present = FALSE]}
          [] t \in {"refund_payment", "check_transaction_status"} -> {Good}
          [] OTHER                 -> {}]

=============================================================================
