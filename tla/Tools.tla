-------------------------------- MODULE Tools --------------------------------
(***************************************************************************)
(* The tools of the five MCP servers (mcp-servers/*/server.py) and the     *)
(* REST requests behind them, as pure operators: the guardrails a tool     *)
(* applies to its arguments, the status its service answers with, and the  *)
(* kind of text the tool turns that status into.  Amounts are in cents.    *)
(***************************************************************************)
EXTENDS Naturals

StockTools  == {"check_stock", "reserve_stock", "release_stock"}
RowTools    == {"check_transaction_status", "refund_payment", "track_shipment", "get_order"}
CreateTools == {"charge_customer", "create_shipment", "create_order", "send_notification"}
ToolNames   == StockTools \cup RowTools \cup CreateTools

ReadTools  == {"check_stock", "check_transaction_status", "track_shipment", "get_order"}
WriteTools == ToolNames \ ReadTools

\* What the checks tell apart in the arguments of a call: the product or row it
\* names exists or does not, the customer may be charged or is the one who is
\* always declined, or the name is malformed;
\* its quantity, or the length of its message; whether its currency, country
\* or channel is supported, its other texts are there, and it passes on a
\* correlation id.
Arguments ==
    [target: {"known", "unknown", "malformed"}, size: Nat, amount: Nat,
     allowed: BOOLEAN, present: BOOLEAN, traced: BOOLEAN]

\* What stands for the arguments of a call nobody has made.
NoArguments ==
    [target |-> "malformed", size |-> 0, amount |-> 0,
     allowed |-> FALSE, present |-> FALSE, traced |-> FALSE]

(***************************************************************************)
(* Guardrails: a call that fails one never reaches the service.            *)
(***************************************************************************)
QuantityMax      == 9999
AutonomousMax    == 5000000      \* AMOUNT_CEILING of the charge tool
MessageMaxLength == 1000

StockPasses(a) == a.target # "malformed" /\ a.size > 0 /\ a.size <= QuantityMax

ChargePasses(a) == a.amount > 0 /\ a.amount <= AutonomousMax /\ a.allowed

ShipmentPasses(a) == a.allowed /\ a.present

OrderPasses(a) == a.present /\ a.size > 0 /\ a.amount > 0

NotificationPasses(a) == a.allowed /\ a.size <= MessageMaxLength

IdPasses(a) == a.target # "malformed"

Passes(t, a) ==
    CASE t \in StockTools        -> StockPasses(a)
      [] t \in RowTools          -> IdPasses(a)
      [] t = "charge_customer"   -> ChargePasses(a)
      [] t = "create_shipment"   -> ShipmentPasses(a)
      [] t = "create_order"      -> OrderPasses(a)
      [] t = "send_notification" -> NotificationPasses(a)

(***************************************************************************)
(* The services.  The bean validation of a request body answers 422; the   *)
(* GETs and what a guardrail has already made sure of are not validated.   *)
(***************************************************************************)
ChargeMax == 1000000             \* AMOUNT_CEILING of the payment service

StockValid(a) == a.traced

ChargeValid(a) == a.traced /\ a.present

RefundValid(a) == a.traced

ShipmentValid(a) == a.traced

OrderValid(a) == a.traced /\ a.allowed /\ a.size <= QuantityMax

NotificationValid(a) == a.traced /\ a.present

\* The stock is a product's; enough says that it covers the quantity.
CheckStock(a) == IF a.target = "known" THEN 200 ELSE 404

Reserve(a, enough) ==
    CASE ~StockValid(a) -> 422
      [] StockValid(a) /\ a.target # "known" -> 404
      [] StockValid(a) /\ a.target = "known" -> IF enough THEN 200 ELSE 409

Release(a) ==
    CASE ~StockValid(a) -> 422
      [] StockValid(a) -> IF a.target = "known" THEN 200 ELSE 404

Charge(a) ==
    CASE ~ChargeValid(a) -> 422
      [] ChargeValid(a) -> IF a.target = "unknown" \/ a.amount > ChargeMax THEN 402 ELSE 200

\* found says that the row named is in the store.
Refund(a, found) ==
    CASE ~RefundValid(a) -> 422
      [] RefundValid(a) -> IF found THEN 200 ELSE 404

GetTransaction(found) == IF found THEN 200 ELSE 404

CreateShipment(a) == IF ShipmentValid(a) THEN 201 ELSE 422

GetShipment(found) == IF found THEN 200 ELSE 404

CreateOrder(a) == IF OrderValid(a) THEN 201 ELSE 422

GetOrder(found) == IF found THEN 200 ELSE 404

Send(a) == IF NotificationValid(a) THEN 201 ELSE 422

Verdict(t, a, enough, found) ==
    CASE t = "check_stock"              -> CheckStock(a)
      [] t = "reserve_stock"            -> Reserve(a, enough)
      [] t = "release_stock"            -> Release(a)
      [] t = "charge_customer"          -> Charge(a)
      [] t = "refund_payment"           -> Refund(a, found)
      [] t = "check_transaction_status" -> GetTransaction(found)
      [] t = "create_shipment"          -> CreateShipment(a)
      [] t = "track_shipment"           -> GetShipment(found)
      [] t = "create_order"             -> CreateOrder(a)
      [] t = "get_order"                -> GetOrder(found)
      [] t = "send_notification"        -> Send(a)

\* Any transaction may fail, on a lost race for a row for one: it is undone.
Statuses(t, a, enough, found) == {Verdict(t, a, enough, found), 500}

Fine(http) == http \in {200, 201}

(***************************************************************************)
(* The text for an HTTP answer; enough is what the stock in it says.       *)
(***************************************************************************)
Texts == {"succeeded", "found", "available", "insufficient", "could_not",
          "no_record", "declined", "invalid", "failed", "rejected",
          "rate_limited", "unreachable"}

CheckStockText(http, enough) ==
    CASE http = 404 -> "no_record"
      [] http = 200 -> IF enough THEN "available" ELSE "insufficient"
      [] OTHER -> "failed"

\* Variant: only a server error is looked for.
ReserveTextTrusting(http) == IF http = 500 THEN "failed" ELSE "succeeded"

ReserveText(http) ==
    CASE http = 200 -> "succeeded" [] http = 409 -> "could_not" [] OTHER -> "failed"

ReleaseText(http) == IF http = 200 THEN "succeeded" ELSE "failed"

ChargeText(http) ==
    CASE http = 200 -> "succeeded" [] http = 402 -> "declined"
      [] http = 422 -> "invalid"   [] OTHER -> "failed"

LookupText(http) ==
    CASE http = 200 -> "found" [] http = 404 -> "no_record" [] OTHER -> "failed"

TrackText(http) ==
    CASE http = 200 -> "found" [] http = 404 -> "no_record" [] OTHER -> "failed"

GetOrderText(http) ==
    CASE http = 200 -> "found" [] http = 404 -> "no_record" [] OTHER -> "failed"

RefundText(http) == IF http = 200 THEN "succeeded" ELSE "failed"

CreateShipmentText(http) == IF Fine(http) THEN "succeeded" ELSE "failed"

CreateOrderText(http) == IF Fine(http) THEN "succeeded" ELSE "failed"

SendText(http) == IF Fine(http) THEN "succeeded" ELSE "failed"

Text(t, http, enough) ==
    CASE t = "check_stock"              -> CheckStockText(http, enough)
      [] t = "reserve_stock"            -> ReserveText(http)
      [] t = "release_stock"            -> ReleaseText(http)
      [] t = "charge_customer"          -> ChargeText(http)
      [] t = "refund_payment"           -> RefundText(http)
      [] t = "check_transaction_status" -> LookupText(http)
      [] t = "create_shipment"          -> CreateShipmentText(http)
      [] t = "track_shipment"           -> TrackText(http)
      [] t = "create_order"             -> CreateOrderText(http)
      [] t = "get_order"                -> GetOrderText(http)
      [] t = "send_notification"        -> SendText(http)

\* The texts in which _looks_successful finds one of its failure markers.  A
\* charge refused by validation and a row that was not found have none.
Marked == {"insufficient", "could_not", "declined", "failed", "rejected",
           "rate_limited", "unreachable"}

\* The texts that tell the call has had no effect and will have none.
Refusals == Texts \ {"succeeded", "unreachable"}

=============================================================================
