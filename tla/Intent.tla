-------------------------------- MODULE Intent --------------------------------
(***************************************************************************)
(* What the order agent makes of the LLM's reading of a customer message:  *)
(* the schema of order_agent/intent.py, the input guardrail of             *)
(* shared/guardrail_input.py and the node _extract_intent.  Amounts are in *)
(* cents, the confidence score in percent.                                 *)
(***************************************************************************)
EXTENDS Integers, Tools

CONSTANTS
    Price,       \* PRODUCT_CATALOG: the price of each product
    Customers,   \* CUSTOMER_PROFILES
    Null,        \* a field that is missing or null
    Odd,         \* a value that the field's type does not take
    Replies      \* what the LLM may answer to the extraction prompt

ASSUME PriceAssumption == \A p \in DOMAIN Price : Price[p] \in Nat \ {0}

\* A reply is a JSON object, alone or within prose, or it is not: several
\* objects, an array, prose.  Each field of the object is a value of its type,
\* Null or Odd; of the address only its gaps and its country matter.
Forms == {"object", "embedded", "several", "array", "prose"}

Addresses == {"complete", "incomplete", "abroad"}

Dates == {"past", "today", "future", "garbled"}

\* No node reads the shipping method: all but the default are one.
Methods == {"standard", "express"}

Reading ==
    [product_id: STRING \cup {Null, Odd}, product_name: STRING \cup {Null, Odd},
     customer_id: STRING \cup {Null, Odd}, shipping_method: Methods \cup {Null, Odd},
     quantity: Int \cup {Null, Odd}, unit_price: Int \cup {Null, Odd},
     total_amount: Int \cup {Null, Odd}, confidence_score: Int \cup {Null, Odd},
     delivery_date: Dates \cup {Null, Odd}, address: Addresses \cup {Null, Odd}]

ASSUME NullAssumption ==
    /\ Null # Odd
    /\ \A v \in {Null, Odd} :
          v \notin Int \cup Addresses \cup Dates \cup Methods \cup DOMAIN Price \cup Customers
ASSUME RepliesAssumption == Replies \subseteq [form: Forms, order: Reading]

(***************************************************************************)
(* The schema.                                                             *)
(***************************************************************************)
ConfidenceThreshold == 90

\* The outermost braces must enclose one object; any other JSON value makes
\* the constructor raise, like an object without its fields.
ParseJsonObject(reply) == reply.form \in {"object", "embedded"}

Given(v) == v \notin {Null, Odd}

Positive(n) == Given(n) /\ n > 0

Typed(x) ==
    \A v \in {x.product_id, x.product_name, x.customer_id, x.shipping_method, x.address} :
        Given(v)

\* Variant: the quantity has no upper bound.
FieldsAnyQuantity(x) ==
    /\ Typed(x)
    /\ Positive(x.quantity) /\ Positive(x.unit_price) /\ Positive(x.total_amount)
    /\ x.confidence_score \in 0 .. 100

Fields(x) ==
    /\ Typed(x)
    /\ x.quantity \in 1 .. QuantityMax
    /\ Positive(x.unit_price)
    /\ Positive(x.total_amount)
    /\ x.confidence_score \in 0 .. 100

\* Variant: an explicit null does not let the default apply.
DropNullsKept(x) == x

\* The fields that have a default take it; no delivery date is a value.
DropNulls(x) == [x EXCEPT !.shipping_method = IF @ = Null THEN "standard" ELSE @,
                          !.address = IF @ = Null THEN "incomplete" ELSE @]

\* Variant: today will do.
DeliveryFromToday(x) == x.delivery_date \in {Null, "today", "future"}

DeliveryInFuture(x) == x.delivery_date \in {Null, "future"}

Differs(a, b) == a > b + 1 \/ b > a + 1

OverrideTotal(x) ==
    LET expected == x.unit_price * x.quantity
    IN  [x EXCEPT !.total_amount = IF Differs(@, expected) THEN expected ELSE @]

Validates(reply) ==
    LET x == DropNulls(reply.order)
    IN  ParseJsonObject(reply) /\ Fields(x) /\ DeliveryInFuture(x)

ExtractedOrderIntent(reply) == OverrideTotal(DropNulls(reply.order))

(***************************************************************************)
(* The input guardrail and the node.                                       *)
(***************************************************************************)
CheckInputIntent(i) ==
    [passed |-> /\ i.product_id \in DOMAIN Price
                /\ i.customer_id \in Customers
                /\ i.quantity >= 1
                /\ i.total_amount > 0,
     needs_clarification |-> i.confidence_score < ConfidenceThreshold]

\* Variants: the state keeps the total of the LLM's unit price; a guardrail
\* that did not pass is only noted.
UnitPriceClaimed(i) == i.unit_price
NeedsClarificationIfUnsure(guard) == guard.needs_clarification

UnitPrice(i) == IF i.product_id \in DOMAIN Price THEN Price[i.product_id] ELSE i.unit_price

NeedsClarification(guard) == guard.needs_clarification \/ ~guard.passed

NoIntent == [product_id |-> Null]

\* The keys of OrderState the node sets.
Unset == [intent |-> NoIntent, needs_clarification |-> FALSE, status |-> "unset",
          failure_reason |-> "unset", quantity |-> 0, total_amount |-> 0,
          address |-> "incomplete"]

Refused == [Unset EXCEPT !.needs_clarification = TRUE, !.status = "pending_review",
                         !.failure_reason = "intent"]

Accepted(i) ==
    LET guard == CheckInputIntent(i)
    IN  [Unset EXCEPT !.intent = i,
                      !.needs_clarification = NeedsClarification(guard),
                      !.failure_reason = IF guard.passed THEN @ ELSE "intent",
                      !.quantity = i.quantity,
                      !.total_amount = UnitPrice(i) * i.quantity,
                      !.address = i.address]

VARIABLES
    reply,   \* the LLM's answer
    st,      \* the OrderState of the run
    node     \* the graph node about to run

vars == <<reply, st, node>>

Init ==
    /\ reply \in Replies
    /\ st = Unset
    /\ node = "extract_intent"

ExtractIntent ==
    /\ node = "extract_intent"
    /\ st' = IF Validates(reply) THEN Accepted(ExtractedOrderIntent(reply)) ELSE Refused
    /\ node' = IF st'.needs_clarification \/ st'.intent = NoIntent
               THEN "clarify" ELSE "confirm_with_customer"
    /\ UNCHANGED reply

Clarify ==
    /\ node = "clarify"
    /\ st' = [st EXCEPT !.status = "pending_review", !.failure_reason = "intent"]
    /\ node' = "format_response"
    /\ UNCHANGED reply

Next == ExtractIntent \/ Clarify

Spec == Init /\ [][Next]_vars

(***************************************************************************)
(* The instructions the later nodes write from the state.  The currency is *)
(* DEFAULT_CURRENCY, the token and the correlation id are always there; a  *)
(* shipment is asked for without the order id its tool wants.              *)
(***************************************************************************)
Names(step) ==
    IF step = "charge" THEN st.intent.customer_id \in Customers
                       ELSE st.intent.product_id \in DOMAIN Price

\* Variant: the instruction to charge names no payment token.
AskedForTokenless(step) ==
    [target |-> IF Names(step) THEN "known" ELSE "unknown",
     size |-> st.quantity, amount |-> st.total_amount,
     allowed |-> step = "ship" => st.address # "abroad",
     present |-> step \notin {"ship", "charge"}, traced |-> TRUE]

AskedFor(step) ==
    [target |-> IF Names(step) THEN "known" ELSE "unknown",
     size |-> st.quantity, amount |-> st.total_amount,
     allowed |-> step = "ship" => st.address # "abroad",
     present |-> step # "ship",
     traced |-> TRUE]

\* The shipment of an agent that puts an order id of its own in.
ShippedWithAnId == [AskedFor("ship") EXCEPT !.present = st.address # "incomplete"]

\* The calls the agents make of the instructions.
Calls ==
    {<<"check_stock", AskedFor("reserve")>>, <<"reserve_stock", AskedFor("reserve")>>,
     <<"charge_customer", AskedFor("charge")>>,
     <<"create_shipment", AskedFor("ship")>>, <<"create_shipment", ShippedWithAnId>>,
     <<"release_stock", AskedFor("release")>>, <<"create_order", AskedFor("save")>>}

\* A tool refuses the call by its guardrails or its service by its rules,
\* however much stock there is.
Refuses(tool, a) == ~Passes(tool, a) \/ ~Fine(Verdict(tool, a, TRUE, FALSE))

\* The texts a call may come back with, whether there is stock or not.
TextsFor(tool, a, enough) ==
    {Text(tool, http, enough) : http \in Statuses(tool, a, enough, FALSE)}

TextsOf(tool, a) ==
    IF Passes(tool, a)
    THEN {"rate_limited", "unreachable"} \cup TextsFor(tool, a, TRUE) \cup TextsFor(tool, a, FALSE)
    ELSE {"rate_limited", "rejected"}

(***************************************************************************)
(* Properties.                                                             *)
(***************************************************************************)
\* The states of the node, over the values of the replies.
TypeOK ==
    /\ reply.form \in Forms
    /\ node \in {"extract_intent", "clarify", "confirm_with_customer", "format_response"}
    /\ st.status \in {"unset", "pending_review"}
    /\ st.failure_reason \in {"unset", "intent"}
    /\ st.quantity \in 0 .. QuantityMax
    /\ st.address \in Addresses
    /\ st.total_amount \in Nat

\* An order goes on exactly when the LLM gave one object in which each field
\* the schema requires is there and each has a value of its type, naming a product
\* of the catalog and a known customer, a quantity in range, positive money,
\* no delivery date or a future one, and a confidence at the threshold or
\* above; a null in a field that has a default does not matter.
ProceedsIffAcceptable ==
    LET x == reply.order
    IN  node # "extract_intent" =>
          (node = "confirm_with_customer" <=>
             /\ reply.form \notin {"several", "array", "prose"}
             /\ x.product_id \in DOMAIN Price /\ x.customer_id \in Customers
             /\ x.product_name \notin {Null, Odd}
             /\ x.shipping_method # Odd /\ x.address # Odd
             /\ \A v \in {x.quantity, x.unit_price, x.total_amount, x.confidence_score} :
                   v \notin {Null, Odd}
             /\ 1 <= x.quantity /\ x.quantity < 10000
             /\ 0 < x.unit_price /\ 0 < x.total_amount
             /\ x.delivery_date \notin {"past", "today", "garbled", Odd}
             /\ 90 <= x.confidence_score /\ x.confidence_score <= 100)

\* The amount an order is charged and recorded with is the catalog's, whatever
\* prices and totals the LLM claimed.
TotalIsTheCatalogs ==
    node = "confirm_with_customer" =>
        st.total_amount = Price[reply.order.product_id] * reply.order.quantity

\* What the guardrails and the services refuse of an order that goes on: its
\* stock and its record never, the charge above the payment service's ceiling.
\* The shipment is looked at after the charge: as instructed it is refused
\* always, and with an order id of the agent's unless the address is complete.
LaterRefusals ==
    node = "confirm_with_customer" =>
        /\ ~Refuses("reserve_stock", AskedFor("reserve"))
        /\ ~Refuses("create_order", AskedFor("save"))
        /\ ~Refuses("release_stock", AskedFor("release"))
        /\ Refuses("charge_customer", AskedFor("charge")) <=> st.total_amount > ChargeMax
        /\ Refuses("create_shipment", AskedFor("ship"))
        /\ Refuses("create_shipment", ShippedWithAnId) <=> st.address # "complete"

\* Some refusals are worded without a failure marker: a charge the service
\* finds invalid, a product without a record.  No call made as an order that
\* goes on instructs meets one: whatever its text, _looks_successful takes it
\* for a success only if it tells of one.
RefusalsAreMarked ==
    node = "confirm_with_customer" =>
        \A c \in Calls : TextsOf(c[1], c[2]) \subseteq Marked \cup {"succeeded", "available"}

(***************************************************************************)
(* The extraction of the order workflow, which leaves open what is read.   *)
(***************************************************************************)
Order == "order"

Workflow == INSTANCE OrderWorkflow WITH
    Orders <- {Order}, Outcomes <- [n \in {} |-> {}], MayRaise <- {}, MayCancel <- {},
    RecursionLimit <- [o \in {Order} |-> 15],
    task <- [o \in {Order} |-> "working"],
    node <- [o \in {Order} |-> node],
    hops <- [o \in {Order} |-> CASE node = "extract_intent" -> 0
                                 [] node = "format_response" -> 2
                                 [] OTHER -> 1],
    st <- [o \in {Order} |->
              [intent |-> st.intent # NoIntent,
               needs_clarification |-> st.needs_clarification,
               status |-> st.status, failure_reason |-> st.failure_reason,
               inventory_ok |-> FALSE, payment_ok |-> FALSE,
               transaction_id |-> FALSE, tracking_id |-> FALSE,
               order_id |-> "unset", executed_steps |-> <<>>,
               result |-> [k \in {} |-> {}], confirmation |-> {}]],
    trail <- [o \in {Order} |-> <<>>], audit <- [o \in {Order} |-> "none"],
    done <- [o \in {Order} |-> {}], orphan <- [o \in {Order} |-> {}]

\* Every step of this module is a step of the node it details.
ImplementsExtraction ==
    [][Workflow!ExtractIntent(Order) \/ Workflow!Clarify(Order)]_vars

=============================================================================
