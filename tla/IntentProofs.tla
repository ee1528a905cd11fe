----------------------------- MODULE IntentProofs -----------------------------
(***************************************************************************)
(* Theorems about Intent for any catalog, any customers and any replies of *)
(* the LLM: which orders go on, with what amount, what the guardrails      *)
(* behind them refuse of these and with which texts, and that the decision *)
(* is one the first node of the workflow may take.                         *)
(***************************************************************************)
EXTENDS Intent, TLAPS

Decision(r) == IF Validates(r) THEN Accepted(ExtractedOrderIntent(r)) ELSE Refused

GoesOn(r) == ~Decision(r).needs_clarification /\ Decision(r).intent # NoIntent

\* What the checks amount to, field by field.
Acceptable(r) ==
    LET x == r.order
    IN  /\ r.form \notin {"several", "array", "prose"}
        /\ x.product_id \in DOMAIN Price /\ x.customer_id \in Customers
        /\ Given(x.product_id) /\ Given(x.customer_id) /\ Given(x.product_name)
        /\ x.shipping_method # Odd /\ x.address # Odd
        /\ Given(x.quantity) /\ Given(x.unit_price)
        /\ Given(x.total_amount) /\ Given(x.confidence_score)
        /\ 1 <= x.quantity /\ x.quantity < 10000
        /\ 0 < x.unit_price /\ 0 < x.total_amount
        /\ x.delivery_date \notin {"past", "today", "garbled", Odd}
        /\ 90 <= x.confidence_score /\ x.confidence_score <= 100

\* The inductive invariant: the node says what was decided of the reply.
Inv ==
    /\ reply \in Replies
    /\ node = "extract_intent" => st = Unset
    /\ node = "confirm_with_customer" => GoesOn(reply) /\ st = Decision(reply)
    /\ node \in {"clarify", "format_response"} =>
          /\ ~GoesOn(reply)
          /\ st = Decision(reply) \/
                st = [Decision(reply) EXCEPT !.status = "pending_review",
                                             !.failure_reason = "intent"]
    /\ node \in {"extract_intent", "clarify", "confirm_with_customer", "format_response"}

LEMMA InvHolds == Spec => []Inv
  <1>1. Init => Inv
    BY DEF Init, Inv
  <1>2. Inv /\ [Next]_vars => Inv'
    <2> SUFFICES ASSUME Inv, [Next]_vars PROVE Inv'
      OBVIOUS
    <2>1. CASE ExtractIntent
      <3>1. st' = Decision(reply) /\ reply' = reply
        BY <2>1 DEF ExtractIntent, Decision
      <3>2. node' = IF GoesOn(reply) THEN "confirm_with_customer" ELSE "clarify"
        BY <2>1, <3>1 DEF ExtractIntent, GoesOn
      <3> QED BY <3>1, <3>2 DEF Inv
    <2>2. CASE Clarify
      BY <2>2 DEF Clarify, Inv
    <2>3. CASE UNCHANGED vars
      BY <2>3 DEF vars, Inv
    <2> QED BY <2>1, <2>2, <2>3 DEF Next
  <1> QED BY <1>1, <1>2, PTL DEF Spec

LEMMA Limits ==
    /\ QuantityMax \in Nat
    /\ \A n \in Int : n < 10000 <=> n <= QuantityMax
    /\ ChargeMax \in Nat /\ AutonomousMax \in Nat
    /\ \A n \in Nat : n <= ChargeMax => n <= AutonomousMax
  BY SMT DEF QuantityMax, ChargeMax, AutonomousMax

(***************************************************************************)
(* The schema.                                                             *)
(***************************************************************************)
LEMMA ReadingFields ==
    ASSUME NEW r \in Replies
    PROVE  /\ r.form \in Forms
           /\ r.order.quantity \in Int \cup {Null, Odd}
           /\ r.order.unit_price \in Int \cup {Null, Odd}
           /\ r.order.total_amount \in Int \cup {Null, Odd}
           /\ r.order.confidence_score \in Int \cup {Null, Odd}
           /\ r.order.delivery_date \in Dates \cup {Null, Odd}
           /\ r.order.address \in Addresses \cup {Null, Odd}
  BY RepliesAssumption DEF Reading

\* A field holds no address, date or number at once with one of the others.
LEMMA GivenValues ==
    /\ \A n \in Int \cup {Null, Odd} : Given(n) <=> n \in Int
    /\ \A a \in Addresses \cup {Null, Odd} : Given(a) <=> a \in Addresses
    /\ \A d \in Dates \cup {Null, Odd} :
          d \notin {"past", "today", "garbled", Odd} <=> d \in {Null, "future"}
    /\ \A n \in Int \cup {Null, Odd} : Positive(n) <=> n \in Nat \ {0}
    /\ Given("standard") /\ Given("incomplete")
    /\ \A p \in DOMAIN Price \cup Customers : Given(p)
  BY NullAssumption DEF Given, Positive, Addresses, Dates, Methods

\* Only the shipping method and the address change, and are there afterwards.
LEMMA DropNullsFields ==
    ASSUME NEW x \in Reading
    PROVE  /\ DropNulls(x) \in Reading
           /\ DropNulls(x).shipping_method =
                 (IF x.shipping_method = Null THEN "standard" ELSE x.shipping_method)
           /\ DropNulls(x).address = (IF x.address = Null THEN "incomplete" ELSE x.address)
           /\ \A k \in {"product_id", "product_name", "customer_id", "quantity", "unit_price",
                        "total_amount", "confidence_score", "delivery_date"} :
                 DropNulls(x)[k] = x[k]
  <1> DEFINE method == IF x.shipping_method = Null THEN "standard" ELSE x.shipping_method
             place == IF x.address = Null THEN "incomplete" ELSE x.address
             y == [x EXCEPT !.shipping_method = method, !.address = place]
  <1>1. DropNulls(x) = y
    BY DEF DropNulls
  <1>2. method \in Methods \cup {Null, Odd} /\ place \in Addresses \cup {Null, Odd}
    BY DEF Reading, Methods, Addresses
  <1> HIDE DEF method, place
  <1>3. /\ y.shipping_method = method /\ y.address = place
        /\ \A k \in {"product_id", "product_name", "customer_id", "quantity", "unit_price",
                     "total_amount", "confidence_score", "delivery_date"} : y[k] = x[k]
    BY DEF Reading
  <1>4. y \in Reading
    <2> DEFINE z == [x EXCEPT !.shipping_method = method]
    <2>1. z \in Reading
      BY <1>2 DEF Reading
    <2>2. y = [z EXCEPT !.address = place]
      OBVIOUS
    <2> HIDE DEF z
    <2> QED BY <1>2, <2>1, <2>2 DEF Reading
  <1> QED BY <1>1, <1>3, <1>4 DEF method, place

\* Only the total changes, and stays positive.
LEMMA OverrideTotalFields ==
    ASSUME NEW x \in Reading, x.unit_price \in Nat \ {0}, x.quantity \in Nat \ {0},
           x.total_amount \in Nat \ {0}
    PROVE  /\ OverrideTotal(x).total_amount \in Nat \ {0}
           /\ \A k \in {"product_id", "customer_id", "quantity", "unit_price",
                        "confidence_score", "delivery_date", "address"} :
                 OverrideTotal(x)[k] = x[k]
           /\ OverrideTotal(x) # NoIntent
  <1> DEFINE expected == x.unit_price * x.quantity
  <1>1. expected \in Nat \ {0}
    <2>1. \A m, n \in Nat \ {0} : m * n \in Nat \ {0}
      OBVIOUS
    <2> QED BY <2>1
  <1> HIDE DEF expected
  <1>2. OverrideTotal(x) =
           [x EXCEPT !.total_amount = IF Differs(x.total_amount, expected)
                                      THEN expected ELSE x.total_amount]
    BY DEF OverrideTotal, expected
  <1>3. DOMAIN OverrideTotal(x) = DOMAIN x /\ "quantity" \in DOMAIN x
    BY <1>2 DEF Reading
  <1>4. DOMAIN NoIntent = {"product_id"}
    BY DEF NoIntent
  <1> QED BY <1>1, <1>2, <1>3, <1>4 DEF Reading

LEMMA ValidatesIff ==
    ASSUME NEW r \in Replies
    PROVE  Validates(r) <=>
             LET x == r.order
             IN  /\ r.form \in {"object", "embedded"}
                 /\ Given(x.product_id) /\ Given(x.customer_id) /\ Given(x.product_name)
                 /\ x.shipping_method # Odd /\ x.address # Odd
                 /\ x.quantity \in 1 .. QuantityMax
                 /\ x.unit_price \in Nat \ {0}
                 /\ x.total_amount \in Nat \ {0}
                 /\ x.confidence_score \in 0 .. 100
                 /\ x.delivery_date \in {Null, "future"}
  <1> DEFINE x == r.order
             y == DropNulls(x)
  <1>1. x \in Reading
    BY RepliesAssumption
  <1>2. /\ Given(y.shipping_method) <=> x.shipping_method # Odd
        /\ Given(y.address) <=> x.address # Odd
    BY <1>1, DropNullsFields, GivenValues, NullAssumption DEF Given
  <1>3. Typed(y) <=> /\ Given(x.product_id) /\ Given(x.customer_id) /\ Given(x.product_name)
                     /\ x.shipping_method # Odd /\ x.address # Odd
    <2>1. y.product_id = x.product_id /\ y.customer_id = x.customer_id
          /\ y.product_name = x.product_name
      BY <1>1, DropNullsFields
    <2> HIDE DEF y, x
    <2> QED BY <1>2, <2>1 DEF Typed
  <1>4. /\ y.quantity = x.quantity /\ y.unit_price = x.unit_price
        /\ y.total_amount = x.total_amount /\ y.confidence_score = x.confidence_score
        /\ y.delivery_date = x.delivery_date
    BY <1>1, DropNullsFields
  <1>5. /\ Positive(x.unit_price) <=> x.unit_price \in Nat \ {0}
        /\ Positive(x.total_amount) <=> x.total_amount \in Nat \ {0}
    BY ReadingFields, GivenValues
  <1>6. Validates(r) <=> r.form \in {"object", "embedded"} /\ Fields(y) /\ DeliveryInFuture(y)
    BY DEF Validates, ParseJsonObject
  <1> HIDE DEF x, y
  <1>7. Fields(y) <=> /\ Typed(y) /\ x.quantity \in 1 .. QuantityMax
                      /\ Positive(x.unit_price) /\ Positive(x.total_amount)
                      /\ x.confidence_score \in 0 .. 100
    BY <1>4 DEF Fields
  <1>8. DeliveryInFuture(y) <=> x.delivery_date \in {Null, "future"}
    BY <1>4 DEF DeliveryInFuture
  <1> QED BY <1>3, <1>5, <1>6, <1>7, <1>8 DEF x

\* What an accepted reply leaves in the state.
LEMMA AcceptedFields ==
    ASSUME NEW r \in Replies, Validates(r)
    PROVE  LET d == Decision(r)
               x == r.order
               unsure == \/ x.confidence_score < 90
                         \/ x.product_id \notin DOMAIN Price
                         \/ x.customer_id \notin Customers
           IN  /\ d.intent # NoIntent
               /\ d.intent.product_id = x.product_id
               /\ d.intent.customer_id = x.customer_id
               /\ d.needs_clarification <=> unsure
               /\ d.quantity = x.quantity
               /\ d.total_amount =
                     (IF x.product_id \in DOMAIN Price THEN Price[x.product_id]
                      ELSE x.unit_price) * x.quantity
               /\ d.address \in Addresses
  <1> DEFINE y == DropNulls(r.order)
             i == OverrideTotal(y)
  <1>1. r.order \in Reading
    BY RepliesAssumption
  <1>2. /\ r.order.quantity \in 1 .. QuantityMax
        /\ r.order.unit_price \in Nat \ {0}
        /\ r.order.total_amount \in Nat \ {0}
        /\ r.order.confidence_score \in 0 .. 100
    BY ValidatesIff
  <1>3. /\ y \in Reading
        /\ y.unit_price \in Nat \ {0} /\ y.quantity \in Nat \ {0}
        /\ y.total_amount \in Nat \ {0}
    BY <1>1, <1>2, Limits, DropNullsFields
  <1>4. /\ i.total_amount \in Nat \ {0}
        /\ i # NoIntent
        /\ i.address = y.address
        /\ \A k \in {"product_id", "customer_id", "quantity", "unit_price", "confidence_score"} :
              i[k] = r.order[k]
    <2> HIDE DEF y
    <2>1. \A k \in {"product_id", "customer_id", "quantity", "unit_price", "confidence_score"} :
              y[k] = r.order[k]
      BY <1>1, DropNullsFields DEF y
    <2> QED BY <1>3, <2>1, OverrideTotalFields
  <1>5. i.address \in Addresses
    <2>1. y.address = (IF r.order.address = Null THEN "incomplete" ELSE r.order.address)
      BY <1>1, DropNullsFields
    <2>2. r.order.address \in Addresses \cup {Null}
      BY ReadingFields, ValidatesIff
    <2> QED BY <1>4, <2>1, <2>2 DEF Addresses
  <1>6. Decision(r) = Accepted(i)
    BY DEF Decision, ExtractedOrderIntent
  <1> HIDE DEF i, y
  <1>7. NeedsClarification(CheckInputIntent(i)) <=>
           \/ r.order.confidence_score < 90
           \/ r.order.product_id \notin DOMAIN Price
           \/ r.order.customer_id \notin Customers
    <2>1. /\ i.quantity >= 1 /\ i.total_amount > 0
          /\ i.confidence_score = r.order.confidence_score
          /\ i.product_id = r.order.product_id
          /\ i.customer_id = r.order.customer_id
      BY <1>2, <1>4, Limits
    <2> DEFINE guard == CheckInputIntent(i)
    <2>2. /\ guard.passed <=> i.product_id \in DOMAIN Price /\ i.customer_id \in Customers
          /\ guard.needs_clarification <=> i.confidence_score < 90
      BY <2>1 DEF CheckInputIntent, ConfidenceThreshold
    <2> QED BY <2>1, <2>2, Zenon DEF NeedsClarification
  <1>8. /\ Accepted(i).intent = i
        /\ Accepted(i).needs_clarification = NeedsClarification(CheckInputIntent(i))
        /\ Accepted(i).quantity = i.quantity
        /\ Accepted(i).total_amount = UnitPrice(i) * i.quantity
        /\ Accepted(i).address = i.address
    BY DEF Accepted, Unset
  <1> QED BY <1>4, <1>5, <1>6, <1>7, <1>8 DEF UnitPrice

LEMMA RefusedStops ==
    ASSUME NEW r \in Replies, ~Validates(r)
    PROVE  ~GoesOn(r)
  BY DEF GoesOn, Decision, Refused, Unset

LEMMA GoesOnIffAcceptable ==
    ASSUME NEW r \in Replies
    PROVE  GoesOn(r) <=> Acceptable(r)
  <1>1. ASSUME GoesOn(r) PROVE Acceptable(r)
    <2>1. Validates(r)
      BY <1>1, RefusedStops
    <2>2. /\ ~(r.order.confidence_score < 90)
          /\ r.order.product_id \in DOMAIN Price /\ r.order.customer_id \in Customers
      BY <1>1, <2>1, AcceptedFields DEF GoesOn
    <2> QED BY <2>1, <2>2, ValidatesIff, ReadingFields, GivenValues, Limits
            DEF Acceptable, Forms
  <1>2. ASSUME Acceptable(r) PROVE GoesOn(r)
    <2>1. /\ r.order.quantity \in Int /\ r.order.unit_price \in Int
          /\ r.order.total_amount \in Int /\ r.order.confidence_score \in Int
      <3>1. /\ Given(r.order.quantity) /\ Given(r.order.unit_price)
            /\ Given(r.order.total_amount) /\ Given(r.order.confidence_score)
        BY <1>2 DEF Acceptable
      <3> QED BY <3>1, ReadingFields, GivenValues, Zenon
    <2>2. r.form \in {"object", "embedded"} /\ r.order.delivery_date \in {Null, "future"}
      BY <1>2, ReadingFields, GivenValues DEF Acceptable, Forms
    <2>3. Validates(r)
      BY <1>2, <2>1, <2>2, ValidatesIff, Limits DEF Acceptable
    <2> QED BY <1>2, <2>1, <2>3, AcceptedFields DEF GoesOn, Acceptable
  <1> QED BY <1>1, <1>2

(***************************************************************************)
(* The guardrails and the services.                                        *)
(***************************************************************************)
LEMMA StockCalls ==
    ASSUME NEW a, a.traced, a.target = "known", a.size \in 1 .. QuantityMax
    PROVE  /\ Passes("reserve_stock", a) /\ Passes("release_stock", a)
           /\ Fine(Verdict("reserve_stock", a, TRUE, FALSE))
           /\ Fine(Verdict("release_stock", a, TRUE, FALSE))
  <1>1. StockPasses(a)
    BY Limits DEF StockPasses
  <1>2. Fine(Reserve(a, TRUE)) /\ Fine(Release(a))
    BY DEF Fine, Reserve, Release, StockValid
  <1>3. Passes("reserve_stock", a) /\ Passes("release_stock", a)
    BY <1>1, SMT DEF Passes, StockTools, RowTools
  <1>4. /\ Verdict("reserve_stock", a, TRUE, FALSE) = Reserve(a, TRUE)
        /\ Verdict("release_stock", a, TRUE, FALSE) = Release(a)
    BY SMT DEF Verdict
  <1> QED BY <1>2, <1>3, <1>4, Zenon

LEMMA OrderCalls ==
    ASSUME NEW a, a.traced, a.present, a.allowed,
           a.size \in 1 .. QuantityMax, a.amount \in Nat \ {0}
    PROVE  /\ Passes("create_order", a)
           /\ Fine(Verdict("create_order", a, TRUE, FALSE))
  <1>1. OrderPasses(a)
    BY Limits DEF OrderPasses
  <1>2. Fine(CreateOrder(a))
    BY Limits DEF Fine, CreateOrder, OrderValid
  <1>3. Passes("create_order", a)
    BY <1>1, SMT DEF Passes, StockTools, RowTools
  <1>4. Verdict("create_order", a, TRUE, FALSE) = CreateOrder(a)
    BY SMT DEF Verdict
  <1> QED BY <1>2, <1>3, <1>4, Zenon

LEMMA ChargeCalls ==
    ASSUME NEW a, a.traced, a.present, a.allowed,
           a.target = "known", a.amount \in Nat \ {0}
    PROVE  /\ Passes("charge_customer", a) <=> a.amount <= AutonomousMax
           /\ Fine(Verdict("charge_customer", a, TRUE, FALSE)) <=> a.amount <= ChargeMax
  <1>1. ChargePasses(a) <=> a.amount <= AutonomousMax
    BY Limits DEF ChargePasses
  <1>2. Fine(Charge(a)) <=> a.amount <= ChargeMax
    BY Limits DEF Fine, Charge, ChargeValid
  <1>3. Passes("charge_customer", a) <=> ChargePasses(a)
    BY SMT DEF Passes, StockTools, RowTools
  <1>4. Verdict("charge_customer", a, TRUE, FALSE) = Charge(a)
    BY SMT DEF Verdict
  <1> QED BY <1>1, <1>2, <1>3, <1>4, Zenon

LEMMA ShipmentCalls ==
    ASSUME NEW a, a.traced
    PROVE  /\ Passes("create_shipment", a) <=> a.allowed /\ a.present
           /\ Fine(Verdict("create_shipment", a, TRUE, FALSE))
  <1>1. Fine(CreateShipment(a))
    BY DEF Fine, CreateShipment, ShipmentValid
  <1>2. Passes("create_shipment", a) <=> ShipmentPasses(a)
    BY SMT DEF Passes, StockTools, RowTools
  <1>3. Verdict("create_shipment", a, TRUE, FALSE) = CreateShipment(a)
    BY SMT DEF Verdict
  <1> QED BY <1>1, <1>2, <1>3, Zenon DEF ShipmentPasses

(***************************************************************************)
(* The theorems.                                                           *)
(***************************************************************************)
\* An order goes on exactly when every field of the one object in the reply
\* passes its check, for any catalog, customers and replies (_extract_intent).
THEOREM OnlyAcceptableProceeds == Spec => []ProceedsIffAcceptable
  <1>1. Inv => ProceedsIffAcceptable
    <2> SUFFICES ASSUME Inv, node # "extract_intent"
                 PROVE  node = "confirm_with_customer" <=> Acceptable(reply)
      <3>1. /\ reply.order.product_id \in DOMAIN Price => Given(reply.order.product_id)
            /\ reply.order.customer_id \in Customers => Given(reply.order.customer_id)
        BY GivenValues
      <3> QED BY <3>1 DEF ProceedsIffAcceptable, Acceptable, Given
    <2> QED BY GoesOnIffAcceptable DEF Inv
  <1> QED BY InvHolds, <1>1, PTL

\* The facts about an order that goes on.
LEMMA ProceedingState ==
    ASSUME Inv, node = "confirm_with_customer"
    PROVE  /\ reply.order.product_id \in DOMAIN Price
           /\ reply.order.customer_id \in Customers
           /\ st.intent.product_id = reply.order.product_id
           /\ st.intent.customer_id = reply.order.customer_id
           /\ st.quantity = reply.order.quantity
           /\ st.quantity \in 1 .. QuantityMax
           /\ st.total_amount = Price[reply.order.product_id] * reply.order.quantity
           /\ st.address \in Addresses
  <1>1. /\ reply \in Replies /\ GoesOn(reply) /\ st = Decision(reply)
    BY DEF Inv
  <1>2. Acceptable(reply) /\ Validates(reply)
    BY <1>1, GoesOnIffAcceptable, RefusedStops
  <1> QED BY <1>1, <1>2, AcceptedFields, ValidatesIff DEF Acceptable

\* The amount charged is the catalog's price times the quantity, whatever the
\* LLM claimed (_extract_intent, after _override_total_amount).
THEOREM CatalogSetsTheTotal == Spec => []TotalIsTheCatalogs
  <1>1. Inv => TotalIsTheCatalogs
    BY ProceedingState DEF TotalIsTheCatalogs
  <1> QED BY InvHolds, <1>1, PTL

\* What the instructions of an order that goes on ask for.
LEMMA InstructedCalls ==
    ASSUME Inv, node = "confirm_with_customer",
           NEW step \in {"reserve", "save", "release", "charge", "ship"}
    PROVE  /\ AskedFor(step).target = "known"
           /\ AskedFor(step).size = st.quantity /\ st.quantity \in 1 .. QuantityMax
           /\ AskedFor(step).amount = st.total_amount /\ st.total_amount \in Nat \ {0}
           /\ AskedFor(step).traced
           /\ AskedFor(step).allowed <=> (step = "ship" => st.address # "abroad")
           /\ AskedFor(step).present <=> step # "ship"
  <1>1. st.total_amount \in Nat \ {0} /\ st.quantity \in 1 .. QuantityMax
    <2>1. \A m, n \in Nat \ {0} : m * n \in Nat \ {0}
      OBVIOUS
    <2>2. /\ Price[reply.order.product_id] \in Nat \ {0}
          /\ reply.order.quantity \in Nat \ {0}
      BY ProceedingState, PriceAssumption, Limits
    <2> QED BY <2>1, <2>2, ProceedingState
  <1>2. Names(step)
    BY ProceedingState DEF Names
  <1> QED BY <1>1, <1>2 DEF AskedFor

LEMMA InstructedShipments ==
    ASSUME Inv, node = "confirm_with_customer"
    PROVE  /\ AskedFor("ship").traced /\ ~AskedFor("ship").present
           /\ ShippedWithAnId.traced
           /\ ShippedWithAnId.allowed <=> st.address # "abroad"
           /\ ShippedWithAnId.present <=> st.address # "incomplete"
  BY InstructedCalls DEF ShippedWithAnId, AskedFor

\* An order that goes on meets no refusal of its stock or its record; its
\* charge is refused above the ceiling of the payment service; its shipment,
\* after the charge, as it is instructed always, and with an order id of the
\* agent's own unless the address is complete, for any catalog.
THEOREM GuardrailsRefuseLate == Spec => []LaterRefusals
  <1>1. Inv => LaterRefusals
    <2> SUFFICES ASSUME Inv, node = "confirm_with_customer" PROVE LaterRefusals
      BY DEF LaterRefusals
    <2>1. ~Refuses("reserve_stock", AskedFor("reserve"))
      BY InstructedCalls, StockCalls DEF Refuses
    <2>2. ~Refuses("release_stock", AskedFor("release"))
      BY InstructedCalls, StockCalls DEF Refuses
    <2>3. ~Refuses("create_order", AskedFor("save"))
      <3> DEFINE a == AskedFor("save")
      <3>1. /\ a.traced /\ a.present /\ a.allowed /\ a.size \in 1 .. QuantityMax
            /\ a.amount \in Nat \ {0}
        BY InstructedCalls
      <3>2. /\ Passes("create_order", a)
            /\ Fine(Verdict("create_order", a, TRUE, FALSE))
        <4> HIDE DEF a
        <4> QED BY <3>1, OrderCalls
      <3> QED BY <3>2 DEF Refuses
    <2>4. Refuses("charge_customer", AskedFor("charge")) <=> st.total_amount > ChargeMax
      <3> DEFINE a == AskedFor("charge")
      <3>1. /\ a.traced /\ a.present /\ a.allowed /\ a.target = "known"
            /\ a.amount \in Nat \ {0} /\ a.amount = st.total_amount
        BY InstructedCalls
      <3>2. /\ Passes("charge_customer", a) <=> st.total_amount <= AutonomousMax
            /\ Fine(Verdict("charge_customer", a, TRUE, FALSE)) <=> st.total_amount <= ChargeMax
        <4> HIDE DEF a
        <4> QED BY <3>1, ChargeCalls
      <3>3. /\ st.total_amount > ChargeMax <=> ~(st.total_amount <= ChargeMax)
            /\ st.total_amount <= ChargeMax => st.total_amount <= AutonomousMax
        BY InstructedCalls, Limits
      <3> QED BY <3>2, <3>3, Zenon DEF Refuses
    <2>5. Refuses("create_shipment", AskedFor("ship"))
      BY InstructedShipments, ShipmentCalls DEF Refuses
    <2>6. Refuses("create_shipment", ShippedWithAnId) <=> st.address # "complete"
      BY InstructedShipments, ProceedingState, ShipmentCalls DEF Refuses, Addresses
    <2> QED BY <2>1, <2>2, <2>3, <2>4, <2>5, <2>6 DEF LaterRefusals
  <1> QED BY InvHolds, <1>1, PTL

(***************************************************************************)
(* The texts of the tools.                                                 *)
(***************************************************************************)
Telling == Marked \cup {"succeeded", "available"}

OfStock  == {200, 500}
OfCharge == {200, 402, 500}

LEMMA TellingTexts ==
    /\ \A http : CreateShipmentText(http) \in Telling /\ CreateOrderText(http) \in Telling
    /\ \A http : ReserveText(http) \in Telling /\ ReleaseText(http) \in Telling
    /\ \A http \in OfCharge : ChargeText(http) \in Telling
    /\ \A http \in OfStock : /\ CheckStockText(http, TRUE) \in Telling
                             /\ CheckStockText(http, FALSE) \in Telling
    /\ {"rate_limited", "rejected", "unreachable"} \subseteq Telling
  BY DEF Telling, Marked, CreateShipmentText, CreateOrderText, ReserveText, ReleaseText,
         ChargeText, CheckStockText, OfStock, OfCharge

\* It is enough to look at the answers of the service.
LEMMA TextsAreTelling ==
    ASSUME NEW tool, NEW a,
           TextsFor(tool, a, TRUE) \subseteq Telling,
           TextsFor(tool, a, FALSE) \subseteq Telling
    PROVE  TextsOf(tool, a) \subseteq Telling
  BY TellingTexts DEF TextsOf

LEMMA StockTexts ==
    ASSUME NEW a, a.target = "known"
    PROVE  \A tool \in StockTools : TextsOf(tool, a) \subseteq Telling
  <1>1. TextsOf("check_stock", a) \subseteq Telling
    <2>1. /\ Statuses("check_stock", a, TRUE, FALSE) = OfStock
          /\ Statuses("check_stock", a, FALSE, FALSE) = OfStock
      BY DEF Statuses, Verdict, CheckStock, OfStock
    <2>2. \A http : /\ Text("check_stock", http, TRUE) = CheckStockText(http, TRUE)
                    /\ Text("check_stock", http, FALSE) = CheckStockText(http, FALSE)
      BY DEF Text
    <2>3. \A http \in OfStock : /\ Text("check_stock", http, TRUE) \in Telling
                               /\ Text("check_stock", http, FALSE) \in Telling
      BY <2>2, TellingTexts
    <2>4. /\ TextsFor("check_stock", a, TRUE) \subseteq Telling
          /\ TextsFor("check_stock", a, FALSE) \subseteq Telling
      BY <2>1, <2>3 DEF TextsFor
    <2> QED BY <2>4, TextsAreTelling
  <1>2. TextsOf("reserve_stock", a) \subseteq Telling
    <2>1. \A http : /\ Text("reserve_stock", http, TRUE) \in Telling
                    /\ Text("reserve_stock", http, FALSE) \in Telling
      BY TellingTexts DEF Text
    <2>2. /\ TextsFor("reserve_stock", a, TRUE) \subseteq Telling
          /\ TextsFor("reserve_stock", a, FALSE) \subseteq Telling
      BY <2>1 DEF TextsFor
    <2> QED BY <2>2, TextsAreTelling
  <1>3. TextsOf("release_stock", a) \subseteq Telling
    <2>1. \A http : /\ Text("release_stock", http, TRUE) \in Telling
                    /\ Text("release_stock", http, FALSE) \in Telling
      BY TellingTexts DEF Text
    <2>2. /\ TextsFor("release_stock", a, TRUE) \subseteq Telling
          /\ TextsFor("release_stock", a, FALSE) \subseteq Telling
      BY <2>1 DEF TextsFor
    <2> QED BY <2>2, TextsAreTelling
  <1> QED BY <1>1, <1>2, <1>3 DEF StockTools

LEMMA ChargeTexts ==
    ASSUME NEW a, a.traced, a.present
    PROVE  TextsOf("charge_customer", a) \subseteq Telling
  <1>1. {Charge(a), 500} \subseteq OfCharge
    BY DEF Charge, ChargeValid, OfCharge
  <1>2. /\ Statuses("charge_customer", a, TRUE, FALSE) \subseteq OfCharge
        /\ Statuses("charge_customer", a, FALSE, FALSE) \subseteq OfCharge
    BY <1>1 DEF Statuses, Verdict
  <1>3. \A http : /\ Text("charge_customer", http, TRUE) = ChargeText(http)
                  /\ Text("charge_customer", http, FALSE) = ChargeText(http)
    BY DEF Text
  <1>4. \A http \in OfCharge : /\ Text("charge_customer", http, TRUE) \in Telling
                              /\ Text("charge_customer", http, FALSE) \in Telling
    BY <1>3, TellingTexts
  <1>5. /\ TextsFor("charge_customer", a, TRUE) \subseteq Telling
        /\ TextsFor("charge_customer", a, FALSE) \subseteq Telling
    BY <1>2, <1>4 DEF TextsFor
  <1> QED BY <1>5, TextsAreTelling

LEMMA RowTexts ==
    ASSUME NEW a
    PROVE  /\ TextsOf("create_shipment", a) \subseteq Telling
           /\ TextsOf("create_order", a) \subseteq Telling
  <1>1. \A http : /\ Text("create_shipment", http, TRUE) \in Telling
                  /\ Text("create_shipment", http, FALSE) \in Telling
                  /\ Text("create_order", http, TRUE) \in Telling
                  /\ Text("create_order", http, FALSE) \in Telling
    BY TellingTexts DEF Text
  <1>2. /\ TextsFor("create_shipment", a, TRUE) \subseteq Telling
        /\ TextsFor("create_shipment", a, FALSE) \subseteq Telling
        /\ TextsFor("create_order", a, TRUE) \subseteq Telling
        /\ TextsFor("create_order", a, FALSE) \subseteq Telling
    BY <1>1 DEF TextsFor
  <1> QED BY <1>2, TextsAreTelling

\* No call an accepted order instructs comes back with a text in which the
\* refusal goes unseen, for any catalog, customers and replies (the 422 of a
\* charge and the 404 of a product have no failure marker).
THEOREM RefusalsAreTold == Spec => []RefusalsAreMarked
  <1>1. Inv => RefusalsAreMarked
    <2> SUFFICES ASSUME Inv, node = "confirm_with_customer", NEW c \in Calls
                 PROVE  TextsOf(c[1], c[2]) \subseteq Telling
      BY DEF RefusalsAreMarked, Telling
    <2>1. /\ TextsOf("check_stock", AskedFor("reserve")) \subseteq Telling
          /\ TextsOf("reserve_stock", AskedFor("reserve")) \subseteq Telling
          /\ TextsOf("release_stock", AskedFor("release")) \subseteq Telling
      BY InstructedCalls, StockTexts DEF StockTools
    <2>2. TextsOf("charge_customer", AskedFor("charge")) \subseteq Telling
      BY InstructedCalls, ChargeTexts
    <2> QED BY <2>1, <2>2, RowTexts DEF Calls
  <1> QED BY InvHolds, <1>1, PTL

(***************************************************************************)
(* The types, and the node of the order workflow.                          *)
(***************************************************************************)
LEMMA ProductsAreNat == \A m, n \in Nat : m * n \in Nat
  OBVIOUS

\* The types of what the node decides.
LEMMA DecisionTypes ==
    ASSUME NEW r \in Replies
    PROVE  LET d == Decision(r)
           IN  /\ d.status \in {"unset", "pending_review"}
               /\ d.failure_reason \in {"unset", "intent"}
               /\ d.quantity \in 0 .. QuantityMax
               /\ d.address \in Addresses
               /\ d.total_amount \in Nat
  <1>1. CASE Validates(r)
    <2>1. /\ r.order.quantity \in 1 .. QuantityMax
          /\ r.order.unit_price \in Nat \ {0}
      BY <1>1, ValidatesIff
    <2>2. (IF r.order.product_id \in DOMAIN Price THEN Price[r.order.product_id]
           ELSE r.order.unit_price) \in Nat
      BY <2>1, PriceAssumption
    <2>3. Decision(r).total_amount \in Nat
      BY <1>1, <2>1, <2>2, AcceptedFields, ProductsAreNat, Limits
    <2>4. /\ Decision(r).status = "unset"
          /\ Decision(r).failure_reason \in {"unset", "intent"}
      BY <1>1 DEF Decision, Accepted, Unset
    <2> QED BY <1>1, <2>1, <2>3, <2>4, AcceptedFields, Limits
  <1>2. CASE ~Validates(r)
    BY <1>2, Limits DEF Decision, Refused, Unset, Addresses
  <1> QED BY <1>1, <1>2

\* The types of the state, for any catalog, customers and replies.
THEOREM StateTypes == Spec => []TypeOK
  <1>1. Inv => TypeOK
    <2> SUFFICES ASSUME Inv PROVE TypeOK
      OBVIOUS
    <2>1. reply \in Replies /\ reply.form \in Forms
      BY ReadingFields DEF Inv
    <2>2. CASE st = Unset
      BY <2>1, <2>2, Limits DEF TypeOK, Inv, Unset, Addresses
    <2>3. CASE st = Decision(reply)
      BY <2>1, <2>3, DecisionTypes DEF TypeOK, Inv
    <2>4. CASE st = [Decision(reply) EXCEPT !.status = "pending_review",
                                            !.failure_reason = "intent"]
      <3>1. /\ st.quantity = Decision(reply).quantity
            /\ st.address = Decision(reply).address
            /\ st.total_amount = Decision(reply).total_amount
        BY <2>4
      <3>2. st.status = "pending_review" /\ st.failure_reason = "intent"
        BY <2>4 DEF Decision, Accepted, Refused, Unset
      <3> QED BY <2>1, <3>1, <3>2, DecisionTypes DEF TypeOK, Inv
    <2> QED BY <2>2, <2>3, <2>4 DEF Inv
  <1> QED BY InvHolds, <1>1, PTL

\* The OrderState the workflow sees of the node's: four keys the node sets,
\* the others as before the run.
Row(intent, unclear, status, reason, no, unset, steps, result, told) ==
    [intent |-> intent, needs_clarification |-> unclear,
     status |-> status, failure_reason |-> reason,
     inventory_ok |-> no, payment_ok |-> no,
     transaction_id |-> no, tracking_id |-> no,
     order_id |-> unset, executed_steps |-> steps,
     result |-> result, confirmation |-> told]

Seen(s) ==
    Row(s.intent # NoIntent, s.needs_clarification, s.status, s.failure_reason,
        FALSE, "unset", <<>>, [k \in {} |-> {}], {})

LEMMA RefusedSeen ==
    \A known, confident \in BOOLEAN :
        Seen(Refused) = Workflow!Extracted(Seen(Unset), FALSE, known, confident)
  BY DEF Seen, Row, Refused, Unset, Workflow!Extracted

LEMMA AcceptedSeen ==
    ASSUME NEW r \in Replies, Validates(r)
    PROVE  LET guard == CheckInputIntent(ExtractedOrderIntent(r))
           IN  /\ guard.passed \in BOOLEAN /\ guard.needs_clarification \in BOOLEAN
               /\ Seen(Decision(r)) = Workflow!Extracted(Seen(Unset), TRUE, guard.passed,
                                                         ~guard.needs_clarification)
  <1> DEFINE i == ExtractedOrderIntent(r)
             guard == CheckInputIntent(i)
  <1>1. Decision(r) = Accepted(i)
    BY DEF Decision
  <1>2. i # NoIntent
    BY <1>1, AcceptedFields DEF Accepted, Unset
  <1>3. guard.passed \in BOOLEAN /\ guard.needs_clarification \in BOOLEAN
    BY DEF CheckInputIntent
  <1> HIDE DEF i
  <1>4. /\ Accepted(i).intent = i
        /\ Accepted(i).needs_clarification = NeedsClarification(guard)
        /\ Accepted(i).status = "unset"
        /\ Accepted(i).failure_reason = IF guard.passed THEN "unset" ELSE "intent"
    BY DEF Accepted, Unset
  <1> HIDE DEF guard
  <1>5. NeedsClarification(guard) = (~(~guard.needs_clarification) \/ ~guard.passed)
    BY <1>3 DEF NeedsClarification
  <1>6. /\ Unset.status = "unset" /\ Unset.failure_reason = "unset"
        /\ Unset.needs_clarification = FALSE /\ Unset.intent = NoIntent
    BY DEF Unset
  <1>7. Seen(Accepted(i)) = Workflow!Extracted(Seen(Unset), TRUE, guard.passed,
                                               ~guard.needs_clarification)
    BY <1>2, <1>4, <1>5, <1>6 DEF Seen, Row, Workflow!Extracted
  <1> QED BY <1>1, <1>3, <1>7 DEF guard, i

\* The maps of the refinement hold one value, that of the only order.
LEMMA OnlyOrder ==
    ASSUME NEW a, NEW b
    PROVE  [o \in {Order} |-> b] = [[o \in {Order} |-> a] EXCEPT ![Order] = b]
  OBVIOUS

LEMMA WorkflowRuns ==
    ASSUME NEW n \in {"extract_intent", "clarify"}, node = n
    PROVE  Workflow!Running(Order, n)
  BY DEF Workflow!Running

LEMMA WorkflowGoes ==
    ASSUME \/ node = "extract_intent" /\ node' \in {"clarify", "confirm_with_customer"}
           \/ node = "clarify" /\ node' = "format_response"
    PROVE  Workflow!Goto(Order, node')
  <1> DEFINE Hop(n) == CASE n = "extract_intent" -> 0
                         [] n = "format_response" -> 2
                         [] OTHER -> 1
  <1>1. Hop(node') = Hop(node) + 1
    OBVIOUS
  <1>2. [o \in {Order} |-> node'] = [[o \in {Order} |-> node] EXCEPT ![Order] = node']
    BY OnlyOrder
  <1>3. [o \in {Order} |-> Hop(node')]
          = [[o \in {Order} |-> Hop(node)] EXCEPT ![Order] = Hop(node) + 1]
    <2> HIDE DEF Hop
    <2> QED BY <1>1, OnlyOrder
  <1>4. Hop(node) = [o \in {Order} |-> Hop(node)][Order]
    OBVIOUS
  <1> QED BY <1>2, <1>3, <1>4 DEF Workflow!Goto

LEMMA ClarifySeen ==
    ASSUME NEW s, NEW t,
           t.status = "pending_review", t.failure_reason = "intent",
           t.intent = s.intent, t.needs_clarification = s.needs_clarification
    PROVE  Seen(t) = [Seen(s) EXCEPT !.status = "pending_review",
                                     !.failure_reason = "intent"]
  <1>1. PICK i, n, u, f, no, e, m, c :
           /\ i = (s.intent # NoIntent) /\ n = s.needs_clarification
           /\ u = s.status /\ f = s.failure_reason
           /\ no = FALSE /\ e = <<>> /\ m = [k \in {} |-> {}] /\ c = {}
    OBVIOUS
  <1> DEFINE before == Row(i, n, u, f, no, "unset", e, m, c)
             half == Row(i, n, "pending_review", f, no, "unset", e, m, c)
             after == Row(i, n, "pending_review", "intent", no, "unset", e, m, c)
  <1>2. Seen(s) = before /\ Seen(t) = after
    BY <1>1 DEF Seen
  <1>3. half = [before EXCEPT !.status = "pending_review"]
    BY DEF Row
  <1>4. after = [half EXCEPT !.failure_reason = "intent"]
    BY DEF Row
  <1> HIDE DEF before, half, after
  <1>5. after = [before EXCEPT !.status = "pending_review", !.failure_reason = "intent"]
    BY <1>3, <1>4, Zenon
  <1> QED BY <1>2, <1>5, Zenon

\* Every step of the node is a step of the order workflow's node: what the
\* workflow leaves open, the extraction decides (_extract_intent, _clarify).
THEOREM NodeOfTheWorkflow == Spec => ImplementsExtraction
  <1>1. ASSUME Inv, ExtractIntent PROVE Workflow!ExtractIntent(Order)
    <2>1. /\ st = Unset /\ reply \in Replies
          /\ st' = Decision(reply)
          /\ node = "extract_intent"
      BY <1>1 DEF Inv, ExtractIntent, Decision
    <2>2. \E valid, known, confident \in BOOLEAN :
             Seen(st') = Workflow!Extracted(Seen(st), valid, known, confident)
      <3>1. CASE Validates(reply)
        BY <2>1, <3>1, AcceptedSeen
      <3>2. CASE ~Validates(reply)
        BY <2>1, <3>2, RefusedSeen DEF Decision
      <3> QED BY <3>1, <3>2
    <2>3. node' = Workflow!AfterExtract(Seen(st'))
      BY <1>1 DEF ExtractIntent, Seen, Row, Workflow!AfterExtract
    <2>4. Workflow!Running(Order, "extract_intent")
      BY <2>1, WorkflowRuns
    <2>5. Workflow!Goto(Order, node')
      BY <2>1, <1>1, WorkflowGoes DEF ExtractIntent
    <2>6. [o \in {Order} |-> Seen(st')]
            = [[o \in {Order} |-> Seen(st)] EXCEPT ![Order] = Seen(st')]
      BY OnlyOrder
    <2>7. [o \in {Order} |-> Seen(st)][Order] = Seen(st)
      OBVIOUS
    <2> DEFINE before == [o \in {Order} |-> Seen(st)]
               after == [o \in {Order} |-> Seen(st')]
    <2>8. \E valid, known, confident \in BOOLEAN :
             LET s == Workflow!Extracted(before[Order], valid, known, confident)
             IN  after = [before EXCEPT ![Order] = s] /\ node' = Workflow!AfterExtract(s)
      BY <2>2, <2>3, <2>6, <2>7
    <2>9. \E valid, known, confident \in BOOLEAN :
             LET s == Workflow!Extracted(before[Order], valid, known, confident)
             IN  /\ after = [before EXCEPT ![Order] = s]
                 /\ Workflow!Goto(Order, Workflow!AfterExtract(s))
      BY <2>5, <2>8
    <2> QED BY <2>4, <2>9 DEF Workflow!ExtractIntent, Seen, Row
  <1>2. ASSUME Inv, Clarify PROVE Workflow!Clarify(Order)
    <2>1. node = "clarify" /\ node' = "format_response"
      BY <1>2 DEF Clarify
    <2>2. Workflow!Running(Order, "clarify") /\ Workflow!Goto(Order, "format_response")
      BY <2>1, WorkflowRuns, WorkflowGoes
    <2> DEFINE before == [o \in {Order} |-> Seen(st)]
               after == [o \in {Order} |-> Seen(st')]
    <2>3. {"status", "failure_reason"} \subseteq DOMAIN st
      <3>1. {"status", "failure_reason"} \subseteq DOMAIN Decision(reply)
        BY DEF Decision, Accepted, Refused, Unset
      <3>2. DOMAIN st = DOMAIN Decision(reply)
        BY <1>2, <2>1 DEF Inv
      <3> QED BY <3>1, <3>2
    <2>4. /\ st'.status = "pending_review" /\ st'.failure_reason = "intent"
          /\ st'.intent = st.intent
          /\ st'.needs_clarification = st.needs_clarification
      BY <1>2, <2>3 DEF Clarify
    <2>5. Seen(st') = [Seen(st) EXCEPT !.status = "pending_review",
                                       !.failure_reason = "intent"]
      BY <2>4, ClarifySeen
    <2>6. after = [before EXCEPT ![Order].status = "pending_review",
                                 ![Order].failure_reason = "intent"]
      BY <2>5, OnlyOrder
    <2> QED BY <2>2, <2>6 DEF Workflow!Clarify, Seen, Row
  <1>3. Inv /\ [Next]_vars => [Workflow!ExtractIntent(Order) \/ Workflow!Clarify(Order)]_vars
    BY <1>1, <1>2 DEF Next
  <1> QED BY InvHolds, <1>3, PTL DEF Spec, ImplementsExtraction

=============================================================================
