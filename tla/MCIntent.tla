------------------------------ MODULE MCIntent ------------------------------
(***************************************************************************)
(* An instance of Intent for TLC: two products, one customer, and replies  *)
(* with every field at and past the bounds of its checks, and with any one *)
(* or two fields null or of another type.                                  *)
(***************************************************************************)
EXTENDS Intent, TLC

MCPrice == ("WB-001" :> 1499) @@ ("WR-001" :> 4999)

Sensible ==
    [product_id |-> "WB-001", product_name |-> "Widget", customer_id |-> "C-001",
     shipping_method |-> "express", quantity |-> 3,
     unit_price |-> 1499, total_amount |-> 4497, delivery_date |-> Null,
     confidence_score |-> 95, address |-> "complete"]

Readings ==
    [product_id: {"WR-001", "XX-999", Null}, product_name: {"Widget"},
     shipping_method: {Null},
     customer_id: {"C-001", "DECLINE-TEST"},
     quantity: {Null, 0, 1, 201, QuantityMax, QuantityMax + 1},
     unit_price: {0, 1, 4999},
     total_amount: {Null, 5000, 5001},
     delivery_date: Dates \cup {Null},
     confidence_score: {89, 90, 100, 101},
     address: Addresses \cup {Null}]

Gaps ==
    {[Sensible EXCEPT ![k] = v, ![l] = w] :
        k, l \in DOMAIN Sensible, v, w \in {Null, Odd}}

MCReplies ==
    {[form |-> f, order |-> Sensible] : f \in Forms}
        \cup {[form |-> "object", order |-> x] : x \in Readings \cup Gaps}

=============================================================================
