--------------------------- MODULE MCOrderWorkflow ---------------------------
(***************************************************************************)
(* Instances of OrderWorkflow for TLC: sets of outcomes, from peers that   *)
(* reply anything to peers whose replies can be trusted.                   *)
(***************************************************************************)
EXTENDS OrderWorkflow, TLC

CONSTANTS o1, o2

\* The default of the settings, and a limit that ends the run after a node.
DefaultLimit == o1 :> 15
DefaultAndTight == (o1 :> 15) @@ (o2 :> 1)

\* The nodes whose reply is searched for an identifier.
IdNodes == {"process_payment", "arrange_shipping", "save_order"}

\* Any effect with any reply.
AnyOutcomes ==
    [n \in CallNodes |-> {out \in Outcome : n \notin IdNodes => ~out.id}]

Success(withId) == [done |-> TRUE, tone |-> "unmarked", id |-> withId]
Refusal == [done |-> FALSE, tone |-> "marked", id |-> FALSE]

\* Everything HonestReplies, HonestRefusals and HonestReleases allow: records
\* and notifications may still say and do anything, and releases may fail.
TrustedOutcomes ==
    [n \in CallNodes |->
        {out \in AnyOutcomes[n] :
            /\ n \in {"check_inventory", "process_payment", "rollback_inventory"} =>
                  (out.tone = "unmarked" => out.done)
            /\ n = "process_payment" => (out.done => out.tone = "unmarked")
            /\ n = "arrange_shipping" => (out.id => out.done)}]

\* Replies that tell the truth about calls that may be refused.
TruthfulOutcomes ==
    [n \in CallNodes |-> {Refusal, Success(n \in IdNodes)}]

Everywhere == CallNodes \cup {"extract_intent"}
Nowhere == {}

=============================================================================
