---------------------------- MODULE OrderWorkflow ----------------------------
(***************************************************************************)
(* The order agent: the LangGraph workflow of agents/order_agent/graph.py  *)
(* run by the A2A executor of agents/order_agent/executor.py.  Each order  *)
(* is one A2A task and one run of the graph.  The peers it delegates to    *)
(* are LLM agents: all the graph sees of a call is a text, so a call is    *)
(* modelled by an outcome, namely whether its effect took place in the     *)
(* REST services and what the text looks like to the graph's parsers.      *)
(***************************************************************************)
EXTENDS Naturals, Sequences, Functions

CONSTANTS
    Orders,          \* the A2A tasks sent to the order agent
    Outcomes,        \* for each delegating node, the outcomes its call may have
    MayRaise,        \* the nodes whose await may raise (timeout, lost peer, LLM)
    MayCancel,       \* the tasks a client may cancel
    RecursionLimit   \* AGENT_MAX_RECURSION_LIMIT of the process that runs each task

\* The nodes that call a peer agent or the order MCP server.
CallNodes == {"check_inventory", "process_payment", "arrange_shipping",
              "rollback_inventory", "save_order", "send_notification"}

Nodes == CallNodes \cup {"extract_intent", "clarify", "confirm_with_customer",
                         "format_response"}

\* What _looks_successful tells apart in a text: nothing at all, a text with
\* one of the failure markers, a text with none.
Tones == {"empty", "marked", "unmarked"}

\* done: the effect took place; id: the text matches the identifier pattern.
Outcome == [done: BOOLEAN, tone: Tones, id: BOOLEAN]

ASSUME OutcomesAssumption == Outcomes \in [CallNodes -> SUBSET Outcome]
ASSUME MayRaiseAssumption == MayRaise \subseteq CallNodes \cup {"extract_intent"}
ASSUME MayCancelAssumption == MayCancel \subseteq Orders
ASSUME RecursionLimitAssumption == RecursionLimit \in [Orders -> Nat \ {0}]

\* Variant: only an empty reply counts as a failure.
AnyTextSuccessful(tone) == tone # "empty"

LooksSuccessful(tone) == tone = "unmarked"

\* The state key in which each delegating node leaves its reply.
ResultKeys == {"inventory_result", "payment_result", "shipping_result",
               "save_result", "notification_result"}

\* Variant: two nodes leave their replies in one key.
ResultKeyShared(n) ==
    CASE n \in {"check_inventory", "rollback_inventory"} -> "inventory_result"
      [] n = "process_payment"   -> "payment_result"
      [] n \in {"arrange_shipping", "save_order"} -> "shipping_result"
      [] n = "send_notification" -> "notification_result"

ResultKey(n) ==
    CASE n \in {"check_inventory", "rollback_inventory"} -> "inventory_result"
      [] n = "process_payment"   -> "payment_result"
      [] n = "arrange_shipping"  -> "shipping_result"
      [] n = "save_order"        -> "save_result"
      [] n = "send_notification" -> "notification_result"

NoReply == [by |-> "none", tone |-> "empty"]
Reply   == [by: CallNodes \cup {"none"}, tone: Tones]

Confirmation ==
    [status: {"confirmed", "failed", "pending_review"},
     order_id: {"record", "correlation", "invented"},
     transaction_id: BOOLEAN, tracking_id: BOOLEAN,
     amount: {"catalog", "invented"},
     failure_reason: {"unset", "intent", "inventory", "payment", "invented"}]

NoConfirmation == [status |-> "none"]

\* The keys of OrderState the workflow branches on or reports.  An identifier
\* is present or not; order_id "record" was read in the reply of save_order,
\* "correlation" is the fallback to the correlation id.
OrderState ==
    [intent: BOOLEAN, needs_clarification: BOOLEAN,
     status: {"unset", "confirmed", "failed", "pending_review"},
     failure_reason: {"unset", "intent", "inventory", "payment"},
     inventory_ok: BOOLEAN, payment_ok: BOOLEAN,
     transaction_id: BOOLEAN, tracking_id: BOOLEAN,
     order_id: {"unset", "record", "correlation"},
     executed_steps: Seq(CallNodes),
     result: [ResultKeys -> Reply],
     confirmation: Confirmation \cup {NoConfirmation}]

InitialState ==
    [intent |-> FALSE, needs_clarification |-> FALSE,
     status |-> "unset", failure_reason |-> "unset",
     inventory_ok |-> FALSE, payment_ok |-> FALSE,
     transaction_id |-> FALSE, tracking_id |-> FALSE,
     order_id |-> "unset", executed_steps |-> <<>>,
     result |-> [k \in ResultKeys |-> NoReply],
     confirmation |-> NoConfirmation]

VARIABLES
    task,     \* the A2A state of each task
    node,     \* the graph node about to run, or awaiting its call
    hops,     \* the nodes the run has executed
    st,       \* the OrderState of each run
    trail,    \* the audit_steps attached to a completed task
    audit,    \* the status of the executor's audit record
    done,     \* the calls whose effect took place in the REST services
    orphan    \* the calls the run gave up on and a peer still works on

vars == <<task, node, hops, st, trail, audit, done, orphan>>

Terminal(o) == task[o] \in {"completed", "failed", "canceled"}

Init ==
    /\ task = [o \in Orders |-> "none"]
    /\ node = [o \in Orders |-> "START"]
    /\ hops = [o \in Orders |-> 0]
    /\ st = [o \in Orders |-> InitialState]
    /\ trail = [o \in Orders |-> <<>>]
    /\ audit = [o \in Orders |-> "none"]
    /\ done = [o \in Orders |-> {}]
    /\ orphan = [o \in Orders |-> {}]

(***************************************************************************)
(* The executor before the graph runs.                                     *)
(***************************************************************************)
Submit(o) ==
    /\ task[o] = "none"
    /\ task' = [task EXCEPT ![o] = "submitted"]
    /\ UNCHANGED <<node, hops, st, trail, audit, done, orphan>>

StartWork(o) ==
    /\ task[o] = "submitted"
    /\ task' = [task EXCEPT ![o] = "working"]
    /\ node' = [node EXCEPT ![o] = "extract_intent"]
    /\ UNCHANGED <<hops, st, trail, audit, done, orphan>>

(***************************************************************************)
(* The nodes of the graph.                                                 *)
(***************************************************************************)
Running(o, n) ==
    /\ task[o] = "working"
    /\ node[o] = n
    /\ hops[o] < RecursionLimit[o]

\* The run leaves its node for the next one.
Goto(o, next) ==
    /\ node' = [node EXCEPT ![o] = next]
    /\ hops' = [hops EXCEPT ![o] = @ + 1]
    /\ UNCHANGED <<task, trail, audit, orphan>>

\* Variants: "or" taken for "and"; an inventory step retried until it works,
\* or not tested at all; a payment not tested, or not compensated.
AfterExtractBoth(s) ==
    IF s.needs_clarification /\ s.intent THEN "clarify" ELSE "confirm_with_customer"
AfterInventoryRetry(s) == IF s.inventory_ok THEN "process_payment" ELSE "check_inventory"
AfterInventoryAlways(s) == "process_payment"
AfterPaymentAlways(s) == "arrange_shipping"
AfterPaymentForget(s) == IF s.payment_ok THEN "arrange_shipping" ELSE "format_response"

AfterExtract(s) ==
    IF s.needs_clarification \/ ~s.intent THEN "clarify" ELSE "confirm_with_customer"

AfterInventory(s) == IF s.inventory_ok THEN "process_payment" ELSE "format_response"

AfterPayment(s) == IF s.payment_ok THEN "arrange_shipping" ELSE "rollback_inventory"

\* valid: the extraction parses and validates; known: check_input_intent
\* passes; confident: the confidence score reaches the threshold.
Extracted(s, valid, known, confident) ==
    IF valid
    THEN [s EXCEPT !.intent = TRUE,
                   !.needs_clarification = ~confident \/ ~known,
                   !.failure_reason = IF known THEN @ ELSE "intent"]
    ELSE [s EXCEPT !.needs_clarification = TRUE,
                   !.status = "pending_review",
                   !.failure_reason = "intent"]

ExtractIntent(o) ==
    /\ Running(o, "extract_intent")
    /\ \E valid, known, confident \in BOOLEAN :
          LET s == Extracted(st[o], valid, known, confident)
          IN  /\ st' = [st EXCEPT ![o] = s]
              /\ Goto(o, AfterExtract(s))
    /\ UNCHANGED done

Clarify(o) ==
    /\ Running(o, "clarify")
    /\ st' = [st EXCEPT ![o].status = "pending_review",
                        ![o].failure_reason = "intent"]
    /\ Goto(o, "format_response")
    /\ UNCHANGED done

ConfirmWithCustomer(o) ==
    /\ Running(o, "confirm_with_customer")
    /\ Goto(o, "check_inventory")
    /\ UNCHANGED <<st, done>>

\* The call of node n returned a text: its effect is there or not, and the
\* node's update appends n to executed_steps and stores the text.
Called(o, n, out) ==
    done' = [done EXCEPT ![o] = IF out.done THEN @ \cup {n} ELSE @]

Replied(s, n, out) ==
    [s EXCEPT !.executed_steps = Append(@, n),
              !.result = [@ EXCEPT ![ResultKey(n)] = [by |-> n, tone |-> out.tone]]]

InventoryChecked(s, out) ==
    LET ok == LooksSuccessful(out.tone)
        t  == [Replied(s, "check_inventory", out) EXCEPT !.inventory_ok = ok]
    IN  IF ok THEN t
        ELSE [t EXCEPT !.status = "failed", !.failure_reason = "inventory"]

CheckInventory(o) ==
    /\ Running(o, "check_inventory")
    /\ \E out \in Outcomes["check_inventory"] :
          LET s == InventoryChecked(st[o], out)
          IN  /\ Called(o, "check_inventory", out)
              /\ st' = [st EXCEPT ![o] = s]
              /\ Goto(o, AfterInventory(s))

PaymentProcessed(s, out) ==
    LET ok == LooksSuccessful(out.tone)
        t  == [Replied(s, "process_payment", out) EXCEPT !.payment_ok = ok,
                                                         !.transaction_id = out.id]
    IN  IF ok THEN t
        ELSE [t EXCEPT !.status = "failed", !.failure_reason = "payment"]

ProcessPayment(o) ==
    /\ Running(o, "process_payment")
    /\ \E out \in Outcomes["process_payment"] :
          LET s == PaymentProcessed(st[o], out)
          IN  /\ Called(o, "process_payment", out)
              /\ st' = [st EXCEPT ![o] = s]
              /\ Goto(o, AfterPayment(s))

\* The reply is never tested for success: only the tracking id is read from it.
ArrangeShipping(o) ==
    /\ Running(o, "arrange_shipping")
    /\ \E out \in Outcomes["arrange_shipping"] :
          /\ Called(o, "arrange_shipping", out)
          /\ st' = [st EXCEPT ![o] = [Replied(@, "arrange_shipping", out)
                                        EXCEPT !.tracking_id = out.id]]
          /\ Goto(o, "save_order")

\* Variants: a status outside OrderStatus; a step that is not recorded.
RolledBackStatus(s, out) ==
    [Replied(s, "rollback_inventory", out) EXCEPT !.status = "rolled_back"]
RolledBackUnlisted(s, out) ==
    [s EXCEPT !.status = "failed",
              !.result = [@ EXCEPT !["inventory_result"] =
                             [by |-> "rollback_inventory", tone |-> out.tone]]]

RolledBack(s, out) ==
    [Replied(s, "rollback_inventory", out) EXCEPT
        !.status = "failed",
        !.failure_reason = IF @ = "unset" THEN "payment" ELSE @]

RollbackInventory(o) ==
    /\ Running(o, "rollback_inventory")
    /\ \E out \in Outcomes["rollback_inventory"] :
          /\ Called(o, "rollback_inventory", out)
          /\ st' = [st EXCEPT ![o] = RolledBack(@, out)]
          /\ Goto(o, "format_response")

\* Variant: the tool accepts a missing identifier.
CanSaveAnything(s) == TRUE

\* create_order declares transaction_id and tracking_id as strings: a missing
\* one (None) is refused by the tool's argument validation, which raises.
CanSave(s) == s.transaction_id /\ s.tracking_id

SaveOrder(o) ==
    /\ Running(o, "save_order")
    /\ CanSave(st[o])
    /\ \E out \in Outcomes["save_order"] :
          /\ Called(o, "save_order", out)
          /\ st' = [st EXCEPT ![o] =
                [Replied(@, "save_order", out) EXCEPT
                    !.order_id = IF out.id THEN "record" ELSE "correlation"]]
          /\ Goto(o, "send_notification")

SendNotification(o) ==
    /\ Running(o, "send_notification")
    /\ \E out \in Outcomes["send_notification"] :
          /\ Called(o, "send_notification", out)
          /\ st' = [st EXCEPT ![o] = Replied(@, "send_notification", out)]
          /\ Goto(o, "format_response")

(***************************************************************************)
(* The terminal node: the LLM drafts the confirmation, the workflow state  *)
(* overrides it, the output guardrail checks it.                           *)
(***************************************************************************)
Deterministic(s) ==
    [status |-> IF s.status # "unset" THEN s.status
                ELSE IF s.payment_ok THEN "confirmed" ELSE "failed",
     order_id |-> IF s.order_id # "unset" THEN s.order_id ELSE "correlation",
     transaction_id |-> s.transaction_id,
     tracking_id |-> s.tracking_id,
     amount |-> "catalog",
     failure_reason |-> s.failure_reason]

\* Variant: the reason is left to the LLM.
AuthoritativeButReason(draft, s) ==
    LET a == Deterministic(s)
    IN  [draft EXCEPT !.status = a.status, !.order_id = a.order_id,
                      !.transaction_id = a.transaction_id,
                      !.tracking_id = a.tracking_id, !.amount = a.amount]

Authoritative(draft, s) ==
    LET a == Deterministic(s)
    IN  [draft EXCEPT !.status = a.status, !.failure_reason = a.failure_reason,
                      !.order_id = a.order_id,
                      !.transaction_id = a.transaction_id,
                      !.tracking_id = a.tracking_id, !.amount = a.amount]

CheckOutput(payload, s) ==
    /\ s.payment_ok => payload.amount = "catalog"
    /\ payload.status = "confirmed" => payload.transaction_id

\* What the customer is told: the draft with the workflow's values over it,
\* rebuilt from the workflow state when the guardrail flags it.
Payload(draft, s) ==
    IF CheckOutput(Authoritative(draft, s), s) THEN Authoritative(draft, s)
                                               ELSE Deterministic(s)

\* The drafts of two attempts: anything the schema accepts (the deterministic
\* fallback is one of them).
FormatResponse(o) ==
    /\ Running(o, "format_response")
    /\ \E draft \in Confirmation :
          LET payload == Payload(draft, st[o])
          IN  st' = [st EXCEPT ![o].confirmation = payload,
                               ![o].status = payload.status]
    /\ Goto(o, "END")
    /\ UNCHANGED done

(***************************************************************************)
(* The executor once the graph has returned, raised or been cancelled.     *)
(***************************************************************************)
\* One entry per executed step, showing what its result key holds at the end.
AuditSteps(s) ==
    [i \in 1 .. Len(s.executed_steps) |->
        [step |-> s.executed_steps[i],
         shown |-> s.result[ResultKey(s.executed_steps[i])]]]

Complete(o) ==
    /\ task[o] = "working" /\ node[o] = "END"
    /\ task' = [task EXCEPT ![o] = "completed"]
    /\ trail' = [trail EXCEPT ![o] = AuditSteps(st[o])]
    /\ audit' = [audit EXCEPT ![o] = "ok"]
    /\ UNCHANGED <<node, hops, st, done, orphan>>

\* The call a peer may be working on while the run awaits its node.
InFlight(o) ==
    {n \in CallNodes : Running(o, n) /\ (n = "save_order" => CanSave(st[o]))}

\* An exception leaves the graph: nothing of the node is kept and no node
\* compensates.  The call under way may survive in the peer.
Abort(o, survives) ==
    /\ task' = [task EXCEPT ![o] = "failed"]
    /\ audit' = [audit EXCEPT ![o] = "error"]
    /\ orphan' = [orphan EXCEPT ![o] = survives]
    /\ UNCHANGED <<node, hops, st, trail, done>>

Raise(o) ==
    /\ \E n \in MayRaise :
          /\ Running(o, n)
          /\ n = "save_order" => CanSave(st[o])
          /\ \E survives \in SUBSET InFlight(o) : Abort(o, survives)

\* Variant: the refusal is swallowed and the node awaits for ever.
SaveRefusalSwallowed(o) ==
    Running(o, "save_order") /\ ~CanSave(st[o]) /\ UNCHANGED vars

SaveRefused(o) ==
    /\ Running(o, "save_order")
    /\ ~CanSave(st[o])
    /\ Abort(o, {})

OutOfSteps(o) ==
    /\ task[o] = "working" /\ node[o] # "END"
    /\ hops[o] >= RecursionLimit[o]
    /\ Abort(o, {})

\* The A2A server cancels the running coroutine; CancelledError is no
\* Exception, so only the executor's finally clause runs.
Cancel(o) ==
    /\ o \in MayCancel
    /\ task[o] \in {"submitted", "working"}
    /\ task' = [task EXCEPT ![o] = "canceled"]
    /\ audit' = [audit EXCEPT ![o] = IF task[o] = "working" THEN "ok" ELSE @]
    /\ \E survives \in SUBSET InFlight(o) :
          orphan' = [orphan EXCEPT ![o] = survives]
    /\ UNCHANGED <<node, hops, st, trail, done>>

(***************************************************************************)
(* The peers after the run gave up on them.                                *)
(***************************************************************************)
LateEffect(o) ==
    \E n \in orphan[o] :
        /\ orphan' = [orphan EXCEPT ![o] = @ \ {n}]
        /\ done' = [done EXCEPT ![o] = @ \cup {n}]
        /\ UNCHANGED <<task, node, hops, st, trail, audit>>

LateLoss(o) ==
    \E n \in orphan[o] :
        /\ orphan' = [orphan EXCEPT ![o] = @ \ {n}]
        /\ UNCHANGED <<task, node, hops, st, trail, audit, done>>

Work(o) ==
    \/ StartWork(o) \/ ExtractIntent(o) \/ Clarify(o) \/ ConfirmWithCustomer(o)
    \/ CheckInventory(o) \/ ProcessPayment(o) \/ ArrangeShipping(o)
    \/ RollbackInventory(o) \/ SaveOrder(o) \/ SendNotification(o)
    \/ FormatResponse(o) \/ Complete(o) \/ Raise(o) \/ SaveRefused(o)
    \/ OutOfSteps(o)

Next ==
    \E o \in Orders :
        Submit(o) \/ Work(o) \/ Cancel(o) \/ LateEffect(o) \/ LateLoss(o)

Spec == Init /\ [][Next]_vars

\* Every await of a run is bounded by a timeout (call_peer_agent, the MCP
\* client), so a run that can go on does.  Peers owe nothing.
FairSpec == Spec /\ \A o \in Orders : WF_vars(Work(o))

(***************************************************************************)
(* Properties for any peers: whatever the calls do and reply.              *)
(***************************************************************************)
TypeOK ==
    /\ task \in [Orders -> {"none", "submitted", "working",
                            "completed", "failed", "canceled"}]
    /\ node \in [Orders -> Nodes \cup {"START", "END"}]
    /\ hops \in [Orders -> Nat]
    /\ \A o \in Orders : hops[o] <= RecursionLimit[o]
    /\ st \in [Orders -> OrderState]
    /\ DOMAIN trail = Orders
    /\ audit \in [Orders -> {"none", "ok", "error"}]
    /\ done \in [Orders -> SUBSET CallNodes]
    /\ orphan \in [Orders -> SUBSET CallNodes]

TellsOf(o, status) == st[o].confirmation.status = status
Told(o) == ~TellsOf(o, "none")

\* An order the customer is asked to clarify has touched nothing: no call took
\* effect and none is still under way (the clarify branch of _after_extract).
ReviewHasNoSideEffects ==
    \A o \in Orders :
        TellsOf(o, "pending_review") => done[o] = {} /\ orphan[o] = {}

\* A refused order goes no further: once the inventory or the payment reply
\* has failed the run, nothing is shipped, recorded or notified, not even
\* late (_after_inventory and _after_payment leave the happy path for good).
RejectionStopsTheSaga ==
    \A o \in Orders :
        st[o].status = "failed" =>
            (done[o] \cup orphan[o]) \subseteq
                {"check_inventory", "process_payment", "rollback_inventory"}

\* A confirmed order carries a transaction id and a tracking id, although the
\* graph tests neither: save_order is what stops an order lacking one.
ConfirmedCarriesIds ==
    \A o \in Orders :
        TellsOf(o, "confirmed") =>
            st[o].confirmation.transaction_id /\ st[o].confirmation.tracking_id

\* The customer is told the outcome of the run and its cause, whatever the LLM
\* drafts: confirmed without a reason when both gates passed, otherwise the
\* reason of the gate that refused (guardrail 5 in _format_response).
ConfirmationTellsTheRun ==
    \A o \in Orders :
        Told(o) =>
            LET c == st[o].confirmation
                s == st[o]
            IN  /\ c.status = "confirmed" <=> s.inventory_ok /\ s.payment_ok
                /\ c.failure_reason =
                      IF c.status = "confirmed" THEN "unset"
                      ELSE IF c.status = "pending_review" THEN "intent"
                      ELSE IF s.inventory_ok THEN "payment" ELSE "inventory"
                /\ c.amount = "catalog"

\* The audit trail of a completed task misses no effect: every call that took
\* effect, the release of a rollback included, is a step of the trail.
TrailMissesNoEffect ==
    \A o \in Orders :
        task[o] = "completed" =>
            done[o] \subseteq {trail[o][i].step : i \in DOMAIN trail[o]}

\* A step of the trail shows the reply to that step, but for the inventory
\* check of a rolled back order: its key holds the reply to the release.
TrailShowsTheReplies ==
    \A o \in Orders : \A i \in DOMAIN trail[o] :
        LET entry == trail[o][i]
        IN  entry.shown.by # entry.step =>
               /\ entry.step = "check_inventory"
               /\ entry.shown.by = "rollback_inventory"
               /\ st[o].failure_reason = "payment"

\* The recursion limit never interrupts an order half way: no path of the
\* graph needs more nodes than the default limit allows.
BudgetCoversEveryPath ==
    \A o \in Orders :
        task[o] = "working" /\ node[o] # "END" => hops[o] < RecursionLimit[o]

\* check_plan of guardrail_reasoning, which the workflow never calls: no step
\* but the rollback runs twice, payment follows the inventory check, shipping
\* follows payment.
First(steps, n) ==
    CHOOSE i \in DOMAIN steps :
        steps[i] = n /\ \A j \in DOMAIN steps : steps[j] = n => i <= j

Follows(steps, n, m) ==
    n \in Range(steps) => m \in Range(steps) /\ First(steps, m) < First(steps, n)

CheckPlan(steps) ==
    /\ \A i, j \in DOMAIN steps :
          steps[i] = steps[j] /\ steps[i] # "rollback_inventory" => i = j
    /\ Follows(steps, "process_payment", "check_inventory")
    /\ Follows(steps, "arrange_shipping", "process_payment")

\* The edges of the graph keep the plan guardrail 2 would check: on no path
\* would check_plan flag the steps a run executed.
EveryPlanIsSafe == \A o \in Orders : CheckPlan(st[o].executed_steps)

\* Every submitted order reaches a final A2A state, whatever its peers do.
EveryOrderIsAnswered ==
    \A o \in Orders : task[o] = "submitted" ~> Terminal(o)

(***************************************************************************)
(* Properties for peers whose replies can be trusted.                      *)
(***************************************************************************)
\* A text without a failure marker tells of a success, and so does one that
\* carries a tracking id.
HonestReplies ==
    /\ \A n \in {"check_inventory", "process_payment"} :
          \A out \in Outcomes[n] : out.tone = "unmarked" => out.done
    /\ \A out \in Outcomes["arrange_shipping"] : out.id => out.done

\* A payment reply that tells of a failure charged nobody.
HonestRefusals ==
    \A out \in Outcomes["process_payment"] : out.done => out.tone = "unmarked"

\* A reply to the release without a failure marker tells of stock set free.
HonestReleases ==
    \A out \in Outcomes["rollback_inventory"] : out.tone = "unmarked" => out.done

\* An order record stands on a reservation, a charge and a shipment that all
\* took place, and its stock has not been released.
RecordedOrderIsBacked ==
    \A o \in Orders :
        "save_order" \in done[o] =>
            /\ {"check_inventory", "process_payment", "arrange_shipping"} \subseteq done[o]
            /\ "rollback_inventory" \notin done[o] \cup orphan[o]

Held(o) == "check_inventory" \in done[o] /\ "rollback_inventory" \notin done[o]

\* An order reported as failed leaves the customer uncharged.  Stock the run
\* knows it reserved is free again, or the trail, where the graph put a reply
\* it never tested, says that the release was asked for and did not succeed.
FailureIsCompensated ==
    \A o \in Orders :
        task[o] = "completed" /\ TellsOf(o, "failed") =>
            /\ "process_payment" \notin done[o]
            /\ Held(o) /\ st[o].inventory_ok =>
                  \E i \in DOMAIN trail[o] :
                      /\ trail[o][i].step = "rollback_inventory"
                      /\ trail[o][i].shown.by = "rollback_inventory"
                      /\ trail[o][i].shown.tone # "unmarked"

\* The abstract promise: the workflow is a saga.
Phase(o) ==
    IF task[o] = "completed" THEN st[o].confirmation.status
    ELSE IF task[o] \in {"failed", "canceled"} THEN "aborted" ELSE "open"

Saga == INSTANCE OrderSaga WITH phase <- [o \in Orders |-> Phase(o)],
                                effects <- done, pending <- orphan

\* The effects of a run and its decision follow the saga: at most once, in
\* order, backed, and with at most one call in the air after an abort.
ImplementsSaga == Saga!SagaSpec

(***************************************************************************)
(* Statements of the repository the code does not keep.                    *)
(***************************************************************************)
\* README.md: the final confirmation is validated against what the REST
\* services returned.  A confirmed order would then have an order record.
ConfirmedIsRecorded ==
    \A o \in Orders : TellsOf(o, "confirmed") => "save_order" \in done[o]

\* docs/architecture.md: if payment fails after stock was reserved, the agent
\* releases the reservation before reporting failure, no orphaned holds.
NoOrphanedHold ==
    \A o \in Orders :
        /\ task[o] = "failed" /\ node[o] = "process_payment"
        /\ "process_payment" \notin done[o] \cup orphan[o]
        => ~Held(o)

=============================================================================
