--------------------------- MODULE OrderSagaProofs ---------------------------
(***************************************************************************)
(* For any orders, faults and recursion limit, and peers whose replies can *)
(* be trusted (HonestReplies, HonestRefusals): an order record is backed   *)
(* by its effects, and the workflow implements OrderSaga.                  *)
(***************************************************************************)
EXTENDS OrderWorkflowProofs

(***************************************************************************)
(* What trusted replies add to the invariant of a run: the calls that must *)
(* have happened before a node, and fewer that may have.                   *)
(***************************************************************************)
\* The gates a run has passed tell of what took place.
Owed(n, s) ==
    CASE n \in {"process_payment", "rollback_inventory"} -> {"check_inventory"}
      [] n = "arrange_shipping" -> {"check_inventory", "process_payment"}
      [] n = "save_order" -> {"check_inventory", "process_payment"}
                                \cup (IF s.tracking_id THEN {"arrange_shipping"} ELSE {})
      [] n = "send_notification" ->
            {"check_inventory", "process_payment", "arrange_shipping"}
      [] n \in {"format_response", "END"} /\ s.status \in {"unset", "confirmed"} ->
            {"check_inventory", "process_payment", "arrange_shipping"}
      [] OTHER -> {}

\* A refused payment charged nobody.
Allowed(n, s) ==
    CASE n = "rollback_inventory" -> {"check_inventory"}
      [] n \in {"format_response", "END"} /\ s.status = "failed" ->
            {"check_inventory", "rollback_inventory"}
      [] OTHER -> Before(n, s)

Interrupted(t) == t \in {"failed", "canceled"}

Backed(t, n, s, d, u) ==
    /\ u \subseteq {n}
    /\ d \cup u \subseteq Allowed(n, s) \cup (IF Interrupted(t) THEN {n} ELSE {})
    /\ Owed(n, s) \subseteq d
    /\ n = "save_order" /\ n \in d \cup u => CanSave(s)

BackedInv == \A o \in Orders : Backed(task[o], node[o], st[o], done[o], orphan[o])

HonestInv == RunInv /\ BackedInv

Honest == HonestReplies /\ HonestRefusals

SagaStep == [Saga!SagaNext]_(Saga!sagaVars)

(***************************************************************************)
(* Steps of the workflow as steps of the saga                              *)
(***************************************************************************)
LEMMA EffectsAreCalls == Saga!Effects = CallNodes
  BY DEF Saga!Effects, CallNodes

\* The call a run awaits is one the saga allows.
LEMMA CallIsPossible ==
    ASSUME NEW o \in Orders, NEW n \in CallNodes,
           done[o] \subseteq Allowed(n, st[o]), Owed(n, st[o]) \subseteq done[o],
           n = "save_order" => CanSave(st[o])
    PROVE  Saga!Possible(o, n)
  BY DEF CallNodes, Allowed, Owed, Before, CanSave, Saga!Possible, Saga!Needs,
         Saga!Reserved, Saga!Paid, Saga!Shipped

\* A node that moves on causes nothing, or one effect the saga allows.
LEMMA MoveIsSagaStep ==
    ASSUME TypeOK, TypeOK', NEW o \in Orders, NEW n, NEW next, NEW s, NEW d,
           Moves(o, n, next, s, d),
           \/ d = done[o]
           \/ \E e \in CallNodes : d = done[o] \cup {e} /\ Saga!Possible(o, e)
    PROVE  SagaStep
  <1>1. /\ [x \in Orders |-> Phase(x)]' = [x \in Orders |-> Phase(x)]
        /\ Phase(o) = "open"
    BY DEF Moves, Untouched, Phase
  <1>2. orphan' = orphan
    BY DEF TypeOK, Moves, Untouched
  <1>3. done' = [done EXCEPT ![o] = d]
    BY DEF TypeOK, Moves, Untouched
  <1>4. CASE d = done[o]
    <2>1. done' = done
      BY <1>3, <1>4 DEF TypeOK
    <2> QED BY <1>1, <1>2, <2>1 DEF SagaStep, Saga!sagaVars
  <1>5. CASE \E e \in CallNodes : d = done[o] \cup {e} /\ Saga!Possible(o, e)
    <2>1. Saga!Perform(o)
      BY <1>1, <1>2, <1>3, <1>5, EffectsAreCalls DEF Saga!Perform
    <2> QED BY <2>1 DEF SagaStep, Saga!SagaNext
  <1> QED BY <1>4, <1>5

\* What a call that has returned means for the saga.
LEMMA EffectIsPossible ==
    ASSUME NEW o \in Orders, NEW n \in CallNodes, NEW out,
           done[o] \subseteq Allowed(n, st[o]), Owed(n, st[o]) \subseteq done[o],
           n = "save_order" => CanSave(st[o])
    PROVE  LET d == Effect(done[o], n, out)
           IN  \/ d = done[o]
               \/ \E e \in CallNodes : d = done[o] \cup {e} /\ Saga!Possible(o, e)
  BY CallIsPossible DEF Effect

\* The node a run is at, before it moves.
LEMMA HonestStarts ==
    ASSUME HonestInv, NEW o \in Orders, NEW n, NEW next, NEW s, NEW d,
           Moves(o, n, next, s, d)
    PROVE  /\ TypeOK /\ st[o] \in OrderState /\ Good(n, st[o], done[o])
           /\ done[o] \subseteq Allowed(n, st[o])
           /\ Owed(n, st[o]) \subseteq done[o]
  BY MoveStarts DEF HonestInv, RunInv, BackedInv, Backed, Interrupted, Moves

LEMMA HonestEnds ==
    ASSUME HonestInv, RunInv', NEW o \in Orders, NEW n, NEW next, NEW s, NEW d,
           Moves(o, n, next, s, d),
           d \subseteq Allowed(next, s), Owed(next, s) \subseteq d
    PROVE  HonestInv'
  <1>1. orphan[o] = {}
    BY MoveStarts DEF HonestInv
  <1>2. next = "save_order" => next \notin d
    BY DEF Allowed, Before
  <1>3. Backed("working", next, s, d, {})
    BY <1>2 DEF Backed, Interrupted
  <1>4. Backed(task'[o], node'[o], st'[o], done'[o], orphan'[o])
    BY <1>1, <1>3 DEF Moves
  <1>5. ASSUME NEW x \in Orders, x # o
        PROVE  Backed(task'[x], node'[x], st'[x], done'[x], orphan'[x])
    BY <1>5 DEF HonestInv, BackedInv, Moves, Untouched
  <1> QED BY <1>4, <1>5 DEF HonestInv, BackedInv

\* A node that calls nobody.
LEMMA QuietNodeHonest ==
    ASSUME HonestInv, NEW o \in Orders,
           ExtractIntent(o) \/ Clarify(o) \/ ConfirmWithCustomer(o)
    PROVE  HonestInv' /\ SagaStep
  <1>1. TypeOK
    BY DEF HonestInv, RunInv
  <1>2. RunInv'
    BY ExtractIntentKeeps, ClarifyKeeps, ConfirmKeeps DEF HonestInv
  <1>3. PICK n \in {"extract_intent", "clarify", "confirm_with_customer"},
             next \in {"clarify", "confirm_with_customer", "check_inventory",
                       "format_response"}, s \in OrderState :
           /\ Moves(o, n, next, s, done[o])
           /\ next = "format_response" => s.status = "pending_review"
    BY <1>1, ExtractIntentMoves, ClarifyMoves, ConfirmMoves DEF TypeOK
  <1>4. done[o] \subseteq {}
    BY <1>3, HonestStarts DEF Allowed, Before
  <1>5. done[o] \subseteq Allowed(next, s) /\ Owed(next, s) \subseteq done[o]
    BY <1>3, <1>4 DEF Owed
  <1>6. HonestInv'
    BY <1>2, <1>3, <1>5, HonestEnds
  <1> QED BY <1>1, <1>2, <1>3, <1>6, MoveIsSagaStep DEF RunInv

LEMMA CheckInventoryHonest ==
    ASSUME Honest, HonestInv, NEW o \in Orders, CheckInventory(o)
    PROVE  HonestInv' /\ SagaStep
  <1>1. TypeOK /\ RunInv'
    BY CheckInventoryKeeps DEF HonestInv, RunInv
  <1>2. PICK out \in Outcomes["check_inventory"], s \in OrderState :
           /\ s = InventoryChecked(st[o], out)
           /\ Moves(o, "check_inventory", AfterInventory(s), s,
                    Effect(done[o], "check_inventory", out))
    BY <1>1, CheckInventoryMoves
  <1>3. /\ st[o] \in OrderState /\ out \in Outcome
        /\ done[o] \subseteq Allowed("check_inventory", st[o])
        /\ Owed("check_inventory", st[o]) \subseteq done[o]
    BY <1>2, HonestStarts, OutcomeTyped DEF CallNodes
  <1>4. /\ s.inventory_ok = (out.tone = "unmarked")
        /\ ~s.inventory_ok => s.status = "failed"
        /\ s.inventory_ok => out.done
    BY <1>2, <1>3, InventoryCheckedFacts DEF Honest, HonestReplies
  <1> DEFINE d == Effect(done[o], "check_inventory", out)
  <1>5. d \subseteq {"check_inventory"} /\ (out.done => "check_inventory" \in d)
    BY <1>3 DEF Allowed, Before, Effect
  <1>6. /\ d \subseteq Allowed(AfterInventory(s), s)
        /\ Owed(AfterInventory(s), s) \subseteq d
    BY <1>4, <1>5 DEF AfterInventory, Allowed, Owed, Before
  <1>7. HonestInv'
    BY <1>1, <1>2, <1>6, HonestEnds
  <1>8. \/ d = done[o]
        \/ \E e \in CallNodes : d = done[o] \cup {e} /\ Saga!Possible(o, e)
    BY <1>3, EffectIsPossible DEF CallNodes
  <1> QED BY <1>1, <1>2, <1>7, <1>8, MoveIsSagaStep DEF RunInv

LEMMA ProcessPaymentHonest ==
    ASSUME Honest, HonestInv, NEW o \in Orders, ProcessPayment(o)
    PROVE  HonestInv' /\ SagaStep
  <1>1. TypeOK /\ RunInv'
    BY ProcessPaymentKeeps DEF HonestInv, RunInv
  <1>2. PICK out \in Outcomes["process_payment"], s \in OrderState :
           /\ s = PaymentProcessed(st[o], out)
           /\ Moves(o, "process_payment", AfterPayment(s), s,
                    Effect(done[o], "process_payment", out))
    BY <1>1, ProcessPaymentMoves
  <1>3. /\ st[o] \in OrderState /\ out \in Outcome
        /\ done[o] \subseteq Allowed("process_payment", st[o])
        /\ Owed("process_payment", st[o]) \subseteq done[o]
    BY <1>2, HonestStarts, OutcomeTyped DEF CallNodes
  <1>4. /\ s.payment_ok = (out.tone = "unmarked")
        /\ s.payment_ok <=> out.done
    BY <1>2, <1>3, PaymentProcessedFacts
       DEF Honest, HonestReplies, HonestRefusals, Outcome
  <1> DEFINE d == Effect(done[o], "process_payment", out)
  <1>5. /\ d \subseteq {"check_inventory"} \cup (IF out.done THEN {"process_payment"} ELSE {})
        /\ "check_inventory" \in d
        /\ out.done => "process_payment" \in d
    BY <1>3 DEF Allowed, Before, Owed, Effect
  <1>6. /\ d \subseteq Allowed(AfterPayment(s), s)
        /\ Owed(AfterPayment(s), s) \subseteq d
    BY <1>4, <1>5 DEF AfterPayment, Allowed, Owed, Before
  <1>7. HonestInv'
    BY <1>1, <1>2, <1>6, HonestEnds
  <1>8. \/ d = done[o]
        \/ \E e \in CallNodes : d = done[o] \cup {e} /\ Saga!Possible(o, e)
    BY <1>3, EffectIsPossible DEF CallNodes
  <1> QED BY <1>1, <1>2, <1>7, <1>8, MoveIsSagaStep DEF RunInv

LEMMA ArrangeShippingHonest ==
    ASSUME Honest, HonestInv, NEW o \in Orders, ArrangeShipping(o)
    PROVE  HonestInv' /\ SagaStep
  <1>1. TypeOK /\ RunInv'
    BY ArrangeShippingKeeps DEF HonestInv, RunInv
  <1>2. PICK out \in Outcomes["arrange_shipping"], s \in OrderState :
           /\ s.tracking_id = out.id
           /\ Moves(o, "arrange_shipping", "save_order", s,
                    Effect(done[o], "arrange_shipping", out))
    BY <1>1, ArrangeShippingMoves
  <1>3. /\ done[o] \subseteq Allowed("arrange_shipping", st[o])
        /\ Owed("arrange_shipping", st[o]) \subseteq done[o]
    BY <1>2, HonestStarts
  <1>4. s.tracking_id => out.done
    BY <1>2 DEF Honest, HonestReplies
  <1> DEFINE d == Effect(done[o], "arrange_shipping", out)
  <1>5. d \subseteq Allowed("save_order", s) /\ Owed("save_order", s) \subseteq d
    BY <1>3, <1>4 DEF Allowed, Before, Owed, Effect
  <1>6. HonestInv'
    BY <1>1, <1>2, <1>5, HonestEnds
  <1>7. \/ d = done[o]
        \/ \E e \in CallNodes : d = done[o] \cup {e} /\ Saga!Possible(o, e)
    BY <1>3, EffectIsPossible DEF CallNodes
  <1> QED BY <1>1, <1>2, <1>6, <1>7, MoveIsSagaStep DEF RunInv

LEMMA RollbackInventoryHonest ==
    ASSUME HonestInv, NEW o \in Orders, RollbackInventory(o)
    PROVE  HonestInv' /\ SagaStep
  <1>1. TypeOK /\ RunInv'
    BY RollbackInventoryKeeps DEF HonestInv, RunInv
  <1>2. PICK out \in Outcomes["rollback_inventory"], s \in OrderState :
           /\ s = RolledBack(st[o], out)
           /\ Moves(o, "rollback_inventory", "format_response", s,
                    Effect(done[o], "rollback_inventory", out))
    BY <1>1, RollbackInventoryMoves
  <1>3. /\ st[o] \in OrderState /\ out \in Outcome
        /\ done[o] \subseteq Allowed("rollback_inventory", st[o])
        /\ Owed("rollback_inventory", st[o]) \subseteq done[o]
    BY <1>2, HonestStarts, OutcomeTyped DEF CallNodes
  <1>4. s.status = "failed"
    BY <1>2, <1>3, RolledBackFacts
  <1> DEFINE d == Effect(done[o], "rollback_inventory", out)
  <1>5. d \subseteq Allowed("format_response", s) /\ Owed("format_response", s) \subseteq d
    BY <1>3, <1>4 DEF Allowed, Owed, Effect
  <1>6. HonestInv'
    BY <1>1, <1>2, <1>5, HonestEnds
  <1>7. \/ d = done[o]
        \/ \E e \in CallNodes : d = done[o] \cup {e} /\ Saga!Possible(o, e)
    BY <1>3, EffectIsPossible DEF CallNodes
  <1> QED BY <1>1, <1>2, <1>6, <1>7, MoveIsSagaStep DEF RunInv

LEMMA SaveOrderHonest ==
    ASSUME HonestInv, NEW o \in Orders, SaveOrder(o)
    PROVE  HonestInv' /\ SagaStep
  <1>1. TypeOK /\ RunInv' /\ CanSave(st[o])
    BY SaveOrderKeeps, SaveOrderMoves DEF HonestInv, RunInv
  <1>2. PICK out \in Outcomes["save_order"], s \in OrderState :
           Moves(o, "save_order", "send_notification", s,
                 Effect(done[o], "save_order", out))
    BY <1>1, SaveOrderMoves
  <1>3. /\ done[o] \subseteq Allowed("save_order", st[o])
        /\ Owed("save_order", st[o]) \subseteq done[o]
    BY <1>2, HonestStarts
  <1> DEFINE d == Effect(done[o], "save_order", out)
  <1>5. /\ d \subseteq Allowed("send_notification", s)
        /\ Owed("send_notification", s) \subseteq d
    BY <1>1, <1>3 DEF Allowed, Before, Owed, Effect, CanSave
  <1>6. HonestInv'
    BY <1>1, <1>2, <1>5, HonestEnds
  <1>7. \/ d = done[o]
        \/ \E e \in CallNodes : d = done[o] \cup {e} /\ Saga!Possible(o, e)
    BY <1>1, <1>3, EffectIsPossible DEF CallNodes
  <1> QED BY <1>1, <1>2, <1>6, <1>7, MoveIsSagaStep DEF RunInv

LEMMA SendNotificationHonest ==
    ASSUME HonestInv, NEW o \in Orders, SendNotification(o)
    PROVE  HonestInv' /\ SagaStep
  <1>1. TypeOK /\ RunInv'
    BY SendNotificationKeeps DEF HonestInv, RunInv
  <1>2. PICK out \in Outcomes["send_notification"], s \in OrderState :
           /\ Kept(s, st[o])
           /\ Moves(o, "send_notification", "format_response", s,
                    Effect(done[o], "send_notification", out))
    BY <1>1, SendNotificationMoves
  <1>3. /\ Good("send_notification", st[o], done[o])
        /\ done[o] \subseteq Allowed("send_notification", st[o])
        /\ Owed("send_notification", st[o]) \subseteq done[o]
    BY <1>2, HonestStarts
  <1>4. s.status = "unset"
    BY <1>2, <1>3 DEF Good, StatusAt, Kept
  <1> DEFINE d == Effect(done[o], "send_notification", out)
  <1>5. /\ d \subseteq Allowed("format_response", s)
        /\ Owed("format_response", s) \subseteq d
    BY <1>3, <1>4 DEF Allowed, Before, Owed, Effect, CallNodes
  <1>6. HonestInv'
    BY <1>1, <1>2, <1>5, HonestEnds
  <1>7. \/ d = done[o]
        \/ \E e \in CallNodes : d = done[o] \cup {e} /\ Saga!Possible(o, e)
    BY <1>3, EffectIsPossible DEF CallNodes
  <1> QED BY <1>1, <1>2, <1>6, <1>7, MoveIsSagaStep DEF RunInv

LEMMA FormatResponseHonest ==
    ASSUME HonestInv, NEW o \in Orders, FormatResponse(o)
    PROVE  HonestInv' /\ SagaStep
  <1>1. TypeOK /\ RunInv'
    BY FormatResponseKeeps DEF HonestInv, RunInv
  <1>2. PICK draft \in Confirmation, s \in OrderState :
           /\ s = [st[o] EXCEPT !.confirmation = Payload(draft, st[o]),
                                !.status = Payload(draft, st[o]).status]
           /\ Moves(o, "format_response", "END", s, done[o])
    BY <1>1, FormatResponseMoves
  <1>3. /\ st[o] \in OrderState
        /\ Good("format_response", st[o], done[o])
        /\ done[o] \subseteq Allowed("format_response", st[o])
        /\ Owed("format_response", st[o]) \subseteq done[o]
    BY <1>2, HonestStarts
  <1>4. s.status = IF st[o].status # "unset" THEN st[o].status ELSE "confirmed"
    <2>1. /\ Payload(draft, st[o]) \in Confirmation
          /\ Payload(draft, st[o]).status =
                IF st[o].status # "unset" THEN st[o].status
                ELSE IF st[o].payment_ok THEN "confirmed" ELSE "failed"
      BY <1>3, PayloadFacts
    <2>2. s.status = Payload(draft, st[o]).status
      BY <1>2, <1>3, <2>1, ToldFacts
    <2>3. st[o].status = "unset" => st[o].payment_ok
      BY <1>3 DEF Good, EndsAt
    <2> QED BY <2>1, <2>2, <2>3
  <1>5. done[o] \subseteq Allowed("END", s) /\ Owed("END", s) \subseteq done[o]
    BY <1>3, <1>4 DEF Allowed, Before, Owed, Good, StatusAt
  <1>6. HonestInv'
    BY <1>1, <1>2, <1>5, HonestEnds
  <1> QED BY <1>1, <1>2, <1>6, MoveIsSagaStep DEF RunInv

(***************************************************************************)
(* The executor and the peers after a run                                  *)
(***************************************************************************)
LEMMA BackedStep ==
    ASSUME HonestInv, RunInv', NEW o \in Orders, Untouched(o),
           Backed(task'[o], node'[o], st'[o], done'[o], orphan'[o])
    PROVE  HonestInv'
  BY DEF HonestInv, BackedInv, Untouched

LEMMA StartHonest ==
    ASSUME HonestInv, NEW o \in Orders, Submit(o) \/ StartWork(o)
    PROVE  HonestInv' /\ SagaStep
  <1>1. TypeOK /\ RunInv'
    BY SubmitKeeps, StartWorkKeeps DEF HonestInv, RunInv
  <1>2. /\ task[o] \in {"none", "submitted"} /\ task'[o] \in {"submitted", "working"}
        /\ node'[o] \in {"extract_intent", node[o]} /\ st' = st
        /\ done' = done /\ orphan' = orphan /\ Untouched(o)
    BY <1>1 DEF Submit, StartWork, TypeOK, Untouched
  <1>3. /\ Path(task[o], node[o], st[o], done[o], orphan[o])
        /\ Backed(task[o], node[o], st[o], done[o], orphan[o])
    BY DEF HonestInv, RunInv, PathInv, BackedInv
  <1>4. node[o] = "START" /\ done[o] = {} /\ orphan[o] = {}
    BY <1>2, <1>3 DEF Path, Scope, Active, Before
  <1>5. Backed(task'[o], node'[o], st'[o], done'[o], orphan'[o])
    BY <1>2, <1>4 DEF Backed, Owed, Allowed, Before
  <1>6. [x \in Orders |-> Phase(x)]' = [x \in Orders |-> Phase(x)]
    BY <1>2 DEF Phase, Untouched
  <1>7. SagaStep
    BY <1>2, <1>6 DEF SagaStep, Saga!sagaVars
  <1> QED BY <1>1, <1>2, <1>5, <1>7, BackedStep

\* The decision a completed run tells is one its effects back.
LEMMA CompleteHonest ==
    ASSUME HonestInv, NEW o \in Orders, Complete(o)
    PROVE  HonestInv' /\ SagaStep
  <1>1. TypeOK /\ RunInv'
    BY CompleteKeeps DEF HonestInv, RunInv
  <1>2. /\ task[o] = "working" /\ task'[o] = "completed" /\ Untouched(o)
        /\ node[o] = "END" /\ node' = node /\ st' = st /\ done' = done /\ orphan' = orphan
    BY <1>1 DEF Complete, TypeOK, Untouched
  <1>3. /\ Path("working", "END", st[o], done[o], orphan[o])
        /\ Backed("working", "END", st[o], done[o], orphan[o])
    BY <1>2 DEF HonestInv, RunInv, PathInv, BackedInv
  <1>4. Backed(task'[o], node'[o], st'[o], done'[o], orphan'[o])
    BY <1>2, <1>3 DEF Backed, Interrupted
  <1>5. /\ done[o] \subseteq Allowed("END", st[o])
        /\ Owed("END", st[o]) \subseteq done[o]
        /\ st[o].confirmation.status = st[o].status
        /\ st[o].status \in {"confirmed", "failed", "pending_review"}
    BY <1>3 DEF Backed, Interrupted, Path, StatusAt, EndsAt
  <1> DEFINE decision == st[o].status
  <1>6. Saga!Backed(o, decision)
    BY <1>5 DEF Saga!Backed, Saga!Shipped, Saga!Paid, Saga!Reserved, Allowed, Before,
                Owed, CallNodes
  <1>7. /\ [x \in Orders |-> Phase(x)]'
              = [[x \in Orders |-> Phase(x)] EXCEPT ![o] = decision]
        /\ Phase(o) = "open"
    BY <1>2, <1>5 DEF Phase, Untouched
  <1>8. Saga!Decide(o)
    BY <1>2, <1>5, <1>6, <1>7 DEF Saga!Decide
  <1>9. SagaStep
    BY <1>8 DEF SagaStep, Saga!SagaNext
  <1> QED BY <1>1, <1>2, <1>4, <1>9, BackedStep

\* A run that is interrupted leaves at most the call it was awaiting.
LEMMA StopsHonest ==
    ASSUME HonestInv, NEW o \in Orders, NEW t \in {"failed", "canceled"},
           NEW u \in SUBSET InFlight(o), Stops(o, t, u)
    PROVE  HonestInv' /\ SagaStep
  <1>1. TypeOK /\ RunInv'
    BY StopsKeeps DEF HonestInv, RunInv
  <1>2. /\ task[o] \in {"submitted", "working"} /\ task'[o] = t /\ Untouched(o)
        /\ node' = node /\ st' = st /\ done' = done
        /\ orphan' = [orphan EXCEPT ![o] = u] /\ orphan'[o] = u
    BY <1>1 DEF TypeOK, Stops, Untouched
  <1>3. /\ u \subseteq {node[o]} \cap CallNodes
        /\ u # {} /\ node[o] = "save_order" => CanSave(st[o])
    BY DEF InFlight, Running
  <1>4. /\ Path(task[o], node[o], st[o], done[o], orphan[o])
        /\ Backed(task[o], node[o], st[o], done[o], orphan[o])
    BY DEF HonestInv, RunInv, PathInv, BackedInv
  <1>5. /\ orphan[o] = {}
        /\ done[o] \subseteq Allowed(node[o], st[o])
        /\ Owed(node[o], st[o]) \subseteq done[o]
    BY <1>2, <1>4 DEF Path, Active, Backed, Interrupted
  <1>6. node[o] = "save_order" => "save_order" \notin done[o]
    BY <1>5 DEF Allowed, Before
  <1>7. Backed(t, node[o], st[o], done[o], u)
    BY <1>3, <1>5, <1>6 DEF Backed, Interrupted
  <1>8. Backed(task'[o], node'[o], st'[o], done'[o], orphan'[o])
    BY <1>2, <1>7
  <1>9. /\ [x \in Orders |-> Phase(x)]'
              = [[x \in Orders |-> Phase(x)] EXCEPT ![o] = "aborted"]
        /\ Phase(o) = "open"
    BY <1>2 DEF Phase, Untouched
  <1>10. CASE u = {}
    <2>1. orphan' = orphan
      BY <1>1, <1>2, <1>5, <1>10 DEF TypeOK
    <2>2. Saga!GiveUp(o)
      BY <1>2, <1>9, <2>1 DEF Saga!GiveUp
    <2> QED BY <1>1, <1>2, <1>8, <2>2, BackedStep DEF SagaStep, Saga!SagaNext
  <1>11. CASE u # {}
    <2>1. u = {node[o]} /\ node[o] \in CallNodes
      BY <1>3, <1>11
    <2>2. Saga!Possible(o, node[o])
      BY <1>3, <1>5, <1>11, <2>1, CallIsPossible
    <2>3. \E e \in Saga!Effects :
             Saga!Possible(o, e) /\ orphan' = [orphan EXCEPT ![o] = {e}]
      BY <1>2, <2>1, <2>2, EffectsAreCalls
    <2>4. Saga!GiveUp(o)
      BY <1>2, <1>9, <2>3 DEF Saga!GiveUp
    <2> QED BY <1>1, <1>2, <1>8, <2>4, BackedStep DEF SagaStep, Saga!SagaNext
  <1> QED BY <1>10, <1>11

LEMMA InterruptedHonest ==
    ASSUME HonestInv, NEW o \in Orders,
           Raise(o) \/ SaveRefused(o) \/ OutOfSteps(o) \/ Cancel(o)
    PROVE  HonestInv' /\ SagaStep
  <1>1. PICK t \in {"failed", "canceled"} :
           \E u \in SUBSET InFlight(o) : Stops(o, t, u)
    BY InterruptedStops DEF HonestInv, RunInv
  <1> QED BY <1>1, StopsHonest

\* What was left in the air happens or is lost.
LEMMA LateHonest ==
    ASSUME HonestInv, NEW o \in Orders, LateEffect(o) \/ LateLoss(o)
    PROVE  HonestInv' /\ SagaStep
  <1>1. TypeOK /\ RunInv'
    BY LateKeeps DEF HonestInv, RunInv
  <1>2. PICK n \in orphan[o] :
           /\ orphan' = [orphan EXCEPT ![o] = @ \ {n}]
           /\ done' \in {done, [done EXCEPT ![o] = @ \cup {n}]}
           /\ UNCHANGED <<task, node, hops, st, trail, audit>>
    BY DEF LateEffect, LateLoss
  <1>3. /\ Path(task[o], node[o], st[o], done[o], orphan[o])
        /\ Backed(task[o], node[o], st[o], done[o], orphan[o])
    BY DEF HonestInv, RunInv, PathInv, BackedInv
  <1>4. orphan[o] = {n} /\ n = node[o]
    BY <1>3 DEF Backed
  <1>5. Interrupted(task[o])
    BY <1>1, <1>3 DEF Path, Active, Interrupted, TypeOK
  <1>6. /\ Untouched(o) /\ orphan'[o] = {}
        /\ orphan' = [orphan EXCEPT ![o] = {}]
        /\ done'[o] \in {done[o], done[o] \cup orphan[o]}
        /\ done' \in {done, [done EXCEPT ![o] = @ \cup orphan[o]]}
    BY <1>1, <1>2, <1>4, ZenonT(60) DEF Untouched, TypeOK
  <1>7. Backed(task[o], node[o], st[o], done'[o], {})
    BY <1>3, <1>6 DEF Backed
  <1>8. Backed(task'[o], node'[o], st'[o], done'[o], orphan'[o])
    BY <1>2, <1>6, <1>7
  <1>9. /\ [x \in Orders |-> Phase(x)]' = [x \in Orders |-> Phase(x)]
        /\ Phase(o) = "aborted"
    BY <1>2, <1>5 DEF Phase, Interrupted
  <1>10. Saga!Late(o)
    BY <1>2, <1>6, <1>9 DEF Saga!Late
  <1>11. SagaStep
    BY <1>10 DEF SagaStep, Saga!SagaNext
  <1> QED BY <1>1, <1>6, <1>8, <1>11, BackedStep

(***************************************************************************)
(* The theorems, for peers whose replies can be trusted                    *)
(***************************************************************************)
LEMMA HonestInit == Init => HonestInv /\ Saga!SagaInit
  <1> SUFFICES ASSUME Init PROVE HonestInv /\ Saga!SagaInit
    OBVIOUS
  <1>1. RunInv
    BY RunInvInit
  <1>2. BackedInv
    BY DEF Init, BackedInv, Backed, Owed, Allowed, Before
  <1>3. Saga!SagaInit
    BY DEF Init, Saga!SagaInit, Phase
  <1> QED BY <1>1, <1>2, <1>3 DEF HonestInv

LEMMA HonestNext ==
    ASSUME Honest, HonestInv, [Next]_vars
    PROVE  HonestInv' /\ SagaStep
  <1>1. CASE UNCHANGED vars
    <2>1. HonestInv'
      BY <1>1, RunInvNext DEF vars, HonestInv, BackedInv
    <2>2. UNCHANGED Saga!sagaVars
      BY <1>1 DEF vars, Saga!sagaVars, Phase
    <2> QED BY <2>1, <2>2 DEF SagaStep
  <1>2. ASSUME NEW o \in Orders,
               Submit(o) \/ Work(o) \/ Cancel(o) \/ LateEffect(o) \/ LateLoss(o)
        PROVE  HonestInv' /\ SagaStep
    BY <1>2, StartHonest, QuietNodeHonest, CheckInventoryHonest, ProcessPaymentHonest,
       ArrangeShippingHonest, RollbackInventoryHonest, SaveOrderHonest,
       SendNotificationHonest, FormatResponseHonest, CompleteHonest, InterruptedHonest,
       LateHonest DEF Work
  <1> QED BY <1>1, <1>2 DEF Next

\* The invariant that trusted replies add to RunInv.
LEMMA HonestHolds ==
    ASSUME Honest
    PROVE  Spec => []HonestInv
  <1>1. Init => HonestInv
    BY HonestInit
  <1>2. HonestInv /\ [Next]_vars => HonestInv'
    BY HonestNext
  <1> QED BY <1>1, <1>2, PTL DEF Spec

\* save_order: a record stands on a reservation, a charge and a shipment, and
\* its stock is not released, wherever the run was interrupted.
THEOREM RecordIsBacked ==
    ASSUME HonestReplies, HonestRefusals
    PROVE  Spec => []RecordedOrderIsBacked
  <1>1. Honest
    BY DEF Honest
  <1>2. HonestInv => RecordedOrderIsBacked
    <2> SUFFICES ASSUME HonestInv, NEW o \in Orders, "save_order" \in done[o]
                 PROVE  /\ {"check_inventory", "process_payment", "arrange_shipping"}
                              \subseteq done[o]
                        /\ "rollback_inventory" \notin done[o] \cup orphan[o]
      BY DEF RecordedOrderIsBacked
    <2>1. /\ Backed(task[o], node[o], st[o], done[o], orphan[o])
          /\ EndsAt(node[o], st[o]) /\ StatusAt(node[o], st[o])
          /\ node[o] \in Nodes \cup {"START", "END"}
      BY DEF HonestInv, BackedInv, RunInv, PathInv, Path, TypeOK
    <2>2. \/ node[o] = "send_notification"
          \/ node[o] \in {"format_response", "END"} /\ st[o].status \in {"unset", "confirmed"}
          \/ node[o] = "save_order" /\ CanSave(st[o])
      BY <2>1 DEF Backed, Allowed, Before, EndsAt, Interrupted, Nodes, CallNodes
    <2> QED BY <2>1, <2>2 DEF Backed, Allowed, Before, Owed, CanSave, CallNodes
  <1> QED BY <1>1, <1>2, HonestHolds, PTL

\* The workflow is a saga: at most once, in order, backed decisions, at most
\* one call in the air after an interruption.
THEOREM WorkflowImplementsSaga ==
    ASSUME HonestReplies, HonestRefusals
    PROVE  Spec => ImplementsSaga
  <1>1. Honest
    BY DEF Honest
  <1>2. Init => Saga!SagaInit
    BY HonestInit
  <1>3. HonestInv /\ [Next]_vars => [Saga!SagaNext]_(Saga!sagaVars)
    BY <1>1, HonestNext DEF SagaStep
  <1>4. Spec => Saga!SagaSpec
    BY <1>1, <1>2, <1>3, HonestHolds, PTL DEF Spec, Saga!SagaSpec
  <1> QED BY <1>4 DEF ImplementsSaga

=============================================================================
