------------------------- MODULE OrderWorkflowProofs -------------------------
(***************************************************************************)
(* Theorems about OrderWorkflow for any number of orders, any outcomes of  *)
(* the calls, any faults and any recursion limit.                          *)
(***************************************************************************)
EXTENDS OrderWorkflow, TLAPS

(***************************************************************************)
(* What the nodes do to the workflow state.                                *)
(***************************************************************************)
LEMMA InitialStateTyped == InitialState \in OrderState
  <1>1. [k \in ResultKeys |-> NoReply] \in [ResultKeys -> Reply]
    BY DEF NoReply, Reply, Tones
  <1>2. <<>> \in Seq(CallNodes)
    OBVIOUS
  <1>3. NoConfirmation \in Confirmation \cup {NoConfirmation}
    OBVIOUS
  <1> QED BY <1>1, <1>2, <1>3 DEF InitialState, OrderState

LEMMA ResultKeyTyped == \A n \in CallNodes : ResultKey(n) \in ResultKeys
  BY DEF CallNodes, ResultKey, ResultKeys

\* The keys the gates, the guards and the confirmation read.
Kept(t, s) ==
    /\ t.confirmation = s.confirmation /\ t.status = s.status
    /\ t.failure_reason = s.failure_reason
    /\ t.inventory_ok = s.inventory_ok /\ t.payment_ok = s.payment_ok
    /\ t.transaction_id = s.transaction_id /\ t.tracking_id = s.tracking_id

\* The record of a run: the steps it executed and the replies it kept.
SameRecord(t, s) == t.executed_steps = s.executed_steps /\ t.result = s.result

Records(t, s, n, out) ==
    /\ t.executed_steps = Append(s.executed_steps, n)
    /\ t.result = [s.result EXCEPT ![ResultKey(n)] = [by |-> n, tone |-> out.tone]]

LEMMA RepliedFacts ==
    ASSUME NEW s \in OrderState, NEW n \in CallNodes, NEW out \in Outcome
    PROVE  /\ Replied(s, n, out) \in OrderState
           /\ Kept(Replied(s, n, out), s) /\ Records(Replied(s, n, out), s, n, out)
  <1>1. [s.result EXCEPT ![ResultKey(n)] = [by |-> n, tone |-> out.tone]]
            \in [ResultKeys -> Reply]
    BY ResultKeyTyped DEF OrderState, Reply, Outcome
  <1>2. Append(s.executed_steps, n) \in Seq(CallNodes)
    BY DEF OrderState
  <1> QED BY <1>1, <1>2 DEF Replied, OrderState, Kept, Records

LEMMA InventoryCheckedFacts ==
    ASSUME NEW s \in OrderState, NEW out \in Outcome
    PROVE  LET t == InventoryChecked(s, out)
           IN  /\ t \in OrderState
               /\ t.inventory_ok = (out.tone = "unmarked")
               /\ t.payment_ok = s.payment_ok
               /\ t.confirmation = s.confirmation
               /\ t.inventory_ok => /\ t.status = s.status
                                    /\ t.failure_reason = s.failure_reason
               /\ ~t.inventory_ok => t.status = "failed" /\ t.failure_reason = "inventory"
               /\ Records(t, s, "check_inventory", out)
  <1> DEFINE r == Replied(s, "check_inventory", out)
  <1>1. r \in OrderState /\ Kept(r, s) /\ Records(r, s, "check_inventory", out)
    BY RepliedFacts DEF CallNodes
  <1> HIDE DEF r
  <1> DEFINE t == [r EXCEPT !.inventory_ok = (out.tone = "unmarked")]
  <1>2. /\ t \in OrderState /\ t.inventory_ok = (out.tone = "unmarked")
        /\ t.payment_ok = s.payment_ok /\ t.confirmation = s.confirmation
        /\ t.status = s.status /\ t.failure_reason = s.failure_reason
        /\ SameRecord(t, r)
    BY <1>1 DEF OrderState, Kept, SameRecord
  <1> HIDE DEF t
  <1>3. CASE out.tone = "unmarked"
    <2>1. InventoryChecked(s, out) = t
      BY <1>3 DEF InventoryChecked, LooksSuccessful, t, r
    <2> QED BY <1>1, <1>2, <1>3, <2>1 DEF SameRecord, Records
  <1>4. CASE out.tone # "unmarked"
    <2>1. InventoryChecked(s, out)
             = [t EXCEPT !.status = "failed", !.failure_reason = "inventory"]
      BY <1>4 DEF InventoryChecked, LooksSuccessful, t, r
    <2>2. SameRecord(InventoryChecked(s, out), t)
      BY <1>2, <2>1, ZenonT(60) DEF OrderState, SameRecord
    <2>3. Records(InventoryChecked(s, out), s, "check_inventory", out)
      BY <1>1, <1>2, <2>2 DEF SameRecord, Records
    <2> QED BY <1>2, <1>4, <2>1, <2>3, ZenonT(60) DEF OrderState
  <1> QED BY <1>3, <1>4

LEMMA PaymentProcessedFacts ==
    ASSUME NEW s \in OrderState, NEW out \in Outcome
    PROVE  LET t == PaymentProcessed(s, out)
           IN  /\ t \in OrderState
               /\ t.payment_ok = (out.tone = "unmarked")
               /\ t.inventory_ok = s.inventory_ok
               /\ t.confirmation = s.confirmation
               /\ t.payment_ok => /\ t.status = s.status
                                  /\ t.failure_reason = s.failure_reason
               /\ ~t.payment_ok => t.status = "failed" /\ t.failure_reason = "payment"
               /\ Records(t, s, "process_payment", out)
  <1> DEFINE r == Replied(s, "process_payment", out)
  <1>1. r \in OrderState /\ Kept(r, s) /\ Records(r, s, "process_payment", out)
    BY RepliedFacts DEF CallNodes
  <1> HIDE DEF r
  <1> DEFINE t == [r EXCEPT !.payment_ok = (out.tone = "unmarked"),
                            !.transaction_id = out.id]
  <1>2. /\ t \in OrderState /\ t.payment_ok = (out.tone = "unmarked")
        /\ t.inventory_ok = s.inventory_ok /\ t.confirmation = s.confirmation
        /\ t.status = s.status /\ t.failure_reason = s.failure_reason
        /\ SameRecord(t, r)
    BY <1>1 DEF OrderState, Outcome, Kept, SameRecord
  <1> HIDE DEF t
  <1>3. CASE out.tone = "unmarked"
    <2>1. PaymentProcessed(s, out) = t
      BY <1>3 DEF PaymentProcessed, LooksSuccessful, t, r
    <2> QED BY <1>1, <1>2, <1>3, <2>1 DEF SameRecord, Records
  <1>4. CASE out.tone # "unmarked"
    <2>1. PaymentProcessed(s, out)
             = [t EXCEPT !.status = "failed", !.failure_reason = "payment"]
      BY <1>4 DEF PaymentProcessed, LooksSuccessful, t, r
    <2>2. SameRecord(PaymentProcessed(s, out), t)
      BY <1>2, <2>1, ZenonT(60) DEF OrderState, SameRecord
    <2>3. Records(PaymentProcessed(s, out), s, "process_payment", out)
      BY <1>1, <1>2, <2>2 DEF SameRecord, Records
    <2> QED BY <1>2, <1>4, <2>1, <2>3, ZenonT(60) DEF OrderState
  <1> QED BY <1>3, <1>4

LEMMA RolledBackFacts ==
    ASSUME NEW s \in OrderState, NEW out \in Outcome
    PROVE  LET t == RolledBack(s, out)
           IN  /\ t \in OrderState
               /\ t.confirmation = s.confirmation
               /\ t.status = "failed"
               /\ t.failure_reason = IF s.failure_reason = "unset" THEN "payment"
                                     ELSE s.failure_reason
               /\ t.inventory_ok = s.inventory_ok /\ t.payment_ok = s.payment_ok
               /\ Records(t, s, "rollback_inventory", out)
  <1> DEFINE r == Replied(s, "rollback_inventory", out)
  <1>1. r \in OrderState /\ Kept(r, s) /\ Records(r, s, "rollback_inventory", out)
    BY RepliedFacts DEF CallNodes
  <1>2. RolledBack(s, out) =
           [r EXCEPT !.status = "failed",
                     !.failure_reason = IF r.failure_reason = "unset" THEN "payment"
                                        ELSE r.failure_reason]
    BY DEF RolledBack
  <1> HIDE DEF r
  <1> DEFINE why == IF r.failure_reason = "unset" THEN "payment" ELSE r.failure_reason
  <1>3. why \in {"unset", "intent", "inventory", "payment"}
    BY <1>1 DEF OrderState
  <1>4. why = IF s.failure_reason = "unset" THEN "payment" ELSE s.failure_reason
    BY <1>1 DEF Kept
  <1>5. RolledBack(s, out) = [r EXCEPT !.status = "failed", !.failure_reason = why]
    BY <1>2
  <1> HIDE DEF why
  <1>6. LET t == [r EXCEPT !.status = "failed", !.failure_reason = why]
        IN  /\ t \in OrderState /\ t.confirmation = r.confirmation
            /\ t.status = "failed" /\ t.failure_reason = why
            /\ t.inventory_ok = r.inventory_ok /\ t.payment_ok = r.payment_ok
            /\ SameRecord(t, r)
    BY <1>1, <1>3, ZenonT(60) DEF OrderState, SameRecord
  <1>7. Records(RolledBack(s, out), s, "rollback_inventory", out)
    BY <1>1, <1>5, <1>6 DEF SameRecord, Records
  <1> QED BY <1>1, <1>4, <1>5, <1>6, <1>7 DEF Kept

\* The confirmation is the deterministic one, whatever the LLM drafted.
LEMMA PayloadFacts ==
    ASSUME NEW s \in OrderState, NEW draft \in Confirmation
    PROVE  LET c == Payload(draft, s)
           IN  /\ c \in Confirmation
               /\ c.status = IF s.status # "unset" THEN s.status
                             ELSE IF s.payment_ok THEN "confirmed" ELSE "failed"
               /\ c.transaction_id = s.transaction_id
               /\ c.tracking_id = s.tracking_id
               /\ c.failure_reason = s.failure_reason
               /\ c.amount = "catalog"
  <1>1. /\ Deterministic(s) \in Confirmation
        /\ Deterministic(s).status = IF s.status # "unset" THEN s.status
                             ELSE IF s.payment_ok THEN "confirmed" ELSE "failed"
        /\ Deterministic(s).transaction_id = s.transaction_id
        /\ Deterministic(s).tracking_id = s.tracking_id
        /\ Deterministic(s).failure_reason = s.failure_reason
        /\ Deterministic(s).amount = "catalog"
    BY DEF Deterministic, Confirmation, OrderState
  <1> DEFINE d == Deterministic(s)
  <1>2. Authoritative(draft, s) =
           [draft EXCEPT !.status = d.status, !.failure_reason = d.failure_reason,
                         !.order_id = d.order_id, !.transaction_id = d.transaction_id,
                         !.tracking_id = d.tracking_id, !.amount = d.amount]
    BY DEF Authoritative
  <1> HIDE DEF d
  <1>3. /\ Authoritative(draft, s) \in Confirmation
        /\ Authoritative(draft, s).status = d.status
        /\ Authoritative(draft, s).transaction_id = d.transaction_id
        /\ Authoritative(draft, s).tracking_id = d.tracking_id
        /\ Authoritative(draft, s).failure_reason = d.failure_reason
        /\ Authoritative(draft, s).amount = d.amount
    BY <1>1, <1>2 DEF Confirmation, d
  <1> QED BY <1>1, <1>3 DEF Payload, d

(***************************************************************************)
(* The invariant of one run, on the values it is made of: the state of its *)
(* task (t), its node (n), its OrderState (s), the calls that took effect  *)
(* (d) and those still in the air (u).                                     *)
(***************************************************************************)
Active == {"none", "submitted", "working"}

\* The calls that may have happened before a node.
Before(n, s) ==
    CASE n \in {"START", "extract_intent", "clarify", "confirm_with_customer",
                "check_inventory"} -> {}
      [] n = "process_payment" -> {"check_inventory"}
      [] n \in {"arrange_shipping", "rollback_inventory"} ->
            {"check_inventory", "process_payment"}
      [] n = "save_order" -> {"check_inventory", "process_payment", "arrange_shipping"}
      [] n = "send_notification" ->
            {"check_inventory", "process_payment", "arrange_shipping", "save_order"}
      [] n \in {"format_response", "END"} ->
            IF s.status = "pending_review" THEN {}
            ELSE IF s.status = "failed"
                 THEN {"check_inventory", "process_payment", "rollback_inventory"}
                 ELSE CallNodes \ {"rollback_inventory"}

\* The status a run may have at each node; the confirmation is told at END.
StatusAt(n, s) ==
    /\ n \in {"START", "extract_intent", "confirm_with_customer", "check_inventory",
              "process_payment", "arrange_shipping", "save_order", "send_notification"}
         => s.status = "unset"
    /\ n = "rollback_inventory" => s.status = "failed"
    /\ n = "format_response" => s.status \in {"unset", "failed", "pending_review"}
    /\ n # "END" => s.confirmation = NoConfirmation
    /\ n = "END" => /\ s.confirmation \in Confirmation
                    /\ s.confirmation.status = s.status

\* What the gates a run has passed say, and why it was refused.
Reason(s) == IF s.inventory_ok THEN "payment" ELSE "inventory"

GatesAt(n, s) ==
    /\ n \in {"START", "extract_intent", "confirm_with_customer", "check_inventory"}
         => ~s.inventory_ok /\ ~s.payment_ok /\ s.failure_reason = "unset"
    /\ n = "clarify" => ~s.inventory_ok /\ ~s.payment_ok
    /\ n = "process_payment"
         => s.inventory_ok /\ ~s.payment_ok /\ s.failure_reason = "unset"
    /\ n \in {"arrange_shipping", "save_order", "send_notification"}
         => s.inventory_ok /\ s.payment_ok /\ s.failure_reason = "unset"
    /\ n = "rollback_inventory"
         => s.inventory_ok /\ ~s.payment_ok /\ s.failure_reason = "payment"

\* The three ways a run ends.
EndsAt(n, s) ==
    n \in {"format_response", "END"} =>
        \/ /\ s.status = IF n = "END" THEN "confirmed" ELSE "unset"
           /\ s.inventory_ok /\ s.payment_ok /\ s.failure_reason = "unset"
        \/ /\ s.status = "pending_review"
           /\ ~s.inventory_ok /\ ~s.payment_ok /\ s.failure_reason = "intent"
        \/ s.status = "failed" /\ ~s.payment_ok /\ s.failure_reason = Reason(s)

\* save_order lets no run through without both identifiers.
IdsAt(n, s) ==
    /\ n = "send_notification" => s.transaction_id /\ s.tracking_id
    /\ n = "format_response" /\ s.status = "unset" =>
          s.transaction_id /\ s.tracking_id
    /\ n = "END" => /\ s.confirmation.failure_reason = s.failure_reason
                    /\ s.confirmation.amount = "catalog"
                    /\ s.status = "confirmed" => /\ s.confirmation.transaction_id
                                                 /\ s.confirmation.tracking_id

\* A run on its way, at node n.
Good(n, s, d) ==
    d \subseteq Before(n, s) /\ StatusAt(n, s) /\ GatesAt(n, s) /\ EndsAt(n, s) /\ IdsAt(n, s)

\* Once the run is over, the call it was awaiting may happen too.
Scope(t, n, s) == Before(n, s) \cup (IF t \in Active THEN {} ELSE {n} \cap CallNodes)

Path(t, n, s, d, u) ==
    /\ t \in {"none", "submitted"} => n = "START"
    /\ t = "completed" => n = "END"
    /\ t \in Active \cup {"completed"} => u = {}
    /\ d \cup u \subseteq Scope(t, n, s)
    /\ StatusAt(n, s) /\ GatesAt(n, s) /\ EndsAt(n, s) /\ IdsAt(n, s)

PathInv == \A o \in Orders : Path(task[o], node[o], st[o], done[o], orphan[o])

RunInv == TypeOK /\ PathInv

(***************************************************************************)
(* What each action does, on the values of its own run; other runs are     *)
(* left alone.                                                             *)
(***************************************************************************)
Untouched(o) ==
    \A x \in Orders \ {o} :
        /\ task'[x] = task[x] /\ node'[x] = node[x] /\ st'[x] = st[x]
        /\ done'[x] = done[x] /\ orphan'[x] = orphan[x]
        /\ hops'[x] = hops[x] /\ trail'[x] = trail[x]

\* The run goes from node n to node next, with state s and effects d.
Moves(o, n, next, s, d) ==
    /\ task[o] = "working" /\ task'[o] = "working"
    /\ node[o] = n /\ node'[o] = next
    /\ st'[o] = s /\ done'[o] = d
    /\ orphan'[o] = orphan[o]
    /\ hops'[o] = hops[o] + 1 /\ trail'[o] = trail[o]
    /\ Untouched(o)

LEMMA NodeStep ==
    ASSUME TypeOK, NEW o \in Orders, NEW n \in Nodes, NEW next \in Nodes \cup {"END"},
           NEW s \in OrderState, NEW d \in SUBSET CallNodes,
           Running(o, n), Goto(o, next),
           st' = [st EXCEPT ![o] = s], done' = [done EXCEPT ![o] = d]
    PROVE  TypeOK' /\ Moves(o, n, next, s, d)
  <1>1. hops' \in [Orders -> Nat] /\ \A x \in Orders : hops'[x] <= RecursionLimit[x]
    <2>1. hops' = [hops EXCEPT ![o] = hops[o] + 1]
      BY DEF Goto
    <2>2. hops[o] \in Nat /\ hops[o] < RecursionLimit[o] /\ RecursionLimit[o] \in Nat
      BY RecursionLimitAssumption DEF TypeOK, Running
    <2> QED BY <2>1, <2>2 DEF TypeOK
  <1>2. TypeOK'
    BY <1>1 DEF TypeOK, Goto
  <1>3. Moves(o, n, next, s, d)
    BY DEF Moves, Untouched, TypeOK, Running, Goto
  <1> QED BY <1>2, <1>3

Effect(d, n, out) == IF out.done THEN d \cup {n} ELSE d

LEMMA CallMoves ==
    ASSUME TypeOK, NEW o \in Orders, NEW n \in CallNodes, NEW next \in Nodes \cup {"END"},
           NEW out \in Outcome, NEW s \in OrderState,
           Running(o, n), Called(o, n, out), Goto(o, next), st' = [st EXCEPT ![o] = s]
    PROVE  TypeOK' /\ Moves(o, n, next, s, Effect(done[o], n, out))
  <1> DEFINE d == Effect(done[o], n, out)
  <1>1. d \in SUBSET CallNodes
    BY DEF TypeOK, Effect
  <1>2. done' = [done EXCEPT ![o] = d]
    BY DEF Called, Effect
  <1> HIDE DEF d
  <1>3. TypeOK' /\ Moves(o, n, next, s, d)
    BY <1>1, <1>2, NodeStep DEF Nodes
  <1> QED BY <1>3 DEF d

LEMMA OutcomeTyped ==
    ASSUME NEW n \in CallNodes, NEW out \in Outcomes[n]
    PROVE  out \in Outcome
  BY OutcomesAssumption

LEMMA ExtractIntentMoves ==
    ASSUME TypeOK, NEW o \in Orders, ExtractIntent(o)
    PROVE  /\ TypeOK'
           /\ \E s \in OrderState, next \in {"clarify", "confirm_with_customer"} :
                 /\ Moves(o, "extract_intent", next, s, done[o])
                 /\ s.confirmation = st[o].confirmation
                 /\ s.inventory_ok = st[o].inventory_ok /\ s.payment_ok = st[o].payment_ok
                 /\ SameRecord(s, st[o])
                 /\ next = "confirm_with_customer" =>
                       /\ s.status = st[o].status
                       /\ s.failure_reason = st[o].failure_reason
  <1>1. PICK valid \in BOOLEAN, known \in BOOLEAN, confident \in BOOLEAN :
           /\ st' = [st EXCEPT ![o] = Extracted(st[o], valid, known, confident)]
           /\ Goto(o, AfterExtract(Extracted(st[o], valid, known, confident)))
    BY DEF ExtractIntent
  <1> DEFINE s == Extracted(st[o], valid, known, confident)
  <1>2. st[o] \in OrderState /\ done[o] \in SUBSET CallNodes
    BY DEF TypeOK
  <1>3. /\ s \in OrderState /\ s.confirmation = st[o].confirmation
        /\ s.inventory_ok = st[o].inventory_ok /\ s.payment_ok = st[o].payment_ok
        /\ SameRecord(s, st[o])
    BY <1>2, ZenonT(60) DEF Extracted, OrderState, SameRecord
  <1>4. ~s.needs_clarification => /\ s.status = st[o].status
                                 /\ s.failure_reason = st[o].failure_reason
    BY <1>2 DEF Extracted, OrderState
  <1>5. Running(o, "extract_intent") /\ done' = [done EXCEPT ![o] = done[o]]
    BY DEF ExtractIntent, TypeOK
  <1>6. st' = [st EXCEPT ![o] = s] /\ Goto(o, AfterExtract(s))
    BY <1>1
  <1> HIDE DEF s
  <1>7. /\ AfterExtract(s) \in {"clarify", "confirm_with_customer"}
        /\ AfterExtract(s) = "confirm_with_customer" => ~s.needs_clarification
    BY DEF AfterExtract
  <1>8. /\ TypeOK'
        /\ Moves(o, "extract_intent", AfterExtract(s), s, done[o])
    BY <1>2, <1>3, <1>5, <1>6, <1>7, NodeStep DEF Nodes
  <1> QED BY <1>3, <1>4, <1>7, <1>8

LEMMA ClarifyMoves ==
    ASSUME TypeOK, NEW o \in Orders, Clarify(o)
    PROVE  /\ TypeOK'
           /\ \E s \in OrderState :
                 /\ Moves(o, "clarify", "format_response", s, done[o])
                 /\ s.confirmation = st[o].confirmation
                 /\ s.inventory_ok = st[o].inventory_ok /\ s.payment_ok = st[o].payment_ok
                 /\ s.status = "pending_review" /\ s.failure_reason = "intent"
                 /\ SameRecord(s, st[o])
  <1> DEFINE s == [st[o] EXCEPT !.status = "pending_review", !.failure_reason = "intent"]
  <1>1. st[o] \in OrderState /\ done[o] \in SUBSET CallNodes
    BY DEF TypeOK
  <1>2. /\ s \in OrderState /\ s.confirmation = st[o].confirmation
        /\ s.inventory_ok = st[o].inventory_ok /\ s.payment_ok = st[o].payment_ok
        /\ s.status = "pending_review" /\ s.failure_reason = "intent"
        /\ SameRecord(s, st[o])
    BY <1>1 DEF OrderState, SameRecord
  <1>3. /\ Running(o, "clarify") /\ Goto(o, "format_response")
        /\ st' = [st EXCEPT ![o] = s] /\ done' = [done EXCEPT ![o] = done[o]]
    BY DEF Clarify, TypeOK
  <1> HIDE DEF s
  <1>4. TypeOK' /\ Moves(o, "clarify", "format_response", s, done[o])
    BY <1>1, <1>2, <1>3, NodeStep DEF Nodes
  <1> QED BY <1>2, <1>4

LEMMA ConfirmMoves ==
    ASSUME TypeOK, NEW o \in Orders, ConfirmWithCustomer(o)
    PROVE  /\ TypeOK'
           /\ Moves(o, "confirm_with_customer", "check_inventory", st[o], done[o])
  <1>1. st[o] \in OrderState /\ done[o] \in SUBSET CallNodes
    BY DEF TypeOK
  <1>2. /\ Running(o, "confirm_with_customer") /\ Goto(o, "check_inventory")
        /\ st' = [st EXCEPT ![o] = st[o]] /\ done' = [done EXCEPT ![o] = done[o]]
    BY DEF ConfirmWithCustomer, TypeOK
  <1> QED BY <1>1, <1>2, NodeStep DEF Nodes, CallNodes

LEMMA CheckInventoryMoves ==
    ASSUME TypeOK, NEW o \in Orders, CheckInventory(o)
    PROVE  /\ TypeOK'
           /\ \E out \in Outcomes["check_inventory"], s \in OrderState :
                 /\ s = InventoryChecked(st[o], out)
                 /\ Moves(o, "check_inventory", AfterInventory(s), s,
                          Effect(done[o], "check_inventory", out))
  <1>1. PICK out \in Outcomes["check_inventory"] :
           LET s == InventoryChecked(st[o], out)
           IN  /\ Called(o, "check_inventory", out)
               /\ st' = [st EXCEPT ![o] = s] /\ Goto(o, AfterInventory(s))
    BY DEF CheckInventory
  <1> DEFINE s == InventoryChecked(st[o], out)
  <1>2. out \in Outcome /\ st[o] \in OrderState /\ Running(o, "check_inventory")
    BY OutcomeTyped DEF TypeOK, CallNodes, CheckInventory
  <1>3. s \in OrderState
    BY <1>2, InventoryCheckedFacts
  <1>4. AfterInventory(s) \in Nodes
    BY DEF AfterInventory, Nodes, CallNodes
  <1>5. st' = [st EXCEPT ![o] = s] /\ Goto(o, AfterInventory(s))
        /\ Called(o, "check_inventory", out)
    BY <1>1
  <1> HIDE DEF s
  <1>6. /\ TypeOK'
        /\ Moves(o, "check_inventory", AfterInventory(s), s,
                 Effect(done[o], "check_inventory", out))
    BY <1>2, <1>3, <1>4, <1>5, CallMoves DEF CallNodes
  <1> QED BY <1>3, <1>6 DEF s

LEMMA ProcessPaymentMoves ==
    ASSUME TypeOK, NEW o \in Orders, ProcessPayment(o)
    PROVE  /\ TypeOK'
           /\ \E out \in Outcomes["process_payment"], s \in OrderState :
                 /\ s = PaymentProcessed(st[o], out)
                 /\ Moves(o, "process_payment", AfterPayment(s), s,
                          Effect(done[o], "process_payment", out))
  <1>1. PICK out \in Outcomes["process_payment"] :
           LET s == PaymentProcessed(st[o], out)
           IN  /\ Called(o, "process_payment", out)
               /\ st' = [st EXCEPT ![o] = s] /\ Goto(o, AfterPayment(s))
    BY DEF ProcessPayment
  <1> DEFINE s == PaymentProcessed(st[o], out)
  <1>2. out \in Outcome /\ st[o] \in OrderState /\ Running(o, "process_payment")
    BY OutcomeTyped DEF TypeOK, CallNodes, ProcessPayment
  <1>3. s \in OrderState
    BY <1>2, PaymentProcessedFacts
  <1>4. AfterPayment(s) \in Nodes
    BY DEF AfterPayment, Nodes, CallNodes
  <1>5. st' = [st EXCEPT ![o] = s] /\ Goto(o, AfterPayment(s))
        /\ Called(o, "process_payment", out)
    BY <1>1
  <1> HIDE DEF s
  <1>6. /\ TypeOK'
        /\ Moves(o, "process_payment", AfterPayment(s), s,
                 Effect(done[o], "process_payment", out))
    BY <1>2, <1>3, <1>4, <1>5, CallMoves DEF CallNodes
  <1> QED BY <1>3, <1>6 DEF s

LEMMA ArrangeShippingMoves ==
    ASSUME TypeOK, NEW o \in Orders, ArrangeShipping(o)
    PROVE  /\ TypeOK'
           /\ \E out \in Outcomes["arrange_shipping"], s \in OrderState :
                 /\ Kept([s EXCEPT !.tracking_id = st[o].tracking_id], st[o])
                 /\ s.tracking_id = out.id
                 /\ Records(s, st[o], "arrange_shipping", out)
                 /\ Moves(o, "arrange_shipping", "save_order", s,
                          Effect(done[o], "arrange_shipping", out))
  <1>1. PICK out \in Outcomes["arrange_shipping"] :
           /\ Called(o, "arrange_shipping", out)
           /\ st' = [st EXCEPT ![o] = [Replied(st[o], "arrange_shipping", out)
                                         EXCEPT !.tracking_id = out.id]]
           /\ Goto(o, "save_order")
    BY DEF ArrangeShipping
  <1> DEFINE r == Replied(st[o], "arrange_shipping", out)
             s == [r EXCEPT !.tracking_id = out.id]
  <1>2. out \in Outcome /\ st[o] \in OrderState /\ Running(o, "arrange_shipping")
    BY OutcomeTyped DEF TypeOK, CallNodes, ArrangeShipping
  <1>3. r \in OrderState /\ Kept(r, st[o]) /\ Records(r, st[o], "arrange_shipping", out)
    BY <1>2, RepliedFacts DEF CallNodes
  <1>4. st' = [st EXCEPT ![o] = s]
    BY <1>1
  <1> HIDE DEF r
  <1>5. /\ s \in OrderState /\ s.tracking_id = out.id
        /\ Kept([s EXCEPT !.tracking_id = st[o].tracking_id], st[o])
        /\ Records(s, st[o], "arrange_shipping", out)
    BY <1>2, <1>3 DEF OrderState, Outcome, Kept, Records
  <1> HIDE DEF s
  <1>6. /\ TypeOK'
        /\ Moves(o, "arrange_shipping", "save_order", s,
                 Effect(done[o], "arrange_shipping", out))
    BY <1>1, <1>2, <1>4, <1>5, CallMoves DEF CallNodes, Nodes
  <1> QED BY <1>5, <1>6

LEMMA RollbackInventoryMoves ==
    ASSUME TypeOK, NEW o \in Orders, RollbackInventory(o)
    PROVE  /\ TypeOK'
           /\ \E out \in Outcomes["rollback_inventory"], s \in OrderState :
                 /\ s = RolledBack(st[o], out)
                 /\ Moves(o, "rollback_inventory", "format_response", s,
                          Effect(done[o], "rollback_inventory", out))
  <1>1. PICK out \in Outcomes["rollback_inventory"] :
           /\ Called(o, "rollback_inventory", out)
           /\ st' = [st EXCEPT ![o] = RolledBack(st[o], out)]
           /\ Goto(o, "format_response")
    BY DEF RollbackInventory
  <1>2. out \in Outcome /\ st[o] \in OrderState /\ Running(o, "rollback_inventory")
    BY OutcomeTyped DEF TypeOK, CallNodes, RollbackInventory
  <1> DEFINE s == RolledBack(st[o], out)
  <1>3. s \in OrderState
    BY <1>2, RolledBackFacts
  <1>4. st' = [st EXCEPT ![o] = s]
    BY <1>1
  <1> HIDE DEF s
  <1>5. /\ TypeOK'
        /\ Moves(o, "rollback_inventory", "format_response", s,
                 Effect(done[o], "rollback_inventory", out))
    BY <1>1, <1>2, <1>3, <1>4, CallMoves DEF CallNodes, Nodes
  <1> QED BY <1>3, <1>5 DEF s

LEMMA SaveOrderMoves ==
    ASSUME TypeOK, NEW o \in Orders, SaveOrder(o)
    PROVE  /\ TypeOK' /\ CanSave(st[o])
           /\ \E out \in Outcomes["save_order"], s \in OrderState :
                 /\ Kept(s, st[o]) /\ Records(s, st[o], "save_order", out)
                 /\ Moves(o, "save_order", "send_notification", s,
                          Effect(done[o], "save_order", out))
  <1>1. PICK out \in Outcomes["save_order"] :
           /\ Called(o, "save_order", out)
           /\ st' = [st EXCEPT ![o] =
                       [Replied(st[o], "save_order", out) EXCEPT
                          !.order_id = IF out.id THEN "record" ELSE "correlation"]]
           /\ Goto(o, "send_notification")
    BY DEF SaveOrder
  <1> DEFINE r == Replied(st[o], "save_order", out)
             id == IF out.id THEN "record" ELSE "correlation"
             s == [r EXCEPT !.order_id = id]
  <1>2. /\ out \in Outcome /\ st[o] \in OrderState
        /\ Running(o, "save_order") /\ CanSave(st[o])
    BY OutcomeTyped DEF TypeOK, CallNodes, SaveOrder
  <1>3. r \in OrderState /\ Kept(r, st[o]) /\ Records(r, st[o], "save_order", out)
    BY <1>2, RepliedFacts DEF CallNodes
  <1>4. st' = [st EXCEPT ![o] = s]
    BY <1>1
  <1>5. id \in {"unset", "record", "correlation"}
    OBVIOUS
  <1> HIDE DEF r, id
  <1>6. s \in OrderState /\ Kept(s, st[o]) /\ Records(s, st[o], "save_order", out)
    BY <1>3, <1>5 DEF OrderState, Kept, Records
  <1> HIDE DEF s
  <1>7. /\ TypeOK'
        /\ Moves(o, "save_order", "send_notification", s,
                 Effect(done[o], "save_order", out))
    BY <1>1, <1>2, <1>4, <1>6, CallMoves DEF CallNodes, Nodes
  <1> QED BY <1>2, <1>6, <1>7

LEMMA SendNotificationMoves ==
    ASSUME TypeOK, NEW o \in Orders, SendNotification(o)
    PROVE  /\ TypeOK'
           /\ \E out \in Outcomes["send_notification"], s \in OrderState :
                 /\ Kept(s, st[o]) /\ Records(s, st[o], "send_notification", out)
                 /\ Moves(o, "send_notification", "format_response", s,
                          Effect(done[o], "send_notification", out))
  <1>1. PICK out \in Outcomes["send_notification"] :
           /\ Called(o, "send_notification", out)
           /\ st' = [st EXCEPT ![o] = Replied(st[o], "send_notification", out)]
           /\ Goto(o, "format_response")
    BY DEF SendNotification
  <1> DEFINE s == Replied(st[o], "send_notification", out)
  <1>2. out \in Outcome /\ st[o] \in OrderState /\ Running(o, "send_notification")
    BY OutcomeTyped DEF TypeOK, CallNodes, SendNotification
  <1>3. s \in OrderState /\ Kept(s, st[o]) /\ Records(s, st[o], "send_notification", out)
    BY <1>2, RepliedFacts DEF CallNodes
  <1>4. st' = [st EXCEPT ![o] = s]
    BY <1>1
  <1> HIDE DEF s
  <1>5. /\ TypeOK'
        /\ Moves(o, "send_notification", "format_response", s,
                 Effect(done[o], "send_notification", out))
    BY <1>1, <1>2, <1>3, <1>4, CallMoves DEF CallNodes, Nodes
  <1> QED BY <1>3, <1>5

LEMMA ToldFacts ==
    ASSUME NEW s \in OrderState, NEW c \in Confirmation
    PROVE  LET t == [s EXCEPT !.confirmation = c, !.status = c.status]
           IN  /\ t \in OrderState
               /\ t.confirmation = c /\ t.status = c.status
               /\ t.failure_reason = s.failure_reason
               /\ t.inventory_ok = s.inventory_ok /\ t.payment_ok = s.payment_ok
               /\ SameRecord(t, s)
  BY DEF OrderState, Confirmation, SameRecord

LEMMA FormatResponseMoves ==
    ASSUME TypeOK, NEW o \in Orders, FormatResponse(o)
    PROVE  /\ TypeOK'
           /\ \E draft \in Confirmation, s \in OrderState :
                 /\ s = [st[o] EXCEPT !.confirmation = Payload(draft, st[o]),
                                      !.status = Payload(draft, st[o]).status]
                 /\ Moves(o, "format_response", "END", s, done[o])
  <1>1. PICK draft \in Confirmation :
           st' = [st EXCEPT ![o].confirmation = Payload(draft, st[o]),
                            ![o].status = Payload(draft, st[o]).status]
    BY DEF FormatResponse
  <1> DEFINE c == Payload(draft, st[o])
             s == [st[o] EXCEPT !.confirmation = c, !.status = c.status]
  <1>2. st[o] \in OrderState /\ done[o] \in SUBSET CallNodes
    BY DEF TypeOK
  <1>3. c \in Confirmation
    BY <1>2, PayloadFacts
  <1>4. /\ Running(o, "format_response") /\ Goto(o, "END")
        /\ done' = [done EXCEPT ![o] = done[o]]
    BY DEF FormatResponse, TypeOK
  <1>5. st' = [st EXCEPT ![o].confirmation = c, ![o].status = c.status]
    BY <1>1
  <1> HIDE DEF c
  <1>6. st' = [st EXCEPT ![o] = s]
    BY <1>5 DEF TypeOK
  <1>7. s \in OrderState
    BY <1>2, <1>3, ToldFacts
  <1>8. s = [st[o] EXCEPT !.confirmation = c, !.status = c.status]
    OBVIOUS
  <1> HIDE DEF s
  <1>9. TypeOK' /\ Moves(o, "format_response", "END", s, done[o])
    BY <1>2, <1>4, <1>6, <1>7, NodeStep DEF Nodes
  <1> QED BY <1>7, <1>8, <1>9 DEF c

(***************************************************************************)
(* Every action keeps the path of its run.                                 *)
(***************************************************************************)
LEMMA PathStep ==
    ASSUME RunInv, TypeOK', NEW o \in Orders, Untouched(o),
           Path(task'[o], node'[o], st'[o], done'[o], orphan'[o])
    PROVE  RunInv'
  <1>1. ASSUME NEW x \in Orders, x # o
        PROVE  Path(task'[x], node'[x], st'[x], done'[x], orphan'[x])
    <2>1. Path(task[x], node[x], st[x], done[x], orphan[x])
      BY DEF RunInv, PathInv
    <2>2. /\ task'[x] = task[x] /\ node'[x] = node[x] /\ st'[x] = st[x]
          /\ done'[x] = done[x] /\ orphan'[x] = orphan[x]
      BY <1>1 DEF Untouched
    <2> QED BY <2>1, <2>2
  <1> QED BY <1>1 DEF RunInv, PathInv

\* What is known of a run that is about to execute a node.
LEMMA MoveStarts ==
    ASSUME RunInv, NEW o \in Orders, NEW n, NEW next, NEW s, NEW d,
           Moves(o, n, next, s, d)
    PROVE  /\ st[o] \in OrderState /\ done[o] \subseteq CallNodes
           /\ orphan[o] = {} /\ Good(n, st[o], done[o])
  <1>1. /\ st[o] \in OrderState /\ done[o] \subseteq CallNodes
        /\ Path(task[o], node[o], st[o], done[o], orphan[o])
    BY DEF RunInv, TypeOK, PathInv
  <1>2. task[o] = "working" /\ node[o] = n
    BY DEF Moves
  <1>3. Path("working", n, st[o], done[o], orphan[o])
    BY <1>1, <1>2
  <1> QED BY <1>1, <1>3 DEF Path, Good, Scope, Active

LEMMA MoveEnds ==
    ASSUME RunInv, TypeOK', NEW o \in Orders, NEW n, NEW next, NEW s, NEW d,
           Moves(o, n, next, s, d), Good(next, s, d)
    PROVE  RunInv'
  <1>1. orphan[o] = {}
    BY MoveStarts
  <1>2. Path("working", next, s, d, orphan[o])
    BY <1>1 DEF Path, Good, Scope, Active
  <1>3. /\ task'[o] = "working" /\ node'[o] = next /\ st'[o] = s
        /\ done'[o] = d /\ orphan'[o] = orphan[o] /\ Untouched(o)
    BY DEF Moves
  <1>4. Path(task'[o], node'[o], st'[o], done'[o], orphan'[o])
    BY <1>2, <1>3
  <1> QED BY <1>3, <1>4, PathStep

LEMMA ExtractIntentKeeps ==
    ASSUME RunInv, NEW o \in Orders, ExtractIntent(o)
    PROVE  RunInv'
  <1>1. TypeOK /\ TypeOK'
    BY ExtractIntentMoves DEF RunInv
  <1>2. PICK s \in OrderState, next \in {"clarify", "confirm_with_customer"} :
           /\ Moves(o, "extract_intent", next, s, done[o])
           /\ s.confirmation = st[o].confirmation
           /\ s.inventory_ok = st[o].inventory_ok /\ s.payment_ok = st[o].payment_ok
           /\ next = "confirm_with_customer" =>
                 /\ s.status = st[o].status
                 /\ s.failure_reason = st[o].failure_reason
    BY <1>1, ExtractIntentMoves
  <1>3. Good("extract_intent", st[o], done[o])
    BY <1>2, MoveStarts
  <1>4. Good(next, s, done[o])
    BY <1>2, <1>3 DEF Good, Before, StatusAt, GatesAt, EndsAt, IdsAt
  <1> QED BY <1>1, <1>2, <1>4, MoveEnds

LEMMA ClarifyKeeps ==
    ASSUME RunInv, NEW o \in Orders, Clarify(o)
    PROVE  RunInv'
  <1>1. TypeOK /\ TypeOK'
    BY ClarifyMoves DEF RunInv
  <1>2. PICK s \in OrderState :
           /\ Moves(o, "clarify", "format_response", s, done[o])
           /\ s.confirmation = st[o].confirmation
           /\ s.inventory_ok = st[o].inventory_ok /\ s.payment_ok = st[o].payment_ok
           /\ s.status = "pending_review" /\ s.failure_reason = "intent"
    BY <1>1, ClarifyMoves
  <1>3. Good("clarify", st[o], done[o])
    BY <1>2, MoveStarts
  <1>4. Good("format_response", s, done[o])
    BY <1>2, <1>3 DEF Good, Before, StatusAt, GatesAt, EndsAt, IdsAt
  <1> QED BY <1>1, <1>2, <1>4, MoveEnds

LEMMA ConfirmKeeps ==
    ASSUME RunInv, NEW o \in Orders, ConfirmWithCustomer(o)
    PROVE  RunInv'
  <1>1. /\ TypeOK'
        /\ Moves(o, "confirm_with_customer", "check_inventory", st[o], done[o])
    BY ConfirmMoves DEF RunInv
  <1>2. Good("confirm_with_customer", st[o], done[o])
    BY <1>1, MoveStarts
  <1>3. Good("check_inventory", st[o], done[o])
    BY <1>2 DEF Good, Before, StatusAt, GatesAt, EndsAt, IdsAt
  <1> QED BY <1>1, <1>3, MoveEnds

LEMMA CheckInventoryKeeps ==
    ASSUME RunInv, NEW o \in Orders, CheckInventory(o)
    PROVE  RunInv'
  <1>1. TypeOK /\ TypeOK'
    BY CheckInventoryMoves DEF RunInv
  <1>2. PICK out \in Outcomes["check_inventory"], s \in OrderState :
           /\ s = InventoryChecked(st[o], out)
           /\ Moves(o, "check_inventory", AfterInventory(s), s,
                    Effect(done[o], "check_inventory", out))
    BY <1>1, CheckInventoryMoves
  <1>3. /\ st[o] \in OrderState /\ out \in Outcome
        /\ Good("check_inventory", st[o], done[o])
    BY <1>2, MoveStarts, OutcomeTyped DEF CallNodes
  <1>4. /\ s.payment_ok = st[o].payment_ok /\ s.confirmation = st[o].confirmation
        /\ s.inventory_ok => /\ s.status = st[o].status
                             /\ s.failure_reason = st[o].failure_reason
        /\ ~s.inventory_ok => s.status = "failed" /\ s.failure_reason = "inventory"
    BY <1>2, <1>3, InventoryCheckedFacts
  <1>5. Effect(done[o], "check_inventory", out) \subseteq {"check_inventory"}
    BY <1>3 DEF Good, Before, Effect
  <1>6. Good(AfterInventory(s), s, Effect(done[o], "check_inventory", out))
    <2>1. CASE s.inventory_ok
      BY <1>3, <1>4, <1>5, <2>1
         DEF AfterInventory, Good, Before, StatusAt, GatesAt, EndsAt, IdsAt
    <2>2. CASE ~s.inventory_ok
      BY <1>3, <1>4, <1>5, <2>2
         DEF AfterInventory, Good, Before, StatusAt, GatesAt, EndsAt, IdsAt, Reason
    <2> QED BY <2>1, <2>2
  <1> QED BY <1>1, <1>2, <1>6, MoveEnds

LEMMA ProcessPaymentKeeps ==
    ASSUME RunInv, NEW o \in Orders, ProcessPayment(o)
    PROVE  RunInv'
  <1>1. TypeOK /\ TypeOK'
    BY ProcessPaymentMoves DEF RunInv
  <1>2. PICK out \in Outcomes["process_payment"], s \in OrderState :
           /\ s = PaymentProcessed(st[o], out)
           /\ Moves(o, "process_payment", AfterPayment(s), s,
                    Effect(done[o], "process_payment", out))
    BY <1>1, ProcessPaymentMoves
  <1>3. /\ st[o] \in OrderState /\ out \in Outcome
        /\ Good("process_payment", st[o], done[o])
    BY <1>2, MoveStarts, OutcomeTyped DEF CallNodes
  <1>4. /\ s.inventory_ok = st[o].inventory_ok /\ s.confirmation = st[o].confirmation
        /\ s.payment_ok => /\ s.status = st[o].status
                           /\ s.failure_reason = st[o].failure_reason
        /\ ~s.payment_ok => s.status = "failed" /\ s.failure_reason = "payment"
    BY <1>2, <1>3, PaymentProcessedFacts
  <1>5. Effect(done[o], "process_payment", out)
           \subseteq {"check_inventory", "process_payment"}
    BY <1>3 DEF Good, Before, Effect
  <1>6. Good(AfterPayment(s), s, Effect(done[o], "process_payment", out))
    <2>1. CASE s.payment_ok
      BY <1>3, <1>4, <1>5, <2>1
         DEF AfterPayment, Good, Before, StatusAt, GatesAt, EndsAt, IdsAt
    <2>2. CASE ~s.payment_ok
      BY <1>3, <1>4, <1>5, <2>2
         DEF AfterPayment, Good, Before, StatusAt, GatesAt, EndsAt, IdsAt
    <2> QED BY <2>1, <2>2
  <1> QED BY <1>1, <1>2, <1>6, MoveEnds

LEMMA ArrangeShippingKeeps ==
    ASSUME RunInv, NEW o \in Orders, ArrangeShipping(o)
    PROVE  RunInv'
  <1>1. TypeOK /\ TypeOK'
    BY ArrangeShippingMoves DEF RunInv
  <1>2. PICK out \in Outcomes["arrange_shipping"], s \in OrderState :
           /\ Kept([s EXCEPT !.tracking_id = st[o].tracking_id], st[o])
           /\ Moves(o, "arrange_shipping", "save_order", s,
                    Effect(done[o], "arrange_shipping", out))
    BY <1>1, ArrangeShippingMoves
  <1>3. Good("arrange_shipping", st[o], done[o])
    BY <1>2, MoveStarts
  <1>4. /\ s.confirmation = st[o].confirmation /\ s.status = st[o].status
        /\ s.failure_reason = st[o].failure_reason
        /\ s.inventory_ok = st[o].inventory_ok /\ s.payment_ok = st[o].payment_ok
    BY <1>2 DEF Kept, OrderState
  <1>5. Good("save_order", s, Effect(done[o], "arrange_shipping", out))
    BY <1>3, <1>4 DEF Effect, Good, Before, StatusAt, GatesAt, EndsAt, IdsAt
  <1> QED BY <1>1, <1>2, <1>5, MoveEnds

LEMMA RollbackInventoryKeeps ==
    ASSUME RunInv, NEW o \in Orders, RollbackInventory(o)
    PROVE  RunInv'
  <1>1. TypeOK /\ TypeOK'
    BY RollbackInventoryMoves DEF RunInv
  <1>2. PICK out \in Outcomes["rollback_inventory"], s \in OrderState :
           /\ s = RolledBack(st[o], out)
           /\ Moves(o, "rollback_inventory", "format_response", s,
                    Effect(done[o], "rollback_inventory", out))
    BY <1>1, RollbackInventoryMoves
  <1>3. /\ st[o] \in OrderState /\ out \in Outcome
        /\ Good("rollback_inventory", st[o], done[o])
    BY <1>2, MoveStarts, OutcomeTyped DEF CallNodes
  <1>4. /\ s.confirmation = st[o].confirmation /\ s.status = "failed"
        /\ s.failure_reason = "payment"
        /\ s.inventory_ok = st[o].inventory_ok /\ s.payment_ok = st[o].payment_ok
    BY <1>2, <1>3, RolledBackFacts DEF Good, GatesAt
  <1>5. Good("format_response", s, Effect(done[o], "rollback_inventory", out))
    BY <1>3, <1>4 DEF Effect, Good, Before, StatusAt, GatesAt, EndsAt, IdsAt, Reason
  <1> QED BY <1>1, <1>2, <1>5, MoveEnds

LEMMA SaveOrderKeeps ==
    ASSUME RunInv, NEW o \in Orders, SaveOrder(o)
    PROVE  RunInv'
  <1>1. TypeOK /\ TypeOK' /\ CanSave(st[o])
    BY SaveOrderMoves DEF RunInv
  <1>2. PICK out \in Outcomes["save_order"], s \in OrderState :
           /\ Kept(s, st[o])
           /\ Moves(o, "save_order", "send_notification", s,
                    Effect(done[o], "save_order", out))
    BY <1>1, SaveOrderMoves
  <1>3. Good("save_order", st[o], done[o])
    BY <1>2, MoveStarts
  <1>4. Good("send_notification", s, Effect(done[o], "save_order", out))
    BY <1>1, <1>2, <1>3
       DEF CanSave, Kept, Effect, Good, Before, StatusAt, GatesAt, EndsAt, IdsAt
  <1> QED BY <1>1, <1>2, <1>4, MoveEnds

LEMMA SendNotificationKeeps ==
    ASSUME RunInv, NEW o \in Orders, SendNotification(o)
    PROVE  RunInv'
  <1>1. TypeOK /\ TypeOK'
    BY SendNotificationMoves DEF RunInv
  <1>2. PICK out \in Outcomes["send_notification"], s \in OrderState :
           /\ Kept(s, st[o])
           /\ Moves(o, "send_notification", "format_response", s,
                    Effect(done[o], "send_notification", out))
    BY <1>1, SendNotificationMoves
  <1>3. Good("send_notification", st[o], done[o])
    BY <1>2, MoveStarts
  <1>4. Good("format_response", s, Effect(done[o], "send_notification", out))
    BY <1>2, <1>3
       DEF Kept, Effect, Good, Before, StatusAt, GatesAt, EndsAt, IdsAt, CallNodes
  <1> QED BY <1>1, <1>2, <1>4, MoveEnds

LEMMA FormatResponseKeeps ==
    ASSUME RunInv, NEW o \in Orders, FormatResponse(o)
    PROVE  RunInv'
  <1>1. TypeOK /\ TypeOK'
    BY FormatResponseMoves DEF RunInv
  <1>2. PICK draft \in Confirmation, s \in OrderState :
           /\ s = [st[o] EXCEPT !.confirmation = Payload(draft, st[o]),
                                !.status = Payload(draft, st[o]).status]
           /\ Moves(o, "format_response", "END", s, done[o])
    BY <1>1, FormatResponseMoves
  <1> DEFINE c == Payload(draft, st[o])
  <1>3. st[o] \in OrderState /\ Good("format_response", st[o], done[o])
    BY <1>2, MoveStarts
  <1>4. /\ c \in Confirmation
        /\ c.status = IF st[o].status # "unset" THEN st[o].status
                      ELSE IF st[o].payment_ok THEN "confirmed" ELSE "failed"
        /\ c.transaction_id = st[o].transaction_id /\ c.tracking_id = st[o].tracking_id
        /\ c.failure_reason = st[o].failure_reason /\ c.amount = "catalog"
    BY <1>3, PayloadFacts
  <1> HIDE DEF c
  <1>5. s = [st[o] EXCEPT !.confirmation = c, !.status = c.status]
    BY <1>2 DEF c
  <1>6. /\ s.confirmation = c /\ s.status = c.status
        /\ s.failure_reason = st[o].failure_reason
        /\ s.inventory_ok = st[o].inventory_ok /\ s.payment_ok = st[o].payment_ok
    BY <1>3, <1>4, <1>5, ToldFacts
  <1>7. Good("END", s, done[o])
    <2>1. CASE st[o].status = "unset"
      BY <1>3, <1>4, <1>6, <2>1 DEF Good, Before, StatusAt, GatesAt, EndsAt, IdsAt, Reason
    <2>2. CASE st[o].status # "unset"
      <3>1. s.status = st[o].status /\ s.status \in {"failed", "pending_review"}
        BY <1>3, <1>4, <1>6, <2>2 DEF Good, StatusAt
      <3>2. done[o] \subseteq Before("END", s) /\ EndsAt("END", s)
        BY <1>3, <1>6, <3>1 DEF Good, Before, EndsAt, Reason
      <3>3. StatusAt("END", s) /\ GatesAt("END", s) /\ IdsAt("END", s)
        BY <1>4, <1>6, <3>1 DEF StatusAt, GatesAt, IdsAt
      <3> QED BY <3>2, <3>3 DEF Good
    <2> QED BY <2>1, <2>2
  <1> QED BY <1>1, <1>2, <1>7, MoveEnds

LEMMA SubmitKeeps ==
    ASSUME RunInv, NEW o \in Orders, Submit(o)
    PROVE  RunInv'
  <1>1. TypeOK'
    BY DEF RunInv, TypeOK, Submit
  <1>2. /\ task'[o] = "submitted" /\ task[o] = "none" /\ Untouched(o)
        /\ node'[o] = node[o] /\ st'[o] = st[o]
        /\ done'[o] = done[o] /\ orphan'[o] = orphan[o]
    BY DEF RunInv, TypeOK, Submit, Untouched
  <1>3. Path(task[o], node[o], st[o], done[o], orphan[o])
    BY DEF RunInv, PathInv
  <1>4. Path("submitted", node[o], st[o], done[o], orphan[o])
    BY <1>2, <1>3 DEF Path, Scope, Active
  <1>5. Path(task'[o], node'[o], st'[o], done'[o], orphan'[o])
    BY <1>2, <1>4
  <1> QED BY <1>1, <1>2, <1>5, PathStep

LEMMA StartWorkKeeps ==
    ASSUME RunInv, NEW o \in Orders, StartWork(o)
    PROVE  RunInv'
  <1>1. TypeOK'
    BY DEF RunInv, TypeOK, StartWork, Nodes
  <1>2. /\ task[o] = "submitted" /\ task'[o] = "working" /\ Untouched(o)
        /\ node'[o] = "extract_intent" /\ st'[o] = st[o]
        /\ done'[o] = done[o] /\ orphan'[o] = orphan[o]
    BY DEF RunInv, TypeOK, StartWork, Untouched
  <1>3. Path("submitted", "START", st[o], done[o], orphan[o])
    <2>1. Path(task[o], node[o], st[o], done[o], orphan[o])
      BY DEF RunInv, PathInv
    <2>2. node[o] = "START"
      BY <1>2, <2>1 DEF Path
    <2> QED BY <1>2, <2>1, <2>2
  <1>4. Path("working", "extract_intent", st[o], done[o], orphan[o])
    BY <1>3 DEF Path, Scope, Active, Before, StatusAt, GatesAt, EndsAt, IdsAt
  <1>5. Path(task'[o], node'[o], st'[o], done'[o], orphan'[o])
    BY <1>2, <1>4
  <1> QED BY <1>1, <1>2, <1>5, PathStep

LEMMA CompleteKeeps ==
    ASSUME RunInv, NEW o \in Orders, Complete(o)
    PROVE  RunInv'
  <1>1. TypeOK'
    BY DEF RunInv, TypeOK, Complete
  <1>2. /\ task[o] = "working" /\ task'[o] = "completed" /\ Untouched(o)
        /\ node[o] = "END" /\ node'[o] = "END" /\ st'[o] = st[o]
        /\ done'[o] = done[o] /\ orphan'[o] = orphan[o]
    BY DEF RunInv, TypeOK, Complete, Untouched
  <1>3. Path("working", "END", st[o], done[o], orphan[o])
    BY <1>2 DEF RunInv, PathInv
  <1>4. Path("completed", "END", st[o], done[o], orphan[o])
    BY <1>3 DEF Path, Scope, Active
  <1>5. Path(task'[o], node'[o], st'[o], done'[o], orphan'[o])
    BY <1>2, <1>4
  <1> QED BY <1>1, <1>2, <1>5, PathStep

\* A run that stops half way leaves its state, its effects and at most the
\* call of its node.
Stops(o, t, u) ==
    /\ task[o] \in {"submitted", "working"}
    /\ task' = [task EXCEPT ![o] = t]
    /\ orphan' = [orphan EXCEPT ![o] = u]
    /\ audit' \in [Orders -> {"none", "ok", "error"}]
    /\ UNCHANGED <<node, hops, st, trail, done>>

LEMMA StopsKeeps ==
    ASSUME RunInv, NEW o \in Orders, NEW t \in {"failed", "canceled"},
           NEW u \in SUBSET InFlight(o), Stops(o, t, u)
    PROVE  RunInv'
  <1>1. u \subseteq {node[o]} \cap CallNodes
    BY DEF InFlight, Running
  <1>2. TypeOK'
    BY <1>1 DEF RunInv, TypeOK, Stops
  <1>3. /\ task[o] \in {"submitted", "working"} /\ task'[o] = t /\ Untouched(o)
        /\ node'[o] = node[o] /\ st'[o] = st[o]
        /\ done'[o] = done[o] /\ orphan'[o] = u
    BY DEF RunInv, TypeOK, Stops, Untouched
  <1>4. Path(task[o], node[o], st[o], done[o], orphan[o])
    BY DEF RunInv, PathInv
  <1>5. Path(t, node[o], st[o], done[o], u)
    BY <1>1, <1>3, <1>4 DEF Path, Scope, Active
  <1>6. Path(task'[o], node'[o], st'[o], done'[o], orphan'[o])
    BY <1>3, <1>5
  <1> QED BY <1>2, <1>3, <1>6, PathStep

\* An exception, a refused save, a spent budget and a cancellation stop a run.
LEMMA InterruptedStops ==
    ASSUME TypeOK, NEW o \in Orders,
           Raise(o) \/ SaveRefused(o) \/ OutOfSteps(o) \/ Cancel(o)
    PROVE  \E t \in {"failed", "canceled"} :
              \E u \in SUBSET InFlight(o) : Stops(o, t, u)
  <1>1. ASSUME NEW u \in SUBSET InFlight(o), task[o] = "working", Abort(o, u)
        PROVE  Stops(o, "failed", u)
    BY <1>1 DEF Abort, Stops, TypeOK
  <1>2. CASE Raise(o)
    BY <1>1, <1>2 DEF Raise, Running
  <1>3. CASE SaveRefused(o)
    BY <1>1, <1>3 DEF SaveRefused, Running
  <1>4. CASE OutOfSteps(o)
    BY <1>1, <1>4 DEF OutOfSteps
  <1>5. CASE Cancel(o)
    <2>1. PICK u \in SUBSET InFlight(o) : orphan' = [orphan EXCEPT ![o] = u]
      BY <1>5 DEF Cancel
    <2>2. Stops(o, "canceled", u)
      BY <1>5, <2>1 DEF Cancel, Stops, TypeOK
    <2> QED BY <2>2
  <1> QED BY <1>2, <1>3, <1>4, <1>5

LEMMA InterruptedKeeps ==
    ASSUME RunInv, NEW o \in Orders,
           Raise(o) \/ SaveRefused(o) \/ OutOfSteps(o) \/ Cancel(o)
    PROVE  RunInv'
  <1>1. PICK t \in {"failed", "canceled"} :
           \E u \in SUBSET InFlight(o) : Stops(o, t, u)
    BY InterruptedStops DEF RunInv
  <1> QED BY <1>1, StopsKeeps

LEMMA LateKeeps ==
    ASSUME RunInv, NEW o \in Orders, LateEffect(o) \/ LateLoss(o)
    PROVE  RunInv'
  <1>0. PICK n \in orphan[o] :
           /\ orphan' = [orphan EXCEPT ![o] = @ \ {n}]
           /\ \E d \in {done[o], done[o] \cup {n}} : done' = [done EXCEPT ![o] = d]
           /\ UNCHANGED <<task, node, hops, st, trail, audit>>
    <2>1. CASE LateEffect(o)
      BY <2>1 DEF LateEffect
    <2>2. CASE LateLoss(o)
      <3>1. done = [done EXCEPT ![o] = done[o]]
        BY DEF RunInv, TypeOK
      <3> QED BY <2>2, <3>1 DEF LateLoss
    <2> QED BY <2>1, <2>2
  <1>1. PICK d \in {done[o], done[o] \cup {n}} :
           /\ orphan' = [orphan EXCEPT ![o] = @ \ {n}]
           /\ done' = [done EXCEPT ![o] = d]
           /\ UNCHANGED <<task, node, hops, st, trail, audit>>
    BY <1>0
  <1>2. n \in CallNodes /\ d \subseteq CallNodes
    BY DEF RunInv, TypeOK
  <1>3. TypeOK'
    BY <1>1, <1>2 DEF RunInv, TypeOK
  <1>4. /\ Untouched(o) /\ task'[o] = task[o] /\ node'[o] = node[o] /\ st'[o] = st[o]
        /\ done'[o] = d /\ orphan'[o] = orphan[o] \ {n}
    BY <1>1 DEF RunInv, TypeOK, Untouched
  <1>5. Path(task[o], node[o], st[o], done[o], orphan[o])
    BY DEF RunInv, PathInv
  <1>6. Path(task[o], node[o], st[o], d, orphan[o] \ {n})
    <2>1. d \cup (orphan[o] \ {n}) \subseteq done[o] \cup orphan[o]
      OBVIOUS
    <2> QED BY <1>5, <2>1 DEF Path
  <1>7. Path(task'[o], node'[o], st'[o], done'[o], orphan'[o])
    BY <1>4, <1>6
  <1> QED BY <1>3, <1>4, <1>7, PathStep

LEMMA RunInvInit == Init => RunInv
  <1> SUFFICES ASSUME Init PROVE RunInv
    OBVIOUS
  <1>1. TypeOK
    BY InitialStateTyped, RecursionLimitAssumption DEF Init, TypeOK, Nodes
  <1>2. ASSUME NEW o \in Orders
        PROVE  Path("none", "START", InitialState, {}, {})
    BY DEF InitialState, Path, Scope, Active, Before, StatusAt, GatesAt, EndsAt, IdsAt
  <1>3. PathInv
    BY <1>2 DEF Init, PathInv
  <1> QED BY <1>1, <1>3 DEF RunInv

LEMMA RunInvNext == RunInv /\ [Next]_vars => RunInv'
  <1> SUFFICES ASSUME RunInv, [Next]_vars PROVE RunInv'
    OBVIOUS
  <1>1. CASE UNCHANGED vars
    BY <1>1 DEF vars, RunInv, TypeOK, PathInv
  <1>2. ASSUME NEW o \in Orders,
               Submit(o) \/ Work(o) \/ Cancel(o) \/ LateEffect(o) \/ LateLoss(o)
        PROVE  RunInv'
    BY <1>2, SubmitKeeps, StartWorkKeeps, ExtractIntentKeeps, ClarifyKeeps, ConfirmKeeps,
       CheckInventoryKeeps, ProcessPaymentKeeps, ArrangeShippingKeeps,
       RollbackInventoryKeeps, SaveOrderKeeps, SendNotificationKeeps,
       FormatResponseKeeps, CompleteKeeps, InterruptedKeeps, LateKeeps DEF Work
  <1> QED BY <1>1, <1>2 DEF Next

(***************************************************************************)
(* The theorems, for any peers.                                            *)
(***************************************************************************)
THEOREM RunInvariant == Spec => []RunInv
  BY RunInvInit, RunInvNext, PTL DEF Spec

\* The workflow state has its type whatever the peers reply and wherever a
\* run is interrupted.
THEOREM TypeCorrect == Spec => []TypeOK
  <1>1. RunInv => TypeOK
    BY DEF RunInv
  <1> QED BY <1>1, RunInvariant, PTL

\* A run tells its customer something exactly when it reached END.
LEMMA ToldAtEnd ==
    ASSUME RunInv, NEW o \in Orders, Told(o)
    PROVE  /\ node[o] = "END" /\ st[o].confirmation.status = st[o].status
           /\ Path(task[o], "END", st[o], done[o], orphan[o])
  <1>1. Path(task[o], node[o], st[o], done[o], orphan[o])
    BY DEF RunInv, PathInv
  <1>2. st[o].confirmation # NoConfirmation
    BY DEF Told, TellsOf, NoConfirmation
  <1>3. node[o] = "END"
    BY <1>1, <1>2 DEF Path, StatusAt
  <1> QED BY <1>1, <1>3 DEF Path, StatusAt

\* _after_extract: an order put aside for review has touched nothing.
THEOREM ReviewTouchesNothing == Spec => []ReviewHasNoSideEffects
  <1>1. RunInv => ReviewHasNoSideEffects
    <2> SUFFICES ASSUME RunInv, NEW o \in Orders, TellsOf(o, "pending_review")
                 PROVE  done[o] = {} /\ orphan[o] = {}
      BY DEF ReviewHasNoSideEffects
    <2>1. Told(o)
      BY DEF Told, TellsOf
    <2>2. /\ Path(task[o], "END", st[o], done[o], orphan[o])
          /\ st[o].status = "pending_review"
      BY <2>1, ToldAtEnd DEF TellsOf
    <2> QED BY <2>2 DEF Path, Scope, Before, CallNodes
  <1> QED BY <1>1, RunInvariant, PTL

\* _after_inventory and _after_payment: a refused order is not shipped,
\* recorded or notified.
THEOREM RejectionIsFinal == Spec => []RejectionStopsTheSaga
  <1>1. RunInv => RejectionStopsTheSaga
    <2> SUFFICES ASSUME RunInv, NEW o \in Orders, st[o].status = "failed"
                 PROVE  (done[o] \cup orphan[o]) \subseteq
                          {"check_inventory", "process_payment", "rollback_inventory"}
      BY DEF RejectionStopsTheSaga
    <2>1. /\ Path(task[o], node[o], st[o], done[o], orphan[o])
          /\ node[o] \in Nodes \cup {"START", "END"}
      BY DEF RunInv, PathInv, TypeOK
    <2>2. node[o] \in {"clarify", "rollback_inventory", "format_response", "END"}
      BY <2>1 DEF Path, StatusAt, Nodes, CallNodes
    <2> QED BY <2>1, <2>2 DEF Path, Scope, Before, CallNodes
  <1> QED BY <1>1, RunInvariant, PTL

\* create_order refuses a missing identifier, so a confirmed order has both.
THEOREM ConfirmedIsIdentified == Spec => []ConfirmedCarriesIds
  <1>1. RunInv => ConfirmedCarriesIds
    <2> SUFFICES ASSUME RunInv, NEW o \in Orders, TellsOf(o, "confirmed")
                 PROVE  st[o].confirmation.transaction_id /\ st[o].confirmation.tracking_id
      BY DEF ConfirmedCarriesIds
    <2>1. Told(o)
      BY DEF Told, TellsOf
    <2>2. IdsAt("END", st[o]) /\ st[o].status = "confirmed"
      BY <2>1, ToldAtEnd DEF TellsOf, Path
    <2> QED BY <2>2 DEF IdsAt
  <1> QED BY <1>1, RunInvariant, PTL

\* _format_response: the confirmation tells the outcome of the run and its
\* cause, whatever the LLM drafts.
THEOREM ConfirmationIsTheRuns == Spec => []ConfirmationTellsTheRun
  <1>1. RunInv => ConfirmationTellsTheRun
    <2> SUFFICES ASSUME RunInv, NEW o \in Orders, Told(o)
                 PROVE  LET c == st[o].confirmation
                            s == st[o]
                        IN  /\ c.status = "confirmed" <=> s.inventory_ok /\ s.payment_ok
                            /\ c.failure_reason =
                                  IF c.status = "confirmed" THEN "unset"
                                  ELSE IF c.status = "pending_review" THEN "intent"
                                  ELSE IF s.inventory_ok THEN "payment" ELSE "inventory"
                            /\ c.amount = "catalog"
      BY DEF ConfirmationTellsTheRun
    <2>1. /\ EndsAt("END", st[o]) /\ IdsAt("END", st[o])
          /\ st[o].confirmation.status = st[o].status
      BY ToldAtEnd DEF Path
    <2> QED BY <2>1 DEF EndsAt, IdsAt, Reason
  <1> QED BY <1>1, RunInvariant, PTL

=============================================================================
