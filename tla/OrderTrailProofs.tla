--------------------------- MODULE OrderTrailProofs ---------------------------
(***************************************************************************)
(* What a run of OrderWorkflow leaves behind: the steps it executed, the   *)
(* replies it kept, the budget it spent and the audit trail, for any       *)
(* orders, peers, faults and recursion limits.                             *)
(***************************************************************************)
EXTENDS OrderWorkflowProofs

(***************************************************************************)
(* The history of one run is a function of its node (n) and its gates (s). *)
(***************************************************************************)
\* The steps a run has executed before node n.
StepsAt(n, s) ==
    CASE n \in {"START", "extract_intent", "clarify", "confirm_with_customer",
                "check_inventory"} -> <<>>
      [] n = "process_payment" -> <<"check_inventory">>
      [] n \in {"arrange_shipping", "rollback_inventory"} ->
            <<"check_inventory", "process_payment">>
      [] n = "save_order" ->
            <<"check_inventory", "process_payment", "arrange_shipping">>
      [] n = "send_notification" ->
            <<"check_inventory", "process_payment", "arrange_shipping", "save_order">>
      [] n \in {"format_response", "END"} ->
            IF s.payment_ok
            THEN <<"check_inventory", "process_payment", "arrange_shipping",
                   "save_order", "send_notification">>
            ELSE IF s.inventory_ok
            THEN <<"check_inventory", "process_payment", "rollback_inventory">>
            ELSE IF s.failure_reason = "intent" THEN <<>> ELSE <<"check_inventory">>

\* The nodes a run has gone through before node n.
HopsAt(n, s) ==
    CASE n \in {"START", "extract_intent"} -> 0
      [] n \in {"clarify", "confirm_with_customer"} -> 1
      [] n = "check_inventory" -> 2
      [] n = "process_payment" -> 3
      [] n \in {"arrange_shipping", "rollback_inventory"} -> 4
      [] n = "save_order" -> 5
      [] n = "send_notification" -> 6
      [] n \in {"format_response", "END"} ->
            (IF s.payment_ok THEN 7
             ELSE IF s.inventory_ok THEN 5
             ELSE IF s.failure_reason = "intent" THEN 2 ELSE 3)
            + (IF n = "END" THEN 1 ELSE 0)

\* Whose reply the key of step m holds: the release overwrites the check.
Shown(m, s) ==
    IF m = "check_inventory" /\ "rollback_inventory" \in Range(s.executed_steps)
    THEN "rollback_inventory" ELSE m

Remembers(s) ==
    \A m \in Range(s.executed_steps) : s.result[ResultKey(m)].by = Shown(m, s)

\* The reply to a release, if it was kept and tells of no failure, is true.
Freed(s, d) ==
    LET kept == s.result["inventory_result"]
    IN  kept.by = "rollback_inventory" /\ kept.tone = "unmarked" => "rollback_inventory" \in d

\* What a run still on its way has done: only what it executed, under
\* HonestRefusals no charge without a reply that tells of it, and under
\* HonestReleases a release that a reply tells of.
Accounted(s, d) ==
    /\ d \subseteq Range(s.executed_steps)
    /\ HonestRefusals /\ "process_payment" \in d => s.payment_ok
    /\ HonestReleases => Freed(s, d)

Settled(n, s, h) ==
    /\ s.executed_steps = StepsAt(n, s)
    /\ h = HopsAt(n, s)
    /\ Remembers(s)

History(t, n, s, h, d, r) ==
    /\ Settled(n, s, h)
    /\ t \in Active \cup {"completed"} => Accounted(s, d)
    /\ r = IF t = "completed" THEN AuditSteps(s) ELSE <<>>

HistoryInv ==
    \A o \in Orders : History(task[o], node[o], st[o], hops[o], done[o], trail[o])

TrailInv == RunInv /\ HistoryInv

(***************************************************************************)
(* Facts about the record of a run.                                        *)
(***************************************************************************)
LEMMA AppendedRange ==
    ASSUME NEW steps \in Seq(CallNodes), NEW n \in CallNodes
    PROVE  Range(Append(steps, n)) = Range(steps) \cup {n}
  <1> DEFINE t == Append(steps, n)
  <1>1. /\ DOMAIN t = 1 .. Len(steps) + 1 /\ DOMAIN steps = 1 .. Len(steps)
        /\ \A i \in DOMAIN steps : t[i] = steps[i]
        /\ t[Len(steps) + 1] = n /\ Len(steps) \in Nat
    OBVIOUS
  <1> HIDE DEF t
  <1>2. DOMAIN t = DOMAIN steps \cup {Len(steps) + 1}
    BY <1>1
  <1> QED BY <1>1, <1>2 DEF Range, t

\* The steps of each path, as sets.
LEMMA PathRanges ==
    /\ Range(<<>>) = {}
    /\ Range(<<"check_inventory">>) = {"check_inventory"}
    /\ Range(<<"check_inventory", "process_payment">>)
          = {"check_inventory", "process_payment"}
    /\ Range(<<"check_inventory", "process_payment", "rollback_inventory">>)
          = {"check_inventory", "process_payment", "rollback_inventory"}
    /\ Range(<<"check_inventory", "process_payment", "arrange_shipping">>)
          = {"check_inventory", "process_payment", "arrange_shipping"}
    /\ Range(<<"check_inventory", "process_payment", "arrange_shipping", "save_order">>)
          = {"check_inventory", "process_payment", "arrange_shipping", "save_order"}
    /\ Range(<<"check_inventory", "process_payment", "arrange_shipping", "save_order",
               "send_notification">>)
          = {"check_inventory", "process_payment", "arrange_shipping", "save_order",
             "send_notification"}
  BY DEF Range

\* Two steps share a key only if one releases what the other reserved.
LEMMA SharedKey ==
    ASSUME NEW m \in CallNodes, NEW n \in CallNodes, m # n, ResultKey(m) = ResultKey(n)
    PROVE  {m, n} = {"check_inventory", "rollback_inventory"}
  BY DEF CallNodes, ResultKey

\* A new step keeps its own reply and spoils none but the inventory check's.
LEMMA CallRemembers ==
    ASSUME NEW r \in OrderState, NEW s \in OrderState, NEW n \in CallNodes,
           NEW out \in Outcome, Records(s, r, n, out), Remembers(r),
           n \notin Range(r.executed_steps),
           "rollback_inventory" \notin Range(r.executed_steps)
    PROVE  Remembers(s)
  <1>1. r.executed_steps \in Seq(CallNodes) /\ r.result \in [ResultKeys -> Reply]
    BY DEF OrderState
  <1>2. Range(s.executed_steps) = Range(r.executed_steps) \cup {n}
    BY <1>1, AppendedRange DEF Records
  <1>3. Range(r.executed_steps) \subseteq CallNodes
    BY <1>1 DEF Range
  <1>4. /\ s.result[ResultKey(n)].by = n
        /\ \A k \in ResultKeys : k # ResultKey(n) => s.result[k] = r.result[k]
    BY <1>1, ResultKeyTyped DEF Records
  <1> SUFFICES ASSUME NEW m \in Range(s.executed_steps)
               PROVE  s.result[ResultKey(m)].by = Shown(m, s)
    BY DEF Remembers
  <1>5. CASE m = n
    BY <1>2, <1>4, <1>5 DEF Shown
  <1>6. CASE m # n
    <2>1. m \in Range(r.executed_steps) /\ m \in CallNodes /\ m # "rollback_inventory"
      BY <1>2, <1>3, <1>6
    <2>2. CASE ResultKey(m) = ResultKey(n)
      <3>1. n = "rollback_inventory" /\ m = "check_inventory"
        BY <1>6, <2>1, <2>2, SharedKey
      <3> QED BY <1>2, <1>4, <2>2, <3>1 DEF Shown
    <2>3. CASE ResultKey(m) # ResultKey(n)
      <3>1. ~(m = "check_inventory" /\ n = "rollback_inventory")
        BY <2>3 DEF ResultKey
      <3>2. s.result[ResultKey(m)] = r.result[ResultKey(m)]
        BY <1>4, <2>1, <2>3, ResultKeyTyped
      <3>3. r.result[ResultKey(m)].by = m
        BY <2>1 DEF Remembers, Shown
      <3>4. Shown(m, s) = m
        BY <1>2, <3>1 DEF Shown
      <3> QED BY <3>2, <3>3, <3>4
    <2> QED BY <2>2, <2>3
  <1> QED BY <1>5, <1>6

\* A call accounts for its own effect.
LEMMA CallAccounted ==
    ASSUME NEW r \in OrderState, NEW s \in OrderState, NEW n \in CallNodes,
           NEW out \in Outcome, NEW d, Records(s, r, n, out), Accounted(r, d),
           n # "process_payment" => s.payment_ok = r.payment_ok,
           n = "process_payment" /\ HonestRefusals => (out.done => s.payment_ok),
           n = "rollback_inventory" /\ HonestReleases => (out.tone = "unmarked" => out.done),
           n = "process_payment" => n \notin Range(r.executed_steps)
    PROVE  Accounted(s, Effect(d, n, out))
  <1>1. Range(s.executed_steps) = Range(r.executed_steps) \cup {n}
    BY AppendedRange DEF Records, OrderState
  <1>2. /\ Effect(d, n, out) \subseteq Range(s.executed_steps)
        /\ HonestRefusals /\ "process_payment" \in Effect(d, n, out) => s.payment_ok
    BY <1>1 DEF Accounted, Effect
  <1>3. ASSUME HonestReleases PROVE Freed(s, Effect(d, n, out))
    <2>1. r.result \in [ResultKeys -> Reply] /\ ResultKey(n) \in ResultKeys
      BY ResultKeyTyped DEF OrderState
    <2>2. CASE ResultKey(n) = "inventory_result"
      <3>1. n \in {"check_inventory", "rollback_inventory"}
        BY <2>2 DEF ResultKey, CallNodes
      <3>2. s.result["inventory_result"] = [by |-> n, tone |-> out.tone]
        BY <2>1, <2>2 DEF Records
      <3>3. n = "rollback_inventory" /\ out.tone = "unmarked" => n \in Effect(d, n, out)
        BY <1>3 DEF Effect
      <3> QED BY <3>1, <3>2, <3>3 DEF Freed
    <2>3. CASE ResultKey(n) # "inventory_result"
      <3>1. s.result["inventory_result"] = r.result["inventory_result"]
        BY <2>1, <2>3 DEF Records, ResultKeys
      <3>2. Freed(r, d) /\ d \subseteq Effect(d, n, out)
        BY <1>3 DEF Accounted, Effect
      <3> QED BY <3>1, <3>2 DEF Freed
    <2> QED BY <2>2, <2>3
  <1> QED BY <1>2, <1>3 DEF Accounted

(***************************************************************************)
(* What is known of a run about to execute a node, and what its node owes. *)
(***************************************************************************)
LEMMA HistoryStep ==
    ASSUME HistoryInv, NEW o \in Orders, Untouched(o),
           History(task'[o], node'[o], st'[o], hops'[o], done'[o], trail'[o])
    PROVE  HistoryInv'
  <1>1. ASSUME NEW x \in Orders, x # o
        PROVE  History(task'[x], node'[x], st'[x], hops'[x], done'[x], trail'[x])
    <2>1. History(task[x], node[x], st[x], hops[x], done[x], trail[x])
      BY DEF HistoryInv
    <2>2. /\ task'[x] = task[x] /\ node'[x] = node[x] /\ st'[x] = st[x]
          /\ hops'[x] = hops[x] /\ done'[x] = done[x] /\ trail'[x] = trail[x]
      BY <1>1 DEF Untouched
    <2> QED BY <2>1, <2>2
  <1> QED BY <1>1 DEF HistoryInv

LEMMA TrailStarts ==
    ASSUME TrailInv, NEW o \in Orders, NEW n, NEW next, NEW s, NEW d,
           Moves(o, n, next, s, d)
    PROVE  /\ st[o] \in OrderState /\ hops[o] \in Nat
           /\ Good(n, st[o], done[o]) /\ Settled(n, st[o], hops[o])
           /\ Accounted(st[o], done[o]) /\ trail[o] = <<>>
  <1>1. st[o] \in OrderState /\ hops[o] \in Nat /\ Good(n, st[o], done[o])
    BY MoveStarts DEF TrailInv, RunInv, TypeOK
  <1>2. History("working", n, st[o], hops[o], done[o], trail[o])
    BY DEF TrailInv, HistoryInv, Moves
  <1> QED BY <1>1, <1>2 DEF History, Active

LEMMA TrailEnds ==
    ASSUME TrailInv, NEW o \in Orders, NEW n, NEW next, NEW s, NEW d,
           Moves(o, n, next, s, d), Settled(next, s, hops[o] + 1), Accounted(s, d)
    PROVE  HistoryInv'
  <1>1. trail[o] = <<>>
    BY TrailStarts
  <1>2. History("working", next, s, hops[o] + 1, d, trail[o])
    BY <1>1 DEF History, Active
  <1>3. /\ task'[o] = "working" /\ node'[o] = next /\ st'[o] = s /\ done'[o] = d
        /\ hops'[o] = hops[o] + 1 /\ trail'[o] = trail[o] /\ Untouched(o)
    BY DEF Moves
  <1>4. History(task'[o], node'[o], st'[o], hops'[o], done'[o], trail'[o])
    BY <1>2, <1>3
  <1> QED BY <1>3, <1>4, HistoryStep DEF TrailInv

\* A node without a call leaves the record of the run alone.
LEMMA QuietNodeTrail ==
    ASSUME TrailInv, NEW o \in Orders, NEW n, NEW next, NEW s,
           Moves(o, n, next, s, done[o]), SameRecord(s, st[o]),
           s.payment_ok = st[o].payment_ok,
           StepsAt(next, s) = StepsAt(n, st[o]),
           HopsAt(next, s) = HopsAt(n, st[o]) + 1
    PROVE  HistoryInv'
  <1>1. Settled(n, st[o], hops[o]) /\ Accounted(st[o], done[o])
    BY TrailStarts
  <1>2. Settled(next, s, hops[o] + 1)
    BY <1>1 DEF Settled, SameRecord, Remembers, Shown
  <1>3. Accounted(s, done[o])
    BY <1>1 DEF Accounted, SameRecord, Freed
  <1> QED BY <1>2, <1>3, TrailEnds

\* A node with a call adds one step to it.
LEMMA CallTrail ==
    ASSUME TrailInv, NEW o \in Orders, NEW n \in CallNodes, NEW next,
           NEW out \in Outcome, NEW s \in OrderState,
           Moves(o, n, next, s, Effect(done[o], n, out)), Records(s, st[o], n, out),
           n # "process_payment" => s.payment_ok = st[o].payment_ok,
           n = "process_payment" /\ HonestRefusals => (out.done => s.payment_ok),
           n = "rollback_inventory" /\ HonestReleases => (out.tone = "unmarked" => out.done),
           StepsAt(next, s) = Append(StepsAt(n, st[o]), n),
           HopsAt(next, s) = HopsAt(n, st[o]) + 1,
           n \notin Range(StepsAt(n, st[o])),
           "rollback_inventory" \notin Range(StepsAt(n, st[o]))
    PROVE  HistoryInv'
  <1>1. /\ st[o] \in OrderState
        /\ Settled(n, st[o], hops[o]) /\ Accounted(st[o], done[o])
    BY TrailStarts
  <1>2. st[o].executed_steps = StepsAt(n, st[o]) /\ hops[o] = HopsAt(n, st[o])
    BY <1>1 DEF Settled
  <1>3. Remembers(s)
    BY <1>1, <1>2, CallRemembers DEF Settled
  <1>4. Settled(next, s, hops[o] + 1)
    BY <1>2, <1>3 DEF Settled, Records
  <1>5. Accounted(s, Effect(done[o], n, out))
    BY <1>1, <1>2, CallAccounted
  <1> QED BY <1>4, <1>5, TrailEnds

(***************************************************************************)
(* Every action keeps the history of its run.                              *)
(***************************************************************************)
LEMMA ExtractIntentTrail ==
    ASSUME TrailInv, NEW o \in Orders, ExtractIntent(o)
    PROVE  HistoryInv'
  <1>1. PICK s \in OrderState, next \in {"clarify", "confirm_with_customer"} :
           /\ Moves(o, "extract_intent", next, s, done[o])
           /\ SameRecord(s, st[o]) /\ s.payment_ok = st[o].payment_ok
    BY ExtractIntentMoves DEF TrailInv, RunInv
  <1>2. /\ StepsAt(next, s) = StepsAt("extract_intent", st[o])
        /\ HopsAt(next, s) = HopsAt("extract_intent", st[o]) + 1
    BY DEF StepsAt, HopsAt
  <1> QED BY <1>1, <1>2, QuietNodeTrail

LEMMA ClarifyTrail ==
    ASSUME TrailInv, NEW o \in Orders, Clarify(o)
    PROVE  HistoryInv'
  <1>1. PICK s \in OrderState :
           /\ Moves(o, "clarify", "format_response", s, done[o])
           /\ s.inventory_ok = st[o].inventory_ok /\ s.payment_ok = st[o].payment_ok
           /\ s.failure_reason = "intent" /\ SameRecord(s, st[o])
    BY ClarifyMoves DEF TrailInv, RunInv
  <1>2. Good("clarify", st[o], done[o])
    BY <1>1, TrailStarts
  <1>3. /\ StepsAt("format_response", s) = StepsAt("clarify", st[o])
        /\ HopsAt("format_response", s) = HopsAt("clarify", st[o]) + 1
    BY <1>1, <1>2 DEF StepsAt, HopsAt, Good, GatesAt
  <1> QED BY <1>1, <1>3, QuietNodeTrail

LEMMA ConfirmTrail ==
    ASSUME TrailInv, NEW o \in Orders, ConfirmWithCustomer(o)
    PROVE  HistoryInv'
  <1>1. Moves(o, "confirm_with_customer", "check_inventory", st[o], done[o])
    BY ConfirmMoves DEF TrailInv, RunInv
  <1>2. /\ StepsAt("check_inventory", st[o]) = StepsAt("confirm_with_customer", st[o])
        /\ HopsAt("check_inventory", st[o]) = HopsAt("confirm_with_customer", st[o]) + 1
    BY DEF StepsAt, HopsAt
  <1> QED BY <1>1, <1>2, QuietNodeTrail DEF SameRecord

LEMMA CheckInventoryTrail ==
    ASSUME TrailInv, NEW o \in Orders, CheckInventory(o)
    PROVE  HistoryInv'
  <1>1. TypeOK
    BY DEF TrailInv, RunInv
  <1>2. PICK out \in Outcomes["check_inventory"], s \in OrderState :
           /\ s = InventoryChecked(st[o], out)
           /\ Moves(o, "check_inventory", AfterInventory(s), s,
                    Effect(done[o], "check_inventory", out))
    BY <1>1, CheckInventoryMoves
  <1>3. /\ st[o] \in OrderState /\ out \in Outcome
        /\ Good("check_inventory", st[o], done[o])
    BY <1>2, TrailStarts, OutcomeTyped DEF CallNodes
  <1>4. /\ Records(s, st[o], "check_inventory", out) /\ s.payment_ok = st[o].payment_ok
        /\ ~s.inventory_ok => s.failure_reason = "inventory"
    BY <1>2, <1>3, InventoryCheckedFacts
  <1>5. StepsAt(AfterInventory(s), s) = Append(StepsAt("check_inventory", st[o]), "check_inventory")
    BY <1>3, <1>4 DEF StepsAt, Good, GatesAt, AfterInventory
  <1>6. HopsAt(AfterInventory(s), s) = HopsAt("check_inventory", st[o]) + 1
    BY <1>3, <1>4 DEF HopsAt, Good, GatesAt, AfterInventory
  <1>7. /\ "check_inventory" \notin Range(StepsAt("check_inventory", st[o]))
        /\ "rollback_inventory" \notin Range(StepsAt("check_inventory", st[o]))
    BY PathRanges DEF StepsAt
  <1> QED BY <1>2, <1>3, <1>4, <1>5, <1>6, <1>7, CallTrail DEF CallNodes

LEMMA ProcessPaymentTrail ==
    ASSUME TrailInv, NEW o \in Orders, ProcessPayment(o)
    PROVE  HistoryInv'
  <1>1. TypeOK
    BY DEF TrailInv, RunInv
  <1>2. PICK out \in Outcomes["process_payment"], s \in OrderState :
           /\ s = PaymentProcessed(st[o], out)
           /\ Moves(o, "process_payment", AfterPayment(s), s,
                    Effect(done[o], "process_payment", out))
    BY <1>1, ProcessPaymentMoves
  <1>3. /\ st[o] \in OrderState /\ out \in Outcome
        /\ Good("process_payment", st[o], done[o])
    BY <1>2, TrailStarts, OutcomeTyped DEF CallNodes
  <1>4. /\ Records(s, st[o], "process_payment", out)
        /\ s.inventory_ok = st[o].inventory_ok
        /\ HonestRefusals => (out.done => s.payment_ok)
    BY <1>2, <1>3, PaymentProcessedFacts DEF HonestRefusals
  <1>5. StepsAt(AfterPayment(s), s) = Append(StepsAt("process_payment", st[o]), "process_payment")
    BY <1>3, <1>4 DEF StepsAt, Good, GatesAt, AfterPayment
  <1>6. HopsAt(AfterPayment(s), s) = HopsAt("process_payment", st[o]) + 1
    BY <1>3, <1>4 DEF HopsAt, Good, GatesAt, AfterPayment
  <1>7. /\ "process_payment" \notin Range(StepsAt("process_payment", st[o]))
        /\ "rollback_inventory" \notin Range(StepsAt("process_payment", st[o]))
    BY PathRanges DEF StepsAt
  <1> QED BY <1>2, <1>3, <1>4, <1>5, <1>6, <1>7, CallTrail DEF CallNodes

LEMMA ArrangeShippingTrail ==
    ASSUME TrailInv, NEW o \in Orders, ArrangeShipping(o)
    PROVE  HistoryInv'
  <1>1. TypeOK
    BY DEF TrailInv, RunInv
  <1>2. PICK out \in Outcomes["arrange_shipping"], s \in OrderState :
           /\ Kept([s EXCEPT !.tracking_id = st[o].tracking_id], st[o])
           /\ Records(s, st[o], "arrange_shipping", out)
           /\ Moves(o, "arrange_shipping", "save_order", s,
                    Effect(done[o], "arrange_shipping", out))
    BY <1>1, ArrangeShippingMoves
  <1>3. /\ st[o] \in OrderState /\ out \in Outcome
        /\ Good("arrange_shipping", st[o], done[o])
    BY <1>2, TrailStarts, OutcomeTyped DEF CallNodes
  <1>4. s.payment_ok = st[o].payment_ok
    BY <1>2 DEF Kept, OrderState
  <1>5. StepsAt("save_order", s) = Append(StepsAt("arrange_shipping", st[o]), "arrange_shipping")
    BY <1>3, <1>4 DEF StepsAt, Good, GatesAt
  <1>6. HopsAt("save_order", s) = HopsAt("arrange_shipping", st[o]) + 1
    BY <1>3, <1>4 DEF HopsAt, Good, GatesAt
  <1>7. /\ "arrange_shipping" \notin Range(StepsAt("arrange_shipping", st[o]))
        /\ "rollback_inventory" \notin Range(StepsAt("arrange_shipping", st[o]))
    BY PathRanges DEF StepsAt
  <1> QED BY <1>2, <1>3, <1>4, <1>5, <1>6, <1>7, CallTrail DEF CallNodes

LEMMA RollbackInventoryTrail ==
    ASSUME TrailInv, NEW o \in Orders, RollbackInventory(o)
    PROVE  HistoryInv'
  <1>1. TypeOK
    BY DEF TrailInv, RunInv
  <1>2. PICK out \in Outcomes["rollback_inventory"], s \in OrderState :
           /\ s = RolledBack(st[o], out)
           /\ Moves(o, "rollback_inventory", "format_response", s,
                    Effect(done[o], "rollback_inventory", out))
    BY <1>1, RollbackInventoryMoves
  <1>3. /\ st[o] \in OrderState /\ out \in Outcome
        /\ Good("rollback_inventory", st[o], done[o])
    BY <1>2, TrailStarts, OutcomeTyped DEF CallNodes
  <1>4. /\ Records(s, st[o], "rollback_inventory", out)
        /\ s.inventory_ok = st[o].inventory_ok /\ s.payment_ok = st[o].payment_ok
    BY <1>2, <1>3, RolledBackFacts
  <1>5. HonestReleases => (out.tone = "unmarked" => out.done)
    BY <1>2 DEF HonestReleases
  <1>6. StepsAt("format_response", s) = Append(StepsAt("rollback_inventory", st[o]), "rollback_inventory")
    BY <1>3, <1>4 DEF StepsAt, Good, GatesAt
  <1>7. HopsAt("format_response", s) = HopsAt("rollback_inventory", st[o]) + 1
    BY <1>3, <1>4 DEF HopsAt, Good, GatesAt
  <1>8. "rollback_inventory" \notin Range(StepsAt("rollback_inventory", st[o]))
    BY PathRanges DEF StepsAt
  <1> QED BY <1>2, <1>3, <1>4, <1>5, <1>6, <1>7, <1>8, CallTrail DEF CallNodes

LEMMA SaveOrderTrail ==
    ASSUME TrailInv, NEW o \in Orders, SaveOrder(o)
    PROVE  HistoryInv'
  <1>1. TypeOK
    BY DEF TrailInv, RunInv
  <1>2. PICK out \in Outcomes["save_order"], s \in OrderState :
           /\ Kept(s, st[o]) /\ Records(s, st[o], "save_order", out)
           /\ Moves(o, "save_order", "send_notification", s,
                    Effect(done[o], "save_order", out))
    BY <1>1, SaveOrderMoves
  <1>3. /\ st[o] \in OrderState /\ out \in Outcome
        /\ Good("save_order", st[o], done[o])
    BY <1>2, TrailStarts, OutcomeTyped DEF CallNodes
  <1>4. s.payment_ok = st[o].payment_ok
    BY <1>2 DEF Kept
  <1>5. StepsAt("send_notification", s) = Append(StepsAt("save_order", st[o]), "save_order")
    BY <1>3, <1>4 DEF StepsAt, Good, GatesAt
  <1>6. HopsAt("send_notification", s) = HopsAt("save_order", st[o]) + 1
    BY <1>3, <1>4 DEF HopsAt, Good, GatesAt
  <1>7. /\ "save_order" \notin Range(StepsAt("save_order", st[o]))
        /\ "rollback_inventory" \notin Range(StepsAt("save_order", st[o]))
    BY PathRanges DEF StepsAt
  <1> QED BY <1>2, <1>3, <1>4, <1>5, <1>6, <1>7, CallTrail DEF CallNodes

LEMMA SendNotificationTrail ==
    ASSUME TrailInv, NEW o \in Orders, SendNotification(o)
    PROVE  HistoryInv'
  <1>1. TypeOK
    BY DEF TrailInv, RunInv
  <1>2. PICK out \in Outcomes["send_notification"], s \in OrderState :
           /\ Kept(s, st[o]) /\ Records(s, st[o], "send_notification", out)
           /\ Moves(o, "send_notification", "format_response", s,
                    Effect(done[o], "send_notification", out))
    BY <1>1, SendNotificationMoves
  <1>3. /\ st[o] \in OrderState /\ out \in Outcome
        /\ Good("send_notification", st[o], done[o])
    BY <1>2, TrailStarts, OutcomeTyped DEF CallNodes
  <1>4. s.inventory_ok = st[o].inventory_ok /\ s.payment_ok = st[o].payment_ok
    BY <1>2 DEF Kept
  <1>5. StepsAt("format_response", s) = Append(StepsAt("send_notification", st[o]), "send_notification")
    BY <1>3, <1>4 DEF StepsAt, Good, GatesAt
  <1>6. HopsAt("format_response", s) = HopsAt("send_notification", st[o]) + 1
    BY <1>3, <1>4 DEF HopsAt, Good, GatesAt
  <1>7. /\ "send_notification" \notin Range(StepsAt("send_notification", st[o]))
        /\ "rollback_inventory" \notin Range(StepsAt("send_notification", st[o]))
    BY PathRanges DEF StepsAt
  <1> QED BY <1>2, <1>3, <1>4, <1>5, <1>6, <1>7, CallTrail DEF CallNodes

LEMMA FormatResponseTrail ==
    ASSUME TrailInv, NEW o \in Orders, FormatResponse(o)
    PROVE  HistoryInv'
  <1>1. PICK draft \in Confirmation, s \in OrderState :
           /\ s = [st[o] EXCEPT !.confirmation = Payload(draft, st[o]),
                                !.status = Payload(draft, st[o]).status]
           /\ Moves(o, "format_response", "END", s, done[o])
    BY FormatResponseMoves DEF TrailInv, RunInv
  <1>2. st[o] \in OrderState /\ Payload(draft, st[o]) \in Confirmation
    BY <1>1, TrailStarts, PayloadFacts
  <1>3. /\ s.inventory_ok = st[o].inventory_ok /\ s.payment_ok = st[o].payment_ok
        /\ s.failure_reason = st[o].failure_reason /\ SameRecord(s, st[o])
    BY <1>1, <1>2, ToldFacts
  <1>4. /\ StepsAt("END", s) = StepsAt("format_response", st[o])
        /\ HopsAt("END", s) = HopsAt("format_response", st[o]) + 1
    BY <1>3 DEF StepsAt, HopsAt
  <1> QED BY <1>1, <1>3, <1>4, QuietNodeTrail

\* The executor attaches the audit trail when, and only when, a run completes.
LEMMA CompleteTrail ==
    ASSUME TrailInv, NEW o \in Orders, Complete(o)
    PROVE  HistoryInv'
  <1>1. TypeOK /\ HistoryInv
    BY DEF TrailInv, RunInv
  <1>2. /\ task[o] = "working" /\ task'[o] = "completed" /\ Untouched(o)
        /\ node'[o] = node[o] /\ st'[o] = st[o] /\ hops'[o] = hops[o]
        /\ done'[o] = done[o] /\ trail'[o] = AuditSteps(st[o])
    BY <1>1 DEF TypeOK, Complete, Untouched
  <1>3. History("working", node[o], st[o], hops[o], done[o], trail[o])
    BY <1>1, <1>2 DEF HistoryInv
  <1>4. History("completed", node[o], st[o], hops[o], done[o], AuditSteps(st[o]))
    BY <1>3 DEF History, Active
  <1>5. History(task'[o], node'[o], st'[o], hops'[o], done'[o], trail'[o])
    BY <1>2, <1>4
  <1> QED BY <1>1, <1>2, <1>5, HistoryStep

LEMMA StartTrail ==
    ASSUME TrailInv, NEW o \in Orders, Submit(o) \/ StartWork(o)
    PROVE  HistoryInv'
  <1>1. TypeOK /\ HistoryInv
    BY DEF TrailInv, RunInv
  <1>2. /\ task[o] \in Active /\ task'[o] \in Active /\ Untouched(o)
        /\ node'[o] \in {node[o], "extract_intent"} /\ st'[o] = st[o]
        /\ hops'[o] = hops[o] /\ done'[o] = done[o] /\ trail'[o] = trail[o]
    BY <1>1 DEF TypeOK, Submit, StartWork, Untouched, Active
  <1>3. History(task[o], node[o], st[o], hops[o], done[o], trail[o])
    BY <1>1 DEF HistoryInv
  <1>4. node[o] = "START"
    BY DEF TrailInv, RunInv, PathInv, Path, Submit, StartWork
  <1>5. History(task'[o], node'[o], st[o], hops[o], done[o], trail[o])
    BY <1>2, <1>3, <1>4 DEF History, Settled, StepsAt, HopsAt, Active
  <1>6. History(task'[o], node'[o], st'[o], hops'[o], done'[o], trail'[o])
    BY <1>2, <1>5
  <1> QED BY <1>1, <1>2, <1>6, HistoryStep

\* What stops a run, and what its peers do afterwards, leaves its history.
LEMMA InterruptedTrail ==
    ASSUME TrailInv, NEW o \in Orders,
           Raise(o) \/ SaveRefused(o) \/ OutOfSteps(o) \/ Cancel(o)
    PROVE  HistoryInv'
  <1>1. TypeOK /\ HistoryInv
    BY DEF TrailInv, RunInv
  <1>2. PICK t \in {"failed", "canceled"} :
           \E u \in SUBSET InFlight(o) : Stops(o, t, u)
    BY <1>1, InterruptedStops
  <1>3. /\ task[o] \in Active /\ task'[o] = t /\ Untouched(o)
        /\ node'[o] = node[o] /\ st'[o] = st[o]
        /\ hops'[o] = hops[o] /\ done'[o] = done[o] /\ trail'[o] = trail[o]
    BY <1>1, <1>2 DEF TypeOK, Stops, Untouched, Active
  <1>4. History(task[o], node[o], st[o], hops[o], done[o], trail[o])
    BY <1>1 DEF HistoryInv
  <1>5. History(t, node[o], st[o], hops[o], done[o], trail[o])
    BY <1>3, <1>4 DEF History, Active
  <1>6. History(task'[o], node'[o], st'[o], hops'[o], done'[o], trail'[o])
    BY <1>3, <1>5
  <1> QED BY <1>1, <1>3, <1>6, HistoryStep

LEMMA LateTrail ==
    ASSUME TrailInv, NEW o \in Orders, LateEffect(o) \/ LateLoss(o)
    PROVE  HistoryInv'
  <1>1. TypeOK /\ HistoryInv
    BY DEF TrailInv, RunInv
  <1>2. /\ task'[o] = task[o] /\ node'[o] = node[o] /\ st'[o] = st[o]
        /\ hops'[o] = hops[o] /\ trail'[o] = trail[o] /\ Untouched(o)
    BY <1>1 DEF TypeOK, LateEffect, LateLoss, Untouched
  <1>3. History(task[o], node[o], st[o], hops[o], done[o], trail[o])
    BY <1>1 DEF HistoryInv
  <1>4. task[o] \notin Active \cup {"completed"}
    <2>1. orphan[o] # {}
      BY DEF LateEffect, LateLoss
    <2> QED BY <2>1 DEF TrailInv, RunInv, PathInv, Path
  <1>5. History(task[o], node[o], st[o], hops[o], done'[o], trail[o])
    BY <1>3, <1>4 DEF History
  <1>6. History(task'[o], node'[o], st'[o], hops'[o], done'[o], trail'[o])
    BY <1>2, <1>5
  <1> QED BY <1>1, <1>2, <1>6, HistoryStep

LEMMA TrailInit == Init => TrailInv
  <1> SUFFICES ASSUME Init PROVE HistoryInv
    BY RunInvInit DEF TrailInv
  <1>1. ASSUME NEW o \in Orders
        PROVE  History("none", "START", InitialState, 0, {}, <<>>)
    BY PathRanges DEF InitialState, History, Settled, StepsAt, HopsAt, Remembers, Accounted,
                      Freed, NoReply, ResultKeys
  <1> QED BY <1>1 DEF Init, HistoryInv

LEMMA TrailNext == TrailInv /\ [Next]_vars => TrailInv'
  <1> SUFFICES ASSUME TrailInv, [Next]_vars PROVE HistoryInv'
    BY RunInvNext DEF TrailInv
  <1>1. CASE UNCHANGED vars
    BY <1>1 DEF vars, TrailInv, HistoryInv
  <1>2. ASSUME NEW o \in Orders,
               Submit(o) \/ Work(o) \/ Cancel(o) \/ LateEffect(o) \/ LateLoss(o)
        PROVE  HistoryInv'
    BY <1>2, StartTrail, ExtractIntentTrail, ClarifyTrail, ConfirmTrail,
       CheckInventoryTrail, ProcessPaymentTrail, ArrangeShippingTrail,
       RollbackInventoryTrail, SaveOrderTrail, SendNotificationTrail,
       FormatResponseTrail, CompleteTrail, InterruptedTrail, LateTrail DEF Work
  <1> QED BY <1>1, <1>2 DEF Next

LEMMA TrailHolds == Spec => []TrailInv
  BY TrailInit, TrailNext, PTL DEF Spec

(***************************************************************************)
(* The theorems.                                                           *)
(***************************************************************************)
\* In a sequence without repetition a step occurs first where it occurs.
LEMMA FirstIs ==
    ASSUME NEW steps \in Seq(CallNodes), NEW k \in DOMAIN steps,
           \A i, j \in DOMAIN steps : steps[i] = steps[j] => i = j
    PROVE  First(steps, steps[k]) = k
  BY DEF First

\* A path that runs no step twice and keeps the order of the three first
\* steps is safe.
LEMMA InOrderIsSafe ==
    ASSUME NEW steps \in Seq(CallNodes),
           \A i, j \in DOMAIN steps : steps[i] = steps[j] => i = j,
           \A i \in DOMAIN steps :
              /\ steps[i] = "process_payment" => i > 1 /\ steps[1] = "check_inventory"
              /\ steps[i] = "arrange_shipping" => i > 2 /\ steps[2] = "process_payment"
    PROVE  CheckPlan(steps)
  <1>0. DOMAIN steps = 1 .. Len(steps) /\ Len(steps) \in Nat
    OBVIOUS
  <1>1. Follows(steps, "process_payment", "check_inventory")
    <2> SUFFICES ASSUME NEW i \in DOMAIN steps, steps[i] = "process_payment"
                 PROVE  /\ "check_inventory" \in Range(steps)
                        /\ First(steps, "check_inventory") < First(steps, "process_payment")
      BY DEF Follows, Range
    <2>1. 1 \in DOMAIN steps /\ steps[1] = "check_inventory" /\ i > 1
      BY <1>0
    <2>2. First(steps, "check_inventory") = 1 /\ First(steps, "process_payment") = i
      BY <2>1, FirstIs
    <2> QED BY <2>1, <2>2 DEF Range
  <1>2. Follows(steps, "arrange_shipping", "process_payment")
    <2> SUFFICES ASSUME NEW i \in DOMAIN steps, steps[i] = "arrange_shipping"
                 PROVE  /\ "process_payment" \in Range(steps)
                        /\ First(steps, "process_payment") < First(steps, "arrange_shipping")
      BY DEF Follows, Range
    <2>1. 2 \in DOMAIN steps /\ steps[2] = "process_payment" /\ i > 2
      BY <1>0
    <2>2. First(steps, "process_payment") = 2 /\ First(steps, "arrange_shipping") = i
      BY <2>1, FirstIs
    <2> QED BY <2>1, <2>2 DEF Range
  <1> QED BY <1>1, <1>2 DEF CheckPlan

LEMMA EveryPathIsSafe ==
    ASSUME NEW n \in Nodes \cup {"START", "END"}, NEW s
    PROVE  CheckPlan(StepsAt(n, s))
  <1>1. StepsAt(n, s) \in
           {<<>>, <<"check_inventory">>, <<"check_inventory", "process_payment">>,
            <<"check_inventory", "process_payment", "rollback_inventory">>,
            <<"check_inventory", "process_payment", "arrange_shipping">>,
            <<"check_inventory", "process_payment", "arrange_shipping", "save_order">>,
            <<"check_inventory", "process_payment", "arrange_shipping", "save_order",
              "send_notification">>}
    BY DEF StepsAt, Nodes, CallNodes
  <1> DEFINE p == StepsAt(n, s)
  <1>2. p \in Seq(CallNodes)
    <2>1. /\ <<>> \in Seq(CallNodes) /\ <<"check_inventory">> \in Seq(CallNodes)
          /\ <<"check_inventory", "process_payment">> \in Seq(CallNodes)
          /\ <<"check_inventory", "process_payment", "rollback_inventory">> \in Seq(CallNodes)
          /\ <<"check_inventory", "process_payment", "arrange_shipping">> \in Seq(CallNodes)
          /\ <<"check_inventory", "process_payment", "arrange_shipping", "save_order">>
                \in Seq(CallNodes)
          /\ <<"check_inventory", "process_payment", "arrange_shipping", "save_order",
               "send_notification">> \in Seq(CallNodes)
      BY DEF CallNodes
    <2> HIDE DEF p
    <2>2. p = StepsAt(n, s)
      BY DEF p
    <2> QED BY <1>1, <2>1, <2>2
  <1>3. \A i, j \in DOMAIN p : p[i] = p[j] => i = j
    BY <1>1
  <1>4. \A i \in DOMAIN p :
           /\ p[i] = "process_payment" => i > 1 /\ p[1] = "check_inventory"
           /\ p[i] = "arrange_shipping" => i > 2 /\ p[2] = "process_payment"
    BY <1>1
  <1> HIDE DEF p
  <1>5. CheckPlan(p)
    BY <1>2, <1>3, <1>4, InOrderIsSafe
  <1> QED BY <1>5 DEF p

\* The edges of the graph (build_graph, _after_inventory, _after_payment): on
\* no path would check_plan flag the steps a run executed.
THEOREM PlansAreSafe == Spec => []EveryPlanIsSafe
  <1>1. TrailInv => EveryPlanIsSafe
    <2> SUFFICES ASSUME TrailInv, NEW o \in Orders
                 PROVE  CheckPlan(st[o].executed_steps)
      BY DEF EveryPlanIsSafe
    <2>1. node[o] \in Nodes \cup {"START", "END"}
      BY DEF TrailInv, RunInv, TypeOK
    <2>2. st[o].executed_steps = StepsAt(node[o], st[o])
      BY DEF TrailInv, HistoryInv, History, Settled
    <2> QED BY <2>1, <2>2, EveryPathIsSafe
  <1> QED BY <1>1, TrailHolds, PTL

\* What the executor attaches to a completed task.
LEMMA CompletedTrail ==
    ASSUME TrailInv, NEW o \in Orders
    PROVE  /\ task[o] = "completed" => /\ trail[o] = AuditSteps(st[o])
                                       /\ Accounted(st[o], done[o])
           /\ task[o] # "completed" => trail[o] = <<>>
           /\ Remembers(st[o])
           /\ st[o].executed_steps \in Seq(CallNodes)
           /\ st[o].executed_steps = StepsAt(node[o], st[o])
  <1>1. st[o] \in OrderState
    BY DEF TrailInv, RunInv, TypeOK
  <1> QED BY <1>1 DEF TrailInv, HistoryInv, History, Settled, OrderState

\* _audit_steps of the executor: a call that took effect is in the trail of
\* its completed task, whatever its reply said.
THEOREM TrailIsComplete == Spec => []TrailMissesNoEffect
  <1>1. TrailInv => TrailMissesNoEffect
    <2> SUFFICES ASSUME TrailInv, NEW o \in Orders, task[o] = "completed",
                        NEW n \in done[o]
                 PROVE  \E i \in DOMAIN trail[o] : trail[o][i].step = n
      BY DEF TrailMissesNoEffect
    <2>1. /\ trail[o] = AuditSteps(st[o]) /\ n \in Range(st[o].executed_steps)
          /\ st[o].executed_steps \in Seq(CallNodes)
      BY CompletedTrail DEF Accounted
    <2>2. PICK i \in 1 .. Len(st[o].executed_steps) : st[o].executed_steps[i] = n
      BY <2>1 DEF Range
    <2>3. i \in DOMAIN trail[o] /\ trail[o][i].step = n
      BY <2>1, <2>2 DEF AuditSteps
    <2> QED BY <2>3
  <1> QED BY <1>1, TrailHolds, PTL

\* STEP_RESULT_KEY of the executor: a step of the trail shows the reply to
\* that step, but for the inventory check of a rolled back order.
THEOREM TrailIsTruthful == Spec => []TrailShowsTheReplies
  <1>1. TrailInv => TrailShowsTheReplies
    <2> SUFFICES ASSUME TrailInv, NEW o \in Orders, NEW i \in DOMAIN trail[o],
                        trail[o][i].shown.by # trail[o][i].step
                 PROVE  /\ trail[o][i].step = "check_inventory"
                        /\ trail[o][i].shown.by = "rollback_inventory"
                        /\ st[o].failure_reason = "payment"
      BY DEF TrailShowsTheReplies
    <2> DEFINE steps == st[o].executed_steps
    <2>1. trail[o] # <<>>
      OBVIOUS
    <2>2. /\ trail[o] = AuditSteps(st[o]) /\ Remembers(st[o]) /\ task[o] = "completed"
          /\ steps \in Seq(CallNodes) /\ steps = StepsAt(node[o], st[o])
      BY <2>1, CompletedTrail
    <2>3. /\ i \in DOMAIN steps /\ trail[o][i].step = steps[i]
          /\ trail[o][i].shown = st[o].result[ResultKey(steps[i])]
      BY <2>2 DEF AuditSteps
    <2>4. trail[o][i].shown.by = Shown(steps[i], st[o])
      BY <2>2, <2>3 DEF Remembers, Range
    <2>5. /\ trail[o][i].step = "check_inventory"
          /\ trail[o][i].shown.by = "rollback_inventory"
          /\ "rollback_inventory" \in Range(steps)
      BY <2>3, <2>4 DEF Shown
    <2>6. node[o] = "END" /\ EndsAt("END", st[o])
      BY <2>2 DEF TrailInv, RunInv, PathInv, Path
    <2>7. st[o].inventory_ok /\ ~st[o].payment_ok
      BY <2>2, <2>5, <2>6, PathRanges DEF StepsAt
    <2>8. st[o].failure_reason = "payment"
      BY <2>6, <2>7 DEF EndsAt, Reason
    <2> QED BY <2>5, <2>8
  <1> QED BY <1>1, TrailHolds, PTL

\* AGENT_MAX_RECURSION_LIMIT: the longest path of the graph has eight nodes,
\* so no limit of eight or more (the default is 15) ends a run half way.
THEOREM EightNodesAreEnough ==
    ASSUME \A o \in Orders : RecursionLimit[o] >= 8
    PROVE  Spec => []BudgetCoversEveryPath
  <1>1. TrailInv => BudgetCoversEveryPath
    <2> SUFFICES ASSUME TrailInv, NEW o \in Orders, node[o] # "END"
                 PROVE  hops[o] < RecursionLimit[o]
      BY DEF BudgetCoversEveryPath
    <2>1. node[o] \in Nodes \cup {"START"} /\ RecursionLimit[o] \in Nat
      BY RecursionLimitAssumption DEF TrailInv, RunInv, TypeOK
    <2>2. hops[o] = HopsAt(node[o], st[o])
      BY DEF TrailInv, HistoryInv, History, Settled
    <2>3. HopsAt(node[o], st[o]) \in 0 .. 7
      BY <2>1 DEF HopsAt, Nodes, CallNodes
    <2> QED BY <2>1, <2>2, <2>3
  <1> QED BY <1>1, TrailHolds, PTL

\* _after_payment and rollback_inventory: an order reported as failed charged
\* nobody, and stock the run knows it reserved is free again unless the trail
\* shows a reply to the release that tells of no success.
THEOREM FailureCompensates ==
    ASSUME HonestRefusals, HonestReleases
    PROVE  Spec => []FailureIsCompensated
  <1>1. TrailInv => FailureIsCompensated
    <2> SUFFICES ASSUME TrailInv, NEW o \in Orders, task[o] = "completed",
                        TellsOf(o, "failed")
                 PROVE  /\ "process_payment" \notin done[o]
                        /\ Held(o) /\ st[o].inventory_ok =>
                              \E i \in DOMAIN trail[o] :
                                  /\ trail[o][i].step = "rollback_inventory"
                                  /\ trail[o][i].shown.by = "rollback_inventory"
                                  /\ trail[o][i].shown.tone # "unmarked"
      BY DEF FailureIsCompensated
    <2>1. /\ Accounted(st[o], done[o]) /\ Remembers(st[o])
          /\ trail[o] = AuditSteps(st[o])
          /\ st[o].executed_steps = StepsAt(node[o], st[o])
          /\ st[o].executed_steps \in Seq(CallNodes)
      BY CompletedTrail
    <2>2. Told(o)
      BY DEF Told, TellsOf
    <2>3. node[o] = "END" /\ EndsAt("END", st[o]) /\ st[o].status = "failed"
      BY <2>2, ToldAtEnd DEF TrailInv, TellsOf, Path
    <2>4. ~st[o].payment_ok
      BY <2>3 DEF EndsAt
    <2>5. ASSUME Held(o), st[o].inventory_ok
          PROVE  \E i \in DOMAIN trail[o] :
                    /\ trail[o][i].step = "rollback_inventory"
                    /\ trail[o][i].shown.by = "rollback_inventory"
                    /\ trail[o][i].shown.tone # "unmarked"
      <3>1. "rollback_inventory" \in Range(st[o].executed_steps)
        BY <2>1, <2>3, <2>4, <2>5, PathRanges DEF StepsAt
      <3>2. st[o].result["inventory_result"].by = "rollback_inventory"
        BY <2>1, <3>1 DEF Remembers, Shown, ResultKey
      <3>3. st[o].result["inventory_result"].tone # "unmarked"
        BY <2>1, <2>5, <3>2 DEF Accounted, Freed, Held
      <3>4. PICK i \in 1 .. Len(st[o].executed_steps) :
               st[o].executed_steps[i] = "rollback_inventory"
        BY <2>1, <3>1 DEF Range
      <3>5. /\ i \in DOMAIN trail[o]
            /\ trail[o][i].step = "rollback_inventory"
            /\ trail[o][i].shown = st[o].result["inventory_result"]
        <4>1. ResultKey("rollback_inventory") = "inventory_result"
          BY DEF ResultKey
        <4> QED BY <2>1, <3>4, <4>1 DEF AuditSteps
      <3> QED BY <3>2, <3>3, <3>5
    <2> QED BY <2>1, <2>4, <2>5 DEF Accounted
  <1> QED BY TrailHolds, <1>1, PTL

=============================================================================
