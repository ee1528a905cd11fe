--------------------------- MODULE PeerAgentsProofs ---------------------------
(***************************************************************************)
(* Theorems about PeerAgents for any delegations, budgets, arguments and   *)
(* agents, careless ones included: what a tool tells its agent is what     *)
(* happened in the service, and the audit records account for every        *)
(* effect, whatever is lost, late or restarted.  For well-made             *)
(* instructions and agents that follow their prompt, a reply that reads as *)
(* a success is backed by the effect; and agents that may do anything else *)
(* still keep the promise of PeerCall where they are asked to.             *)
(***************************************************************************)
EXTENDS PeerAgents, FiniteSetTheorems, TLAPS

Http == {200, 201, 402, 404, 409, 422, 500}

\* Only the services that create rows answer 201.
Possible(t, http) ==
    /\ http \in Http
    /\ t \in {"reserve_stock", "release_stock", "charge_customer", "refund_payment"} => http # 201

(***************************************************************************)
(* The tools.                                                              *)
(***************************************************************************)
LEMMA VerdictIsPossible ==
    ASSUME NEW t \in ToolNames, NEW a, NEW enough, NEW found
    PROVE  /\ Possible(t, Verdict(t, a, enough, found))
           /\ t = "reserve_stock" /\ Verdict(t, a, enough, found) = 200 => enough
  <1> USE DEF Possible, Http, Verdict
  <1>1. CASE t = "check_stock"
    BY <1>1, SMT DEF CheckStock
  <1>2. CASE t = "reserve_stock"
    BY <1>2, SMT DEF Reserve
  <1>3. CASE t = "release_stock"
    BY <1>3, SMT DEF Release
  <1>4. CASE t = "charge_customer"
    BY <1>4, SMT DEF Charge
  <1>5. CASE t = "refund_payment"
    BY <1>5, SMT DEF Refund
  <1>6. CASE t = "check_transaction_status"
    BY <1>6, SMT DEF GetTransaction
  <1>7. CASE t = "create_shipment"
    BY <1>7, SMT DEF CreateShipment
  <1>8. CASE t = "track_shipment"
    BY <1>8, SMT DEF GetShipment
  <1>9. CASE t = "create_order"
    BY <1>9, SMT DEF CreateOrder
  <1>10. CASE t = "get_order"
    BY <1>10, SMT DEF GetOrder
  <1>11. CASE t = "send_notification"
    BY <1>11, SMT DEF Send
  <1> HIDE DEF Possible, Http, Verdict
  <1> QED BY <1>1, <1>2, <1>3, <1>4, <1>5, <1>6, <1>7, <1>8, <1>9, <1>10, <1>11
          DEF ToolNames, StockTools, RowTools, CreateTools

\* The text tells of a success exactly when the service committed.
LEMMA TextTells ==
    ASSUME NEW t \in ToolNames, NEW http, Possible(t, http), NEW enough
    PROVE  /\ Text(t, http, enough) \in Texts
           /\ Text(t, http, enough) = "succeeded" <=> Commits(t, http)
  <1> USE DEF Text, Texts, Commits, Fine, Possible, Http,
              WriteTools, ReadTools, ToolNames, StockTools, RowTools, CreateTools
  <1>1. CASE t = "check_stock"
    BY <1>1, SMT DEF CheckStockText
  <1>2. CASE t = "reserve_stock"
    BY <1>2, SMT DEF ReserveText
  <1>3. CASE t = "release_stock"
    BY <1>3, SMT DEF ReleaseText
  <1>4. CASE t = "charge_customer"
    BY <1>4, SMT DEF ChargeText
  <1>5. CASE t = "refund_payment"
    BY <1>5, SMT DEF RefundText
  <1>6. CASE t = "check_transaction_status"
    BY <1>6, SMT DEF LookupText
  <1>7. CASE t = "create_shipment"
    BY <1>7, SMT DEF CreateShipmentText
  <1>8. CASE t = "track_shipment"
    BY <1>8, SMT DEF TrackText
  <1>9. CASE t = "create_order"
    BY <1>9, SMT DEF CreateOrderText
  <1>10. CASE t = "get_order"
    BY <1>10, SMT DEF GetOrderText
  <1>11. CASE t = "send_notification"
    BY <1>11, SMT DEF SendText
  <1> HIDE DEF Text, Texts, Commits, Fine, Possible, Http, WriteTools, ReadTools
  <1> QED BY <1>1, <1>2, <1>3, <1>4, <1>5, <1>6, <1>7, <1>8, <1>9, <1>10, <1>11

\* A reservation is granted only when the stock covers it.
LEMMA StockStaysNat ==
    ASSUME NEW t \in ToolNames, NEW a \in Arguments, stock \in Nat, NEW found,
           NEW http \in Statuses(t, a, Enough(a), found), Commits(t, http)
    PROVE  StockAfter(t, a) \in Nat
  <1>1. a.size \in Nat
    BY DEF Arguments
  <1>2. CASE t = "reserve_stock"
    <2>1. http = Verdict(t, a, Enough(a), found)
      BY DEF Statuses, Commits, Fine
    <2>2. http # 201 /\ (http = 200 => Enough(a))
      BY <1>2, <2>1, VerdictIsPossible DEF Possible
    <2>3. Enough(a)
      BY <2>2 DEF Commits, Fine
    <2> QED BY <1>1, <1>2, <2>3 DEF Enough, StockAfter
  <1>3. CASE t # "reserve_stock"
    BY <1>1, <1>3 DEF StockAfter
  <1> QED BY <1>2, <1>3

\* Whatever a service answers is possible for the tool that asked.
LEMMA StatusIsPossible ==
    ASSUME NEW t \in ToolNames, NEW a, NEW enough, NEW found,
           NEW http \in Statuses(t, a, enough, found)
    PROVE  Possible(t, http)
  <1>1. Possible(t, Verdict(t, a, enough, found))
    BY VerdictIsPossible
  <1>2. Possible(t, 500)
    BY DEF Possible, Http
  <1> QED BY <1>1, <1>2 DEF Statuses

(***************************************************************************)
(* The invariant of a tool call: where it stands, what it has told and     *)
(* whether it had its effect.                                              *)
(***************************************************************************)
Sound(c) ==
    /\ call[c].at \in {"none", "sent"} => call[c].text = "none" /\ c \notin effected
    /\ call[c].at = "served" =>
          /\ call[c].text = "none"
          /\ Possible(call[c].tool, call[c].http)
          /\ c \in effected <=> Commits(call[c].tool, call[c].http)
    /\ call[c].at = "adrift" =>
          call[c].text = "unreachable" /\ call[c].audit = "error" /\ c \notin effected
    /\ call[c].at = "settled" =>
          /\ call[c].text \in Texts
          /\ call[c].text = "succeeded" => c \in effected
          /\ call[c].text \in Refusals => c \notin effected
          /\ c \in effected => \/ call[c].audit = "ok" /\ call[c].text = "succeeded"
                               \/ call[c].audit = "error"

ToolInv == ToolTypeOK /\ \A c \in Calls : Sound(c)

Told(c) == call[c].text # "none"

\* A call that keeps its place, its reply and its effect stays sound.
LEMMA OtherCallsStaySound ==
    ASSUME NEW c, Sound(c), call'[c] = call[c], c \in effected' <=> c \in effected
    PROVE  Sound(c)'
  BY DEF Sound

\* A step of one call that leaves it sound and well formed keeps the invariant.
LEMMA OneCallMoves ==
    ASSUME ToolInv, NEW c \in Calls, NEW k \in Call,
           call' = [call EXCEPT ![c] = k],
           stock' \in Nat, rows' \subseteq effected', effected' \subseteq Calls,
           \A x \in Calls \ {c} : x \in effected' <=> x \in effected,
           Sound(c)'
    PROVE  ToolInv'
  <1>1. call' \in [Calls -> Call \cup {NoCall}]
    BY DEF ToolInv, ToolTypeOK
  <1>2. ASSUME NEW x \in Calls PROVE Sound(x)'
    <2>1. CASE x = c
      BY <2>1
    <2>2. CASE x # c
      <3>1. call'[x] = call[x]
        BY <2>2 DEF ToolInv, ToolTypeOK
      <3> QED BY <2>2, <3>1, OtherCallsStaySound DEF ToolInv
    <2> QED BY <2>1, <2>2
  <1> QED BY <1>1, <1>2 DEF ToolInv, ToolTypeOK

LEMMA RefusalSettles ==
    ASSUME ToolInv, NEW c \in Calls, NEW t \in ToolNames, NEW a \in Arguments,
           Limit(c, t, a) \/ Reject(c, t, a)
    PROVE  ToolInv' /\ call' = [call EXCEPT ![c] = call'[c]] /\ Told(c)'
  <1> DEFINE k(text) == [NoCall EXCEPT !.at = "settled", !.tool = t, !.args = a,
                                       !.text = text, !.audit = text]
  <1>1. PICK text \in {"rate_limited", "rejected"} :
             /\ call' = [call EXCEPT ![c] = k(text)]
             /\ call[c].at = "none"
             /\ UNCHANGED <<stock, rows, effected>>
    BY DEF Limit, Reject, Record
  <1>2. call'[c] = k(text)
    BY <1>1 DEF ToolInv, ToolTypeOK
  <1>3. k(text) \in Call
    BY ZenonT(150) DEF NoCall, Call, Texts
  <1>4. k(text).at = "settled" /\ k(text).text = text
    BY DEF NoCall
  <1> HIDE DEF k
  <1>5. c \notin effected
    BY <1>1 DEF ToolInv, Sound
  <1>6. Sound(c)'
    BY <1>1, <1>2, <1>4, <1>5 DEF Sound, Texts
  <1>7. ToolInv'
    BY <1>1, <1>3, <1>6, OneCallMoves DEF ToolInv, ToolTypeOK
  <1> QED BY <1>1, <1>2, <1>4, <1>7 DEF Told

LEMMA RequestIsSent ==
    ASSUME ToolInv, NEW c \in Calls, NEW t \in ToolNames, NEW a \in Arguments,
           SendRequest(c, t, a)
    PROVE  ToolInv' /\ call' = [call EXCEPT ![c] = call'[c]]
  <1> DEFINE k == [NoCall EXCEPT !.at = "sent", !.tool = t, !.args = a]
  <1>1. /\ call' = [call EXCEPT ![c] = k]
        /\ call[c].at = "none"
        /\ UNCHANGED <<stock, rows, effected>>
    BY DEF SendRequest
  <1>2. call'[c] = k
    BY <1>1 DEF ToolInv, ToolTypeOK
  <1>3. k \in Call
    BY ZenonT(150) DEF NoCall, Call
  <1>4. k.at = "sent" /\ k.text = "none"
    BY DEF NoCall
  <1> HIDE DEF k
  <1>5. c \notin effected
    BY <1>1 DEF ToolInv, Sound
  <1>6. Sound(c)'
    BY <1>1, <1>2, <1>4, <1>5 DEF Sound
  <1>7. ToolInv'
    BY <1>1, <1>3, <1>6, OneCallMoves DEF ToolInv, ToolTypeOK
  <1> QED BY <1>1, <1>2, <1>7

LEMMA ReplyIsTold ==
    ASSUME ToolInv, NEW c \in Calls, Tell(c) \/ GiveUp(c)
    PROVE  /\ ToolInv'
           /\ call' = [call EXCEPT ![c] = call'[c]]
           /\ ~Told(c) /\ Told(c)'
  <1>1. call[c] \in Call /\ ~Told(c)
    <2>1. call[c].at # "none"
      BY DEF Tell, GiveUp
    <2> QED BY <2>1 DEF ToolInv, ToolTypeOK, NoCall, Call, Sound, Told, Tell, GiveUp
  <1>2. call[c].tool \in ToolNames /\ call[c].args \in Arguments
    BY <1>1 DEF Call
  <1>3. CASE Tell(c)
    <2> DEFINE text == Text(call[c].tool, call[c].http, call[c].enough)
               k == [NoCall EXCEPT !.at = "settled", !.tool = call[c].tool,
                        !.args = call[c].args, !.text = text, !.audit = "ok"]
    <2>1. /\ call' = [call EXCEPT ![c] = k]
          /\ call[c].at = "served"
          /\ UNCHANGED <<stock, rows, effected>>
      BY <1>3 DEF Tell, Record
    <2>2. c \in effected <=> Commits(call[c].tool, call[c].http)
      BY <2>1 DEF ToolInv, Sound
    <2>3. text \in Texts /\ (text = "succeeded" <=> c \in effected)
      BY <1>2, <2>1, <2>2, TextTells DEF ToolInv, Sound
    <2> HIDE DEF text
    <2>4. call'[c] = k
      BY <2>1 DEF ToolInv, ToolTypeOK
    <2>5. k \in Call
      BY <1>2, <2>3, ZenonT(150) DEF NoCall, Call
    <2>6. k.at = "settled" /\ k.text = text /\ k.audit = "ok"
      BY DEF NoCall
    <2> HIDE DEF k
    <2>7. Sound(c)' /\ Told(c)'
      BY <2>1, <2>3, <2>4, <2>6 DEF Sound, Texts, Refusals, Told
    <2>8. ToolInv'
      BY <2>1, <2>5, <2>7, OneCallMoves DEF ToolInv, ToolTypeOK
    <2> QED BY <1>1, <2>1, <2>4, <2>7, <2>8
  <1>4. CASE GiveUp(c)
    <2> DEFINE place == IF call[c].at = "sent" THEN "adrift" ELSE "settled"
               no == FALSE
               k == [call[c] EXCEPT !.at = place, !.http = 0, !.enough = no,
                                    !.text = "unreachable", !.audit = "error"]
    <2>1. /\ call' = [call EXCEPT ![c] = k]
          /\ call[c].at \in {"sent", "served"}
          /\ UNCHANGED <<stock, rows, effected>>
      BY <1>4 DEF GiveUp
    <2>2. call'[c] = k
      BY <2>1 DEF ToolInv, ToolTypeOK
    <2>3. k \in Call
      <3> place \in {"adrift", "settled"}
        OBVIOUS
      <3> HIDE DEF place
      <3> DEFINE k1 == [call[c] EXCEPT !.at = place]
                 k2 == [k1 EXCEPT !.http = 0]
                 k3 == [k2 EXCEPT !.enough = no]
                 k4 == [k3 EXCEPT !.text = "unreachable"]
      <3>1. k = [k4 EXCEPT !.audit = "error"]
        OBVIOUS
      <3>2. no \in BOOLEAN
        OBVIOUS
      <3> HIDE DEF k, no
      <3>3. k1 \in Call
        BY <1>1 DEF Call
      <3> HIDE DEF k1
      <3>4. k2 \in Call
        BY <3>3 DEF Call
      <3> HIDE DEF k2
      <3>5. k3 \in Call
        BY <3>2, <3>4 DEF Call
      <3> HIDE DEF k3
      <3>6. k4 \in Call
        BY <3>5 DEF Call, Texts
      <3> HIDE DEF k4
      <3> QED BY <3>1, <3>6 DEF Call
    <2>4. k.at = place /\ k.text = "unreachable" /\ k.audit = "error"
      BY <1>1 DEF Call
    <2> HIDE DEF k
    <2>5. Sound(c)' /\ Told(c)'
      <3>1. CASE call[c].at = "sent"
        BY <2>1, <2>2, <2>4, <3>1 DEF ToolInv, Sound, Told
      <3>2. CASE call[c].at = "served"
        BY <2>1, <2>2, <2>4, <3>2 DEF Sound, Texts, Refusals, Told
      <3> QED BY <2>1, <3>1, <3>2
    <2>6. ToolInv'
      BY <2>1, <2>3, <2>5, OneCallMoves DEF ToolInv, ToolTypeOK
    <2> QED BY <1>1, <2>1, <2>2, <2>5, <2>6
  <1> QED BY <1>3, <1>4

\* The request of a call is answered; a call its tool gave up on never tells.
LEMMA ServiceAnswers ==
    ASSUME ToolInv, NEW c \in Calls, Serve(c)
    PROVE  ToolInv' /\ \A x \in Calls : Told(x) => Told(x)'
  <1> DEFINE t == call[c].tool
             a == call[c].args
  <1>1. call[c] \in Call /\ c \notin effected
    <2>1. call[c].at \in {"sent", "adrift"}
      BY DEF Serve
    <2> QED BY <2>1 DEF ToolInv, ToolTypeOK, NoCall, Call, Sound
  <1>2. t \in ToolNames /\ a \in Arguments
    BY <1>1 DEF Call
  <1>3. PICK http \in Statuses(t, a, Enough(a), Found(t, a)) :
            /\ call' = IF call[c].at = "sent"
                       THEN [call EXCEPT ![c].at = "served", ![c].http = http,
                                         ![c].enough = Enough(a)]
                       ELSE [call EXCEPT ![c].at = "settled"]
            /\ stock' = IF Commits(t, http) THEN StockAfter(t, a) ELSE stock
            /\ rows' = IF Commits(t, http) /\ t \in CreateTools THEN rows \cup {c} ELSE rows
            /\ effected' = IF Commits(t, http) THEN effected \cup {c} ELSE effected
    BY DEF Serve
  <1> DEFINE k == IF call[c].at = "sent"
                  THEN [call[c] EXCEPT !.at = "served", !.http = http, !.enough = Enough(a)]
                  ELSE [call[c] EXCEPT !.at = "settled"]
  <1>4. Possible(t, http)
    BY <1>2, StatusIsPossible
  <1>5. call' = [call EXCEPT ![c] = k]
    BY <1>3 DEF ToolInv, ToolTypeOK
  <1>6. k \in Call
    <2>1. Enough(a) \in BOOLEAN /\ http \in Http
      BY <1>4 DEF Enough, Possible
    <2> HIDE DEF a
    <2> HIDE DEF k
    <2>2. CASE call[c].at = "sent"
      <3>1. k = [at |-> "served", tool |-> t, args |-> a, http |-> http,
                 enough |-> Enough(a), text |-> call[c].text, audit |-> call[c].audit]
        BY <1>1, <2>2, ZenonT(150) DEF k, a, Call
      <3>2. call[c].text \in Texts \cup {"none"}
            /\ call[c].audit \in {"none", "ok", "error", "rejected", "rate_limited"}
        BY <1>1 DEF Call
      <3> QED BY <1>2, <2>1, <3>1, <3>2 DEF Call, Http
    <2>3. CASE call[c].at # "sent"
      BY <1>1, <2>3 DEF k, Call
    <2> QED BY <2>2, <2>3
  <1>7. /\ k.text = call[c].text /\ k.audit = call[c].audit /\ k.tool = t
        /\ call[c].at = "sent" => k.at = "served" /\ k.http = http
        /\ call[c].at # "sent" => k.at = "settled"
    BY <1>1 DEF Call
  <1>8. call'[c] = k
    BY <1>5 DEF ToolInv, ToolTypeOK
  <1>9. /\ c \in effected' <=> Commits(t, http)
        /\ effected' \subseteq Calls /\ rows' \subseteq effected'
        /\ \A x \in Calls \ {c} : x \in effected' <=> x \in effected
    BY <1>1, <1>3 DEF ToolInv, ToolTypeOK
  <1>10. stock' \in Nat
    <2>1. stock \in Nat
      BY DEF ToolInv, ToolTypeOK
    <2>2. CASE Commits(t, http)
      BY <1>2, <1>3, <2>1, <2>2, StockStaysNat
    <2>3. CASE ~Commits(t, http)
      BY <1>3, <2>1, <2>3
    <2> QED BY <2>2, <2>3
  <1>11. call[c].at \in {"sent", "adrift"}
    BY DEF Serve
  <1> HIDE DEF k
  <1>12. Sound(c)'
    <2>1. CASE call[c].at = "sent"
      BY <1>4, <1>7, <1>8, <1>9, <2>1 DEF ToolInv, Sound, Commits
    <2>2. CASE call[c].at = "adrift"
      BY <1>7, <1>8, <1>9, <2>2 DEF ToolInv, Sound, Texts, Refusals
    <2> QED BY <1>11, <2>1, <2>2
  <1>13. ToolInv'
    BY <1>5, <1>6, <1>9, <1>10, <1>12, OneCallMoves
  <1>14. ASSUME NEW x \in Calls, Told(x) PROVE Told(x)'
    BY <1>5, <1>7, <1>14 DEF ToolInv, ToolTypeOK, Told
  <1> QED BY <1>13, <1>14

LEMMA RequestIsLost ==
    ASSUME ToolInv, NEW c \in Calls, LoseRequest(c)
    PROVE  ToolInv' /\ \A x \in Calls : Told(x) => Told(x)'
  <1> DEFINE k == [call[c] EXCEPT !.at = "settled"]
  <1>1. /\ call[c].at = "adrift"
        /\ call' = [call EXCEPT ![c] = k]
        /\ UNCHANGED <<stock, rows, effected>>
    BY DEF LoseRequest
  <1>2. call[c] \in Call
    BY <1>1 DEF ToolInv, ToolTypeOK, NoCall
  <1>3. k \in Call /\ k.at = "settled" /\ k.text = call[c].text /\ k.audit = call[c].audit
    BY <1>2 DEF Call
  <1>4. call'[c] = k
    BY <1>1 DEF ToolInv, ToolTypeOK
  <1> HIDE DEF k
  <1>5. Sound(c)'
    BY <1>1, <1>3, <1>4 DEF ToolInv, Sound, Texts, Refusals
  <1>6. ToolInv'
    BY <1>1, <1>3, <1>5, OneCallMoves DEF ToolInv, ToolTypeOK
  <1>7. ASSUME NEW x \in Calls, Told(x) PROVE Told(x)'
    BY <1>1, <1>3, <1>7 DEF ToolInv, ToolTypeOK, Told
  <1> QED BY <1>6, <1>7

LEMMA ServicesRestart ==
    ASSUME ToolInv, Restart
    PROVE  ToolInv' /\ \A x \in Calls : Told(x) => Told(x)'
  <1>1. ASSUME NEW x \in Calls PROVE Sound(x)'
    BY OtherCallsStaySound DEF ToolInv, Restart
  <1> QED BY <1>1, StockAssumption DEF ToolInv, ToolTypeOK, Restart, Told

LEMMA ToolsStand ==
    ASSUME ToolInv, UNCHANGED toolVars
    PROVE  ToolInv' /\ \A x \in Calls : Told(x)' <=> Told(x)
  <1>1. ASSUME NEW x \in Calls PROVE Sound(x)'
    BY OtherCallsStaySound DEF ToolInv, toolVars
  <1> QED BY <1>1 DEF ToolInv, ToolTypeOK, toolVars, Told

(***************************************************************************)
(* The invariant of an agent: all its calls have returned while it thinks, *)
(* all but the last one while it calls.                                    *)
(***************************************************************************)
Places == {"none", "submitted", "building", "thinking", "calling", "completed", "failed"}

AgentTypes ==
    /\ client \in [Delegations -> {"idle", "waiting", "answered", "gone"}]
    /\ op \in [Delegations -> AllOps \cup {"none"}]
    /\ asked \in [Delegations -> Arguments]
    /\ task \in [Delegations -> Places]
    /\ used \in [Delegations -> Nat]
    /\ \A d \in Delegations : used[d] <= Budget[d]
    /\ reply \in [Delegations -> Replies \cup {"none"}]
    /\ built \subseteq {"inventory", "payment", "shipping", "notification", "order"}

Waits(d) ==
    /\ client[d] = "idle" => task[d] = "none"
    /\ task[d] # "none" => op[d] \in AllOps
    /\ task[d] \in {"none", "submitted", "building"} => used[d] = 0
    /\ task[d] = "thinking" => \A i \in 1 .. used[d] : Told(<<d, i>>)
    /\ task[d] = "calling" => \A i \in 1 .. used[d] : i # used[d] => Told(<<d, i>>)

AgentInv == AgentTypes /\ \A d \in Delegations : Waits(d)

Inv == ToolInv /\ AgentInv

LEMMA CallsOfAgent ==
    ASSUME NEW d \in Delegations, NEW i \in 1 .. Budget[d]
    PROVE  <<d, i>> \in Calls
  BY CallsAssumption

LEMMA OpsAreServed ==
    ASSUME NEW o \in AllOps
    PROVE  /\ Peer(o) \in {"inventory", "payment", "shipping", "notification", "order"}
           /\ ToolFor(o) \in ToolNames
  BY DEF AllOps, Peer, ToolFor, ToolNames, StockTools, CreateTools

LEMMA PeersHaveTools ==
    ASSUME NEW p \in {"inventory", "payment", "shipping", "notification", "order"}
    PROVE  ToolsOf(p) \subseteq ToolNames
  BY DEF ToolsOf, ToolNames, StockTools, RowTools, CreateTools

\* An agent may only pick a tool of the servers, with well-formed arguments.
LEMMA PicksAreCalls ==
    ASSUME AgentTypes, NEW d \in Delegations, op[d] \in AllOps, NEW pick \in Picks(d)
    PROVE  pick[1] \in ToolNames /\ pick[2] \in Arguments
  <1>1. CASE d \in Careless
    <2>1. PICK t \in ToolsOf(Peer(op[d])) : pick \in {t} \X Inputs[t]
      BY <1>1 DEF Picks
    <2>2. t \in ToolNames
      BY <2>1, OpsAreServed, PeersHaveTools
    <2> QED BY <2>1, <2>2, InputsAssumption
  <1>2. CASE d \notin Careless
    <2>1. FollowsPrompt(d) \subseteq ToolNames
      BY OpsAreServed DEF FollowsPrompt, ToolNames, StockTools
    <2>2. FollowsAdvice(d) \subseteq ToolNames
      BY DEF FollowsAdvice, ToolNames, RowTools, CreateTools
    <2>3. asked[d] \in Arguments
      BY DEF AgentTypes
    <2>4. [asked[d] EXCEPT !.target = "unknown"] \in Arguments
      BY <2>3 DEF Arguments
    <2>5. PICK t \in ToolNames :
              pick = <<t, IF t = "check_transaction_status"
                          THEN [asked[d] EXCEPT !.target = "unknown"] ELSE asked[d]>>
      BY <1>2, <2>1, <2>2 DEF Picks
    <2> QED BY <2>3, <2>4, <2>5
  <1> QED BY <1>1, <1>2

\* A step of one agent that keeps what the tools were told.
LEMMA OneAgentMoves ==
    ASSUME AgentInv, NEW d \in Delegations, AgentTypes',
           \A e \in Delegations \ {d} :
               /\ client'[e] = client[e]
               /\ task'[e] = task[e] /\ op'[e] = op[e] /\ used'[e] = used[e]
               /\ \A i \in 1 .. used[e] : Told(<<e, i>>) => Told(<<e, i>>)',
           Waits(d)'
    PROVE  AgentInv'
  <1>1. ASSUME NEW e \in Delegations PROVE Waits(e)'
    BY DEF AgentInv, Waits
  <1> QED BY <1>1 DEF AgentInv

LEMMA ServicesKeep ==
    ASSUME Inv, Service
    PROVE  Inv'
  <1>1. ToolInv' /\ \A x \in Calls : Told(x) => Told(x)'
    BY ServiceAnswers, RequestIsLost, ServicesRestart DEF Inv, Service
  <1>2. ASSUME NEW d \in Delegations, NEW i \in 1 .. used[d], Told(<<d, i>>)
        PROVE  Told(<<d, i>>)'
    <2>1. i \in 1 .. Budget[d]
      BY BudgetAssumption DEF Inv, AgentInv, AgentTypes
    <2> QED BY <1>1, <1>2, <2>1, CallsOfAgent
  <1>3. ASSUME NEW d \in Delegations PROVE Waits(d)'
    BY <1>2 DEF Inv, AgentInv, Waits, Service, peerVars
  <1>4. AgentTypes'
    BY DEF Inv, AgentInv, AgentTypes, Service, peerVars
  <1> QED BY <1>1, <1>3, <1>4 DEF Inv, AgentInv

\* The steps that call no tool leave what the tools told.
LEMMA AgentAlone ==
    ASSUME Inv, NEW d \in Delegations, UNCHANGED toolVars, AgentTypes',
           \A e \in Delegations \ {d} :
               /\ client'[e] = client[e]
               /\ task'[e] = task[e] /\ op'[e] = op[e] /\ used'[e] = used[e],
           client'[d] # "idle",
           task'[d] # "none" => op'[d] \in AllOps,
           task'[d] \in {"none", "submitted", "building"} => used'[d] = 0,
           task'[d] = "calling" => task[d] = "calling" /\ used'[d] = used[d],
           task'[d] = "thinking" =>
               used'[d] = used[d] /\ (task[d] = "thinking" \/ used[d] = 0)
    PROVE  Inv'
  <1>1. ToolInv'
    BY ToolsStand DEF Inv
  <1>2. \A c : Told(c)' <=> Told(c)
    BY DEF Told, toolVars
  <1>3. Waits(d)'
    BY <1>2 DEF Inv, AgentInv, AgentTypes, Waits
  <1>4. ASSUME NEW e \in Delegations \ {d} PROVE Waits(e)'
    BY <1>2 DEF Inv, AgentInv, Waits
  <1> QED BY <1>1, <1>3, <1>4 DEF Inv, AgentInv

LEMMA DelegateKeeps ==
    ASSUME Inv, NEW d \in Delegations, Delegate(d)
    PROVE  Inv'
  <1>1. PICK o \in Ops[d] : op' = [op EXCEPT ![d] = o]
    BY DEF Delegate
  <1>2. o \in AllOps
    BY OpsAssumption
  <1>3. PICK a \in Arguments : asked' = [asked EXCEPT ![d] = a]
    <2>1. PICK p \in Ops[d] : \E a \in Asked[p] : asked' = [asked EXCEPT ![d] = a]
      BY DEF Delegate
    <2>2. p \in AllOps
      BY OpsAssumption
    <2> QED BY <2>1, <2>2, AskedAssumption
  <1>4. AgentTypes'
    BY <1>1, <1>2, <1>3 DEF Inv, AgentInv, AgentTypes, Delegate, Places
  <1>5. used[d] = 0
    BY DEF Inv, AgentInv, AgentTypes, Waits, Delegate
  <1>6. /\ client'[d] = "waiting" /\ task'[d] = "submitted" /\ op'[d] = o /\ used'[d] = 0
        /\ \A e \in Delegations \ {d} :
              /\ client'[e] = client[e]
              /\ task'[e] = task[e] /\ op'[e] = op[e] /\ used'[e] = used[e]
        /\ UNCHANGED toolVars
    BY <1>1, <1>5 DEF Inv, AgentInv, AgentTypes, Delegate
  <1> QED BY <1>2, <1>4, <1>6, AgentAlone

LEMMA ClientKeeps ==
    ASSUME Inv, NEW d \in Delegations, Answer(d) \/ ClientGivesUp(d)
    PROVE  Inv'
  <1>1. client' \in [Delegations -> {"idle", "waiting", "answered", "gone"}]
    <2>1. PICK x \in {"answered", "gone"} : client' = [client EXCEPT ![d] = x]
      BY DEF Answer, ClientGivesUp
    <2> QED BY <2>1 DEF Inv, AgentInv, AgentTypes
  <1>2. UNCHANGED <<toolVars, op, asked, task, used, reply, built>>
    BY DEF Answer, ClientGivesUp
  <1>3. AgentTypes'
    BY <1>1, <1>2 DEF Inv, AgentInv, AgentTypes
  <1>4. /\ client'[d] # "idle"
        /\ \A e \in Delegations \ {d} : client'[e] = client[e]
    BY DEF Inv, AgentInv, AgentTypes, Answer, ClientGivesUp
  <1>5. /\ task[d] # "none" => op[d] \in AllOps
        /\ task[d] \in {"none", "submitted", "building"} => used[d] = 0
    BY DEF Inv, AgentInv, Waits
  <1> QED BY <1>2, <1>3, <1>4, <1>5, AgentAlone

LEMMA OpOfWork ==
    ASSUME Inv, NEW d \in Delegations, task[d] # "none"
    PROVE  op[d] \in AllOps /\ client[d] # "idle"
  BY DEF Inv, AgentInv, Waits

LEMMA StartKeeps ==
    ASSUME Inv, NEW d \in Delegations, StartWork(d) \/ Build(d)
    PROVE  Inv'
  <1>1. PICK p \in {"thinking", "building"} : task' = [task EXCEPT ![d] = p]
    BY DEF StartWork, Build, At
  <1>2. task[d] \in {"submitted", "building"} /\ used[d] = 0
    BY DEF Inv, AgentInv, Waits, StartWork, Build
  <1>3. op[d] \in AllOps /\ client[d] # "idle"
    BY <1>2, OpOfWork
  <1>4. built' \subseteq {"inventory", "payment", "shipping", "notification", "order"}
    BY <1>3, OpsAreServed DEF Inv, AgentInv, AgentTypes, StartWork, Build
  <1>5. UNCHANGED <<toolVars, client, op, asked, used, reply>>
    BY DEF StartWork, Build
  <1>6. AgentTypes'
    BY <1>1, <1>4, <1>5 DEF Inv, AgentInv, AgentTypes, Places
  <1> QED BY <1>1, <1>2, <1>3, <1>5, <1>6, AgentAlone DEF Inv, AgentInv, AgentTypes

LEMMA FailKeeps ==
    ASSUME Inv, NEW d \in Delegations, Fail(d)
    PROVE  Inv'
  <1>1. task[d] # "none" /\ op[d] \in AllOps /\ client[d] # "idle"
    BY OpOfWork DEF Fail
  <1>2. AgentTypes'
    BY DEF Inv, AgentInv, AgentTypes, Places, Fail, At, Replies
  <1> QED BY <1>1, <1>2, AgentAlone DEF Inv, AgentInv, AgentTypes, Fail, At

LEMMA FinishKeeps ==
    ASSUME Inv, NEW d \in Delegations, Finish(d)
    PROVE  Inv'
  <1>1. task[d] = "thinking" /\ op[d] \in AllOps /\ client[d] # "idle"
    BY OpOfWork DEF Finish
  <1>2. LastText(d) \in Replies
    <2>1. CASE used[d] = 0
      BY <2>1 DEF LastText, Instruction, Replies
    <2>2. CASE used[d] # 0
      <3>1. used[d] \in 1 .. used[d] /\ used[d] \in 1 .. Budget[d]
        BY <2>2, BudgetAssumption DEF Inv, AgentInv, AgentTypes
      <3>2. <<d, used[d]>> \in Calls /\ Told(<<d, used[d]>>)
        BY <1>1, <3>1, CallsOfAgent DEF Inv, AgentInv, Waits
      <3>3. call[<<d, used[d]>>].text \in Texts
        BY <3>2 DEF Inv, ToolInv, ToolTypeOK, Told, Call, NoCall
      <3> QED BY <2>2, <3>3 DEF LastText, Replies
    <2> QED BY <2>1, <2>2
  <1>3. PICK text \in Endings(d) : reply' = [reply EXCEPT ![d] = text]
    BY DEF Finish
  <1>4. text \in Replies
    <2>1. Claims \subseteq Replies
      BY ClaimsAssumption DEF Replies
    <2> QED BY <1>2, <1>3, <2>1 DEF Endings, Replies
  <1>5. AgentTypes'
    BY <1>3, <1>4 DEF Inv, AgentInv, AgentTypes, Places, Finish, At
  <1> QED BY <1>1, <1>5, AgentAlone DEF Inv, AgentInv, AgentTypes, Finish, At

\* The new call is the agent's last one; the others keep what they told.
LEMMA AskKeeps ==
    ASSUME Inv, NEW d \in Delegations, Ask(d)
    PROVE  Inv'
  <1>1. task[d] = "thinking" /\ op[d] \in AllOps /\ client[d] # "idle" /\ used[d] < Budget[d]
    BY OpOfWork DEF Ask
  <1>2. PICK n \in 1 .. Budget[d] : n = used[d] + 1 /\ used[d] \in Nat
    BY <1>1, BudgetAssumption DEF Inv, AgentInv, AgentTypes
  <1>3. PICK c \in Calls : c = <<d, n>>
    BY CallsOfAgent
  <1>4. PICK pick \in Picks(d) :
            \/ (Limit(c, pick[1], pick[2]) \/ Reject(c, pick[1], pick[2])) /\ UNCHANGED task
            \/ SendRequest(c, pick[1], pick[2]) /\ At(d, "calling")
    BY <1>2, <1>3 DEF Ask
  <1>5. pick[1] \in ToolNames /\ pick[2] \in Arguments
    BY <1>1, PicksAreCalls DEF Inv, AgentInv
  <1>6. used' = [used EXCEPT ![d] = n] /\ UNCHANGED <<client, op, asked, reply, built>>
    BY <1>2 DEF Ask
  <1>7. /\ ToolInv'
        /\ call' = [call EXCEPT ![c] = call'[c]]
        /\ \/ task' = task /\ Told(c)'
           \/ task' = [task EXCEPT ![d] = "calling"]
    <2>1. CASE (Limit(c, pick[1], pick[2]) \/ Reject(c, pick[1], pick[2])) /\ UNCHANGED task
      <3>1. ToolInv' /\ call' = [call EXCEPT ![c] = call'[c]] /\ Told(c)'
        BY <1>5, <2>1, RefusalSettles DEF Inv
      <3> QED BY <2>1, <3>1
    <2>2. CASE SendRequest(c, pick[1], pick[2]) /\ At(d, "calling")
      BY <1>5, <2>2, RequestIsSent DEF Inv, At
    <2> QED BY <1>4, <2>1, <2>2
  <1>8. ASSUME NEW x \in Calls, Told(x), x # c PROVE Told(x)'
    BY <1>7, <1>8 DEF Inv, ToolInv, ToolTypeOK, Told
  <1>9. AgentTypes'
    BY <1>2, <1>6, <1>7 DEF Inv, AgentInv, AgentTypes, Places
  <1>10. ASSUME NEW e \in Delegations \ {d}, NEW i \in 1 .. used[e], Told(<<e, i>>)
         PROVE  Told(<<e, i>>)'
    <2>1. i \in 1 .. Budget[e]
      BY BudgetAssumption DEF Inv, AgentInv, AgentTypes
    <2>2. <<e, i>> # c
      BY <1>3
    <2> QED BY <1>8, <1>10, <2>1, <2>2, CallsOfAgent
  <1>11. ASSUME NEW i \in 1 .. used[d] PROVE Told(<<d, i>>)'
    <2>1. Told(<<d, i>>) /\ i \in 1 .. Budget[d] /\ i # n
      BY <1>1, <1>2, BudgetAssumption DEF Inv, AgentInv, AgentTypes, Waits
    <2>2. <<d, i>> # c
      BY <1>3, <2>1
    <2> QED BY <1>8, <2>1, <2>2, CallsOfAgent
  <1>12. Waits(d)'
    <2>1. /\ used'[d] = n /\ op'[d] = op[d] /\ client'[d] = client[d]
          /\ task'[d] \in {"thinking", "calling"}
      BY <1>1, <1>6, <1>7 DEF Inv, AgentInv, AgentTypes
    <2>2. \A i \in 1 .. n : i # n => i \in 1 .. used[d]
      BY <1>2
    <2>3. task'[d] = "thinking" => Told(<<d, n>>)'
      BY <1>1, <1>3, <1>7 DEF Inv, AgentInv, AgentTypes
    <2> QED BY <1>1, <1>11, <2>1, <2>2, <2>3 DEF Waits
  <1>13. \A e \in Delegations \ {d} : client'[e] = client[e] /\ task'[e] = task[e] /\ op'[e] = op[e] /\ used'[e] = used[e]
    BY <1>6, <1>7 DEF Inv, AgentInv, AgentTypes
  <1> QED BY <1>7, <1>9, <1>10, <1>12, <1>13, OneAgentMoves DEF Inv

\* What returns is the only call that has told nothing yet.
LEMMA ReturnKeeps ==
    ASSUME Inv, NEW d \in Delegations, ToolReturns(d)
    PROVE  Inv'
  <1>1. PICK i \in 1 .. used[d] :
            /\ Tell(<<d, i>>) \/ GiveUp(<<d, i>>)
            /\ task' = [task EXCEPT ![d] = IF @ = "calling" THEN "thinking" ELSE @]
            /\ UNCHANGED <<client, op, asked, used, reply, built>>
    BY DEF ToolReturns
  <1> DEFINE c == <<d, i>>
  <1>2. c \in Calls
    <2>1. i \in 1 .. Budget[d]
      BY BudgetAssumption DEF Inv, AgentInv, AgentTypes
    <2> QED BY <2>1, CallsOfAgent
  <1>3. ToolInv' /\ call' = [call EXCEPT ![c] = call'[c]] /\ ~Told(c) /\ Told(c)'
    BY <1>1, <1>2, ReplyIsTold DEF Inv
  <1>4. \A x \in Calls : Told(x) => Told(x)'
    BY <1>3 DEF Inv, ToolInv, ToolTypeOK, Told
  <1>5. \A e \in Delegations : \A j \in 1 .. used[e] : Told(<<e, j>>) => Told(<<e, j>>)'
    <2> SUFFICES ASSUME NEW e \in Delegations, NEW j \in 1 .. used[e]
                 PROVE  Told(<<e, j>>) => Told(<<e, j>>)'
      OBVIOUS
    <2>1. j \in 1 .. Budget[e]
      BY BudgetAssumption DEF Inv, AgentInv, AgentTypes
    <2> QED BY <1>4, <2>1, CallsOfAgent
  <1>6. task[d] # "thinking" /\ (task[d] = "calling" => i = used[d])
    BY <1>3 DEF Inv, AgentInv, Waits
  <1>7. AgentTypes'
    BY <1>1 DEF Inv, AgentInv, AgentTypes, Places
  <1>8. Waits(d)'
    <2>1. /\ used'[d] = used[d] /\ op'[d] = op[d] /\ client'[d] = client[d]
          /\ task'[d] = IF task[d] = "calling" THEN "thinking" ELSE task[d]
      BY <1>1 DEF Inv, AgentInv, AgentTypes
    <2>2. CASE task[d] = "calling"
      <3>1. \A j \in 1 .. used[d] : Told(<<d, j>>)'
        BY <1>3, <1>5, <1>6, <2>2 DEF Inv, AgentInv, Waits
      <3> QED BY <2>1, <2>2, <3>1 DEF Inv, AgentInv, Waits
    <2>3. CASE task[d] # "calling"
      BY <1>6, <2>1, <2>3 DEF Inv, AgentInv, Waits
    <2> QED BY <2>2, <2>3
  <1>9. \A e \in Delegations \ {d} : client'[e] = client[e] /\ task'[e] = task[e] /\ op'[e] = op[e] /\ used'[e] = used[e]
    BY <1>1 DEF Inv, AgentInv, AgentTypes
  <1> QED BY <1>3, <1>5, <1>7, <1>8, <1>9, OneAgentMoves DEF Inv

LEMMA InitInv == Init => Inv
  <1> SUFFICES ASSUME Init PROVE Inv
    OBVIOUS
  <1>1. \A c \in Calls : call[c] = NoCall
    BY DEF Init, ToolInit
  <1>2. \A c \in Calls : Sound(c)
    BY <1>1 DEF Init, ToolInit, Sound, NoCall
  <1>3. ToolTypeOK
    BY StockAssumption DEF Init, ToolInit, ToolTypeOK
  <1>4. AgentTypes
    BY BudgetAssumption DEF Init, AgentTypes, Places, NoArguments, Arguments
  <1>5. \A d \in Delegations : Waits(d)
    BY DEF Init, Waits
  <1> QED BY <1>2, <1>3, <1>4, <1>5 DEF Inv, ToolInv, AgentInv

LEMMA NextKeeps == Inv /\ [Next]_vars => Inv'
  <1> SUFFICES ASSUME Inv, [Next]_vars PROVE Inv'
    OBVIOUS
  <1>1. CASE Service
    BY <1>1, ServicesKeep
  <1>2. ASSUME NEW d \in Delegations, Delegate(d) \/ Work(d) \/ Fail(d) PROVE Inv'
    BY <1>2, DelegateKeeps, ClientKeeps, StartKeeps, AskKeeps, ReturnKeeps, FinishKeeps,
       FailKeeps DEF Work
  <1>3. CASE UNCHANGED vars
    BY <1>3, ToolsStand DEF vars, peerVars, toolVars, Inv, AgentInv, AgentTypes, Waits, Told
  <1> QED BY <1>1, <1>2, <1>3 DEF Next

(***************************************************************************)
(* The theorems.                                                           *)
(***************************************************************************)
\* Every part of the state keeps its type, for any delegations and budgets.
THEOREM TypeCorrect == Spec => []TypeOK
  <1>1. Inv => TypeOK
    BY BudgetAssumption DEF Inv, ToolInv, AgentInv, AgentTypes, TypeOK, Places
  <1> QED BY <1>1, InitInv, NextKeeps, PTL DEF Spec

\* What a tool tells its agent is what happened in the service, whatever the
\* agent asks for and whatever is lost, late or restarted.
THEOREM RepliesTellTheEffect == Spec => []ReplyTellsTheEffect
  <1>1. ASSUME Inv PROVE ReplyTellsTheEffect
    <2> SUFFICES ASSUME NEW c \in Calls
                 PROVE  /\ call[c].text = "succeeded" => c \in effected
                        /\ call[c].text \in Refusals => c \notin effected /\ ~InTheAir(c)
      BY DEF ReplyTellsTheEffect
    <2>1. Sound(c) /\ call[c].at \in {"none", "sent", "served", "adrift", "settled"}
      BY <1>1 DEF Inv, ToolInv, ToolTypeOK, Call, NoCall
    <2> QED BY <2>1 DEF Sound, Refusals, Texts, InTheAir
  <1> QED BY <1>1, InitInv, NextKeeps, PTL DEF Spec

\* The audit records account for every effect a service committed.
THEOREM EffectsAreOnRecord == Spec => []EffectsAreAudited
  <1>1. ASSUME Inv PROVE EffectsAreAudited
    <2> SUFFICES ASSUME NEW c \in effected
                 PROVE  \/ call[c].audit = "ok" /\ call[c].text = "succeeded"
                        \/ call[c].audit = "error"
                        \/ call[c].at = "served"
      BY DEF EffectsAreAudited
    <2>1. c \in Calls /\ Sound(c)
      BY <1>1 DEF Inv, ToolInv, ToolTypeOK
    <2>2. call[c].at \in {"none", "sent", "served", "adrift", "settled"}
      BY <1>1, <2>1 DEF Inv, ToolInv, ToolTypeOK, Call, NoCall
    <2> QED BY <2>1, <2>2 DEF Sound
  <1> QED BY <1>1, InitInv, NextKeeps, PTL DEF Spec

(***************************************************************************)
(* Delegations to agents that follow their prompts, Trusted below, when    *)
(* the instructions are the ones the workflow gives: the product reserved  *)
(* is in the catalog (check_input_intent), the customer charged has a      *)
(* payment token and the charge a correlation id.                          *)
(***************************************************************************)
WellAsked ==
    /\ \A a \in Asked["reserve"] : a.target = "known"
    /\ \A a \in Asked["charge"] : a.traced /\ a.present

\* The tool calls a prompt makes for a step, and their tools.
CallsFor(o) == IF o = "reserve" THEN 2 ELSE 1

Expected(o, i) == IF o = "reserve" /\ i = 1 THEN "check_stock" ELSE ToolFor(o)

\* The texts such a call can return are those that end with its effect, those
\* with a failure marker, and the stock an agent goes on with.
Clear(c) ==
    /\ call[c].at = "served" =>
          /\ call[c].tool = "check_stock" => call[c].http # 404
          /\ call[c].tool = "charge_customer" => call[c].http # 422
    /\ call[c].text \in Marked \cup {"none", "succeeded", "available"}
    /\ call[c].text = "available" => call[c].tool = "check_stock"
    /\ call[c].text = "succeeded" => call[c].tool # "check_stock"

Made(d, i) ==
    /\ call[<<d, i>>].at # "none"
    /\ call[<<d, i>>].tool = Expected(op[d], i)
    /\ call[<<d, i>>].args = asked[d]
    /\ Clear(<<d, i>>)

\* The way of a trusted delegation: the calls of its prompt, in order, and the
\* text of the last one as its reply.
Way(d) ==
    /\ op[d] \in AllOps => asked[d] \in Asked[op[d]]
    /\ used[d] <= CallsFor(op[d])
    /\ \A i \in 1 .. used[d] : Made(d, i)
    /\ task[d] = "completed" =>
          /\ used[d] > 0 /\ Told(<<d, used[d]>>)
          /\ reply[d] = call[<<d, used[d]>>].text /\ reply[d] # "available"
    /\ task[d] = "failed" => reply[d] = "error"
    /\ client[d] = "answered" => task[d] \in {"completed", "failed"}

WayInv == Inv /\ \A d \in Trusted : Way(d)

WellMade(c) ==
    /\ call[c].tool \in StockTools \cup CreateTools
    /\ call[c].tool = "check_stock" => call[c].args.target = "known"
    /\ call[c].tool = "charge_customer" => call[c].args.traced /\ call[c].args.present

\* A call of a known product or customer is answered for it.
LEMMA AnswerIsClear ==
    ASSUME NEW t \in ToolNames, NEW a, NEW enough, NEW found,
           NEW http \in Statuses(t, a, enough, found)
    PROVE  /\ t = "check_stock" /\ a.target = "known" => http # 404
           /\ t = "charge_customer" /\ a.traced /\ a.present => http # 422
  <1>1. ASSUME t = "check_stock", a.target = "known"
        PROVE  http # 404
    BY <1>1, SMT DEF Statuses, Verdict, CheckStock
  <1>2. ASSUME t = "charge_customer", a.traced, a.present
        PROVE  http # 422
    BY <1>2, SMT DEF Statuses, Verdict, Charge, ChargeValid
  <1> QED BY <1>1, <1>2

LEMMA TextIsClear ==
    ASSUME NEW t \in StockTools \cup CreateTools, NEW http, Possible(t, http), NEW enough,
           t = "check_stock" => http # 404, t = "charge_customer" => http # 422
    PROVE  /\ Text(t, http, enough) \in Marked \cup {"succeeded", "available"}
           /\ Text(t, http, enough) = "available" => t = "check_stock"
           /\ Text(t, http, enough) = "succeeded" => t # "check_stock"
  <1> USE DEF Text, Marked, Fine, Possible, Http
  <1>1. CASE t = "check_stock"
    BY <1>1, SMT DEF CheckStockText
  <1>2. CASE t = "reserve_stock"
    BY <1>2, SMT DEF ReserveText
  <1>3. CASE t = "release_stock"
    BY <1>3, SMT DEF ReleaseText
  <1>4. CASE t = "charge_customer"
    BY <1>4, SMT DEF ChargeText
  <1>5. CASE t = "create_shipment"
    BY <1>5, SMT DEF CreateShipmentText
  <1>6. CASE t = "create_order"
    BY <1>6, SMT DEF CreateOrderText
  <1>7. CASE t = "send_notification"
    BY <1>7, SMT DEF SendText
  <1> HIDE DEF Text, Marked, Fine, Possible, Http
  <1> QED BY <1>1, <1>2, <1>3, <1>4, <1>5, <1>6, <1>7 DEF StockTools, CreateTools

(***************************************************************************)
(* What any later step leaves of a call that was made.                     *)
(***************************************************************************)
Stays(c) ==
    /\ call'[c].at # "none"
    /\ call'[c].tool = call[c].tool /\ call'[c].args = call[c].args
    /\ Told(c) => call'[c].text = call[c].text
    /\ WellMade(c) /\ Clear(c) => Clear(c)'
    /\ c \in effected => c \in effected'
    /\ c \in effected' \ effected => call[c].at \in {"sent", "adrift"}

LEMMA OtherCallStays ==
    ASSUME NEW c, call[c].at # "none", call'[c] = call[c],
           c \in effected' <=> c \in effected
    PROVE  Stays(c)
  BY DEF Stays, Clear

LEMMA ReplyStays ==
    ASSUME ToolInv, NEW x \in Calls, Tell(x) \/ GiveUp(x),
           NEW c \in Calls, call[c].at # "none"
    PROVE  Stays(c)
  <1>1. effected' = effected /\ call' = [call EXCEPT ![x] = call'[x]]
    BY ReplyIsTold DEF Tell, GiveUp
  <1>2. CASE x # c
    BY <1>1, <1>2, OtherCallStays DEF ToolInv, ToolTypeOK
  <1>3. CASE x = c /\ Tell(c)
    <2> DEFINE text == Text(call[c].tool, call[c].http, call[c].enough)
    <2>1. /\ call' = [call EXCEPT ![c] = [NoCall EXCEPT !.at = "settled",
                        !.tool = call[c].tool, !.args = call[c].args,
                        !.text = text, !.audit = "ok"]]
          /\ call[c].at = "served"
      BY <1>3 DEF Tell, Record
    <2> HIDE DEF text
    <2>2. /\ call'[c].at = "settled" /\ call'[c].tool = call[c].tool
          /\ call'[c].args = call[c].args /\ call'[c].text = text
      BY <2>1 DEF ToolInv, ToolTypeOK, NoCall
    <2>3. call[c].text = "none" /\ Possible(call[c].tool, call[c].http)
      BY <2>1 DEF ToolInv, Sound
    <2>4. ASSUME WellMade(c), Clear(c) PROVE Clear(c)'
      <3>1. /\ text \in Marked \cup {"succeeded", "available"}
            /\ text = "available" => call[c].tool = "check_stock"
            /\ text = "succeeded" => call[c].tool # "check_stock"
        BY <2>1, <2>3, <2>4, TextIsClear DEF WellMade, Clear, text
      <3> QED BY <2>2, <3>1 DEF Clear
    <2> QED BY <1>1, <2>2, <2>3, <2>4 DEF Stays, Told
  <1>4. CASE x = c /\ GiveUp(c)
    <2>1. /\ call' = [call EXCEPT ![c] =
                        [call[c] EXCEPT !.at = IF @ = "sent" THEN "adrift" ELSE "settled",
                                        !.http = 0, !.enough = FALSE,
                                        !.text = "unreachable", !.audit = "error"]]
          /\ call[c].at \in {"sent", "served"}
      BY <1>4, ZenonT(150) DEF GiveUp
    <2>2. call[c] \in Call
      BY <2>1 DEF ToolInv, ToolTypeOK, NoCall
    <2>3. /\ call'[c].at \in {"adrift", "settled"} /\ call'[c].tool = call[c].tool
          /\ call'[c].args = call[c].args /\ call'[c].text = "unreachable"
      BY <2>1, <2>2, ZenonT(150) DEF ToolInv, ToolTypeOK, Call
    <2>4. call[c].text = "none"
      BY <2>1 DEF ToolInv, Sound
    <2>5. Clear(c)'
      BY <2>3 DEF Clear, Marked
    <2> QED BY <1>1, <2>3, <2>4, <2>5 DEF Stays, Told
  <1> QED BY <1>2, <1>3, <1>4

LEMMA ServiceStays ==
    ASSUME ToolInv, Service, NEW c \in Calls, call[c].at # "none"
    PROVE  Stays(c)
  <1>1. CASE Restart
    BY <1>1, OtherCallStays DEF Restart
  <1>2. ASSUME NEW x \in Calls, LoseRequest(x) PROVE Stays(c)
    <2>1. /\ call' = [call EXCEPT ![x] = [call[x] EXCEPT !.at = "settled"]]
          /\ effected' = effected /\ call[x].at = "adrift"
      BY <1>2 DEF LoseRequest
    <2>2. CASE x # c
      BY <2>1, <2>2, OtherCallStays DEF ToolInv, ToolTypeOK
    <2>3. CASE x = c
      <3>1. call[c] \in Call
        BY <2>1, <2>3 DEF ToolInv, ToolTypeOK, NoCall
      <3>2. /\ call'[c].at = "settled" /\ call'[c].tool = call[c].tool
            /\ call'[c].args = call[c].args /\ call'[c].text = call[c].text
        BY <2>1, <2>3, <3>1 DEF ToolInv, ToolTypeOK, Call
      <3> QED BY <2>1, <3>2 DEF Stays, Clear
    <2> QED BY <2>2, <2>3
  <1>3. ASSUME NEW x \in Calls, Serve(x) PROVE Stays(c)
    <2> DEFINE t == call[x].tool
               a == call[x].args
    <2>1. PICK http \in Statuses(t, a, Enough(a), Found(t, a)) :
              /\ call' = IF call[x].at = "sent"
                         THEN [call EXCEPT ![x].at = "served", ![x].http = http,
                                           ![x].enough = Enough(a)]
                         ELSE [call EXCEPT ![x].at = "settled"]
              /\ effected' \in {effected, effected \cup {x}}
      BY <1>3 DEF Serve
    <2>2. call[x].at \in {"sent", "adrift"} /\ call[x] \in Call
      BY <1>3 DEF Serve, ToolInv, ToolTypeOK, NoCall
    <2>3. CASE x # c
      <3>1. call'[c] = call[c] /\ (c \in effected' <=> c \in effected)
        BY <2>1, <2>3 DEF ToolInv, ToolTypeOK
      <3> QED BY <3>1, OtherCallStays
    <2>4. CASE x = c
      <3>0. call[c] \in Call
        BY <2>2, <2>4
      <3>1. /\ call'[c].at \in {"served", "settled"} /\ call'[c].tool = call[c].tool
            /\ call'[c].args = call[c].args /\ call'[c].text = call[c].text
            /\ call'[c].at = "served" => call'[c].http = http
        <4> DEFINE yes == Enough(a)
        <4>0. /\ call[x].at = "sent" =>
                    call' = [call EXCEPT ![x] = [call[x] EXCEPT !.at = "served",
                                                    !.http = http, !.enough = yes]]
              /\ call[x].at # "sent" => call' = [call EXCEPT ![x] = [call[x] EXCEPT !.at = "settled"]]
          BY <2>1 DEF ToolInv, ToolTypeOK
        <4> HIDE DEF yes
        <4>1. CASE call[c].at = "sent"
          <5>1. call'[c] = [call[c] EXCEPT !.at = "served", !.http = http, !.enough = yes]
            BY <2>4, <4>0, <4>1 DEF ToolInv, ToolTypeOK
          <5> QED BY <3>0, <5>1, ZenonT(150) DEF Call
        <4>2. CASE call[c].at # "sent"
          <5>1. call'[c] = [call[c] EXCEPT !.at = "settled"]
            BY <2>4, <4>0, <4>2 DEF ToolInv, ToolTypeOK
          <5> QED BY <3>0, <5>1, ZenonT(150) DEF Call
        <4> QED BY <4>1, <4>2
      <3>2. t \in ToolNames
        BY <2>2 DEF Call
      <3>3. /\ t = "check_stock" /\ a.target = "known" => http # 404
            /\ t = "charge_customer" /\ a.traced /\ a.present => http # 422
        BY <3>2, AnswerIsClear
      <3>4. WellMade(c) /\ Clear(c) => Clear(c)'
        BY <2>4, <3>1, <3>3 DEF WellMade, Clear
      <3>5. c \in effected => c \in effected'
        BY <2>1
      <3> QED BY <2>2, <2>4, <3>1, <3>4, <3>5 DEF Stays
    <2> QED BY <2>3, <2>4
  <1> QED BY <1>1, <1>2, <1>3 DEF Service

(***************************************************************************)
(* Every step keeps the way of the trusted delegations.                    *)
(***************************************************************************)
LEMMA TrustedFacts ==
    ASSUME NEW d \in Trusted
    PROVE  /\ d \in Delegations /\ d \notin Careless /\ d \notin Silent /\ d \notin Retriers
           /\ Budget[d] \in Nat /\ Budget[d] >= 2
  BY BudgetAssumption DEF Trusted

LEMMA ExpectedFacts ==
    ASSUME NEW o \in AllOps, NEW i
    PROVE  /\ Expected(o, i) \in StockTools \cup CreateTools
           /\ Expected(o, i) = "check_stock" => o = "reserve" /\ i = 1
           /\ Expected(o, i) = "charge_customer" => o = "charge"
           /\ i = CallsFor(o) => Expected(o, i) = ToolFor(o)
           /\ o = "reserve" /\ i = 1 => Expected(o, i) # ToolFor(o)
  BY DEF AllOps, Expected, ToolFor, CallsFor, StockTools, CreateTools

\* A call that was made is one of the calls, of a step the agent knows.
LEMMA MadeFacts ==
    ASSUME Inv, NEW d \in Trusted, NEW i \in 1 .. used[d]
    PROVE  <<d, i>> \in Calls /\ op[d] \in AllOps /\ used[d] \in Nat /\ used[d] # 0
  <1>1. d \in Delegations /\ used[d] \in Nat /\ used[d] <= Budget[d] /\ Budget[d] \in Nat
    BY TrustedFacts DEF Inv, AgentInv, AgentTypes
  <1>2. i \in 1 .. Budget[d] /\ used[d] # 0
    BY <1>1
  <1>3. op[d] \in AllOps
    BY <1>1, <1>2 DEF Inv, AgentInv, Waits
  <1> QED BY <1>1, <1>2, <1>3, CallsOfAgent

LEMMA MadeStays ==
    ASSUME WellAsked, Inv, NEW d \in Trusted, Way(d), NEW i \in 1 .. used[d],
           op'[d] = op[d], asked'[d] = asked[d], Stays(<<d, i>>)
    PROVE  Made(d, i)'
  <1> DEFINE c == <<d, i>>
  <1>1. c \in Calls /\ op[d] \in AllOps
    BY MadeFacts
  <1>2. /\ call[c].tool = Expected(op[d], i) /\ call[c].args = asked[d] /\ Clear(c)
        /\ asked[d] \in Asked[op[d]]
    BY <1>1 DEF Way, Made
  <1>3. WellMade(c)
    BY <1>1, <1>2, ExpectedFacts DEF WellMade, WellAsked
  <1> QED BY <1>2, <1>3 DEF Stays, Made

LEMMA WayKept ==
    ASSUME WellAsked, WayInv, NEW d \in Trusted,
           op'[d] = op[d], asked'[d] = asked[d], used'[d] = used[d], reply'[d] = reply[d],
           task'[d] \in {"completed", "failed"} => task'[d] = task[d],
           task[d] \in {"completed", "failed"} => task'[d] = task[d],
           client'[d] = "answered" => client[d] = "answered",
           \A i \in 1 .. used[d] : Stays(<<d, i>>)
    PROVE  Way(d)'
  <1>1. Inv /\ Way(d)
    BY DEF WayInv
  <1>2. \A i \in 1 .. used[d] : Made(d, i)'
    BY <1>1, MadeStays
  <1>3. ASSUME task[d] = "completed"
        PROVE  /\ call'[<<d, used[d]>>].text = call[<<d, used[d]>>].text
               /\ Told(<<d, used[d]>>)'
    <2>1. used[d] \in 1 .. used[d] /\ Told(<<d, used[d]>>)
      BY <1>1, <1>3, TrustedFacts DEF Inv, AgentInv, AgentTypes, Way
    <2> QED BY <2>1 DEF Stays, Told
  <1> QED BY <1>1, <1>2, <1>3 DEF Way

\* The steps that touch no call, and no other delegation.
LEMMA QuietWay ==
    ASSUME WellAsked, WayInv, UNCHANGED toolVars, NEW d \in Trusted,
           op'[d] = op[d], asked'[d] = asked[d], used'[d] = used[d]
    PROVE  \A i \in 1 .. used[d] : Stays(<<d, i>>) /\ Made(d, i)'
  <1> SUFFICES ASSUME NEW i \in 1 .. used[d]
               PROVE  Stays(<<d, i>>) /\ Made(d, i)'
    OBVIOUS
  <1>1. Inv /\ Way(d) /\ call[<<d, i>>].at # "none"
    BY DEF WayInv, Way, Made
  <1>2. Stays(<<d, i>>)
    BY <1>1, OtherCallStays DEF toolVars
  <1> QED BY <1>1, <1>2, MadeStays

\* What the steps of one delegation leave of another.
Apart(x) ==
    /\ op'[x] = op[x] /\ asked'[x] = asked[x] /\ used'[x] = used[x]
    /\ reply'[x] = reply[x] /\ task'[x] = task[x] /\ client'[x] = client[x]

LEMMA AloneIsApart ==
    ASSUME Inv, NEW d \in Delegations, Delegate(d) \/ Work(d) \/ Fail(d),
           NEW x \in Delegations \ {d}
    PROVE  Apart(x)
  <1> USE DEF Inv, AgentInv, AgentTypes, Apart
  <1>1. CASE Delegate(d)
    BY <1>1 DEF Delegate
  <1>2. CASE Answer(d) \/ ClientGivesUp(d)
    BY <1>2 DEF Answer, ClientGivesUp
  <1>3. CASE StartWork(d) \/ Build(d) \/ Fail(d)
    BY <1>3 DEF StartWork, Build, Fail, At
  <1>4. CASE Ask(d)
    <2>1. /\ task' = task \/ task' = [task EXCEPT ![d] = "calling"]
          /\ used' = [used EXCEPT ![d] = used[d] + 1]
          /\ UNCHANGED <<client, op, asked, reply>>
      BY <1>4 DEF Ask, At
    <2> QED BY <2>1
  <1>5. CASE ToolReturns(d)
    BY <1>5 DEF ToolReturns
  <1>6. CASE Finish(d)
    <2>1. \E text : reply' = [reply EXCEPT ![d] = text]
      BY <1>6 DEF Finish
    <2> QED BY <1>6, <2>1 DEF Finish, At
  <1> QED BY <1>1, <1>2, <1>3, <1>4, <1>5, <1>6 DEF Work

LEMMA DelegateWay ==
    ASSUME WayInv, NEW d \in Trusted, Delegate(d)
    PROVE  Way(d)'
  <1>0. Inv /\ d \in Delegations
    BY TrustedFacts DEF WayInv
  <1>1. PICK o \in Ops[d] : \E a \in Asked[o] :
           op' = [op EXCEPT ![d] = o] /\ asked' = [asked EXCEPT ![d] = a]
    BY DEF Delegate
  <1>1a. PICK a \in Asked[o] : asked' = [asked EXCEPT ![d] = a] /\ op' = [op EXCEPT ![d] = o]
    BY <1>1
  <1>2. /\ op'[d] = o /\ asked'[d] = a /\ client'[d] = "waiting" /\ task'[d] = "submitted"
        /\ used'[d] = 0
    BY <1>0, <1>1a DEF Inv, AgentInv, AgentTypes, Waits, Delegate
  <1> QED BY <1>2 DEF Way, CallsFor

LEMMA StartWay ==
    ASSUME WellAsked, WayInv, NEW d \in Trusted, StartWork(d) \/ Build(d) \/ ClientGivesUp(d)
    PROVE  Way(d)'
  <1>0. Inv /\ d \in Delegations
    BY TrustedFacts DEF WayInv
  <1>1. /\ UNCHANGED toolVars
        /\ op'[d] = op[d] /\ asked'[d] = asked[d] /\ used'[d] = used[d] /\ reply'[d] = reply[d]
        /\ \/ task'[d] = task[d]
           \/ task[d] \in {"submitted", "building"} /\ task'[d] \in {"building", "thinking"}
        /\ client'[d] = "answered" => client[d] = "answered"
    BY <1>0 DEF Inv, AgentInv, AgentTypes, StartWork, Build, ClientGivesUp, At
  <1> QED BY <1>1, QuietWay, WayKept

LEMMA AnswerWay ==
    ASSUME WellAsked, WayInv, NEW d \in Trusted, Answer(d)
    PROVE  Way(d)'
  <1>1. Way(d)
    BY DEF WayInv
  <1>2. UNCHANGED <<toolVars, op, asked, task, used, reply, built>>
    BY DEF Answer
  <1>3. \A i \in 1 .. used[d] : Made(d, i)'
    BY <1>2, QuietWay
  <1> QED BY <1>1, <1>2, <1>3 DEF Answer, Way, Told, toolVars

LEMMA FailWay ==
    ASSUME WellAsked, WayInv, NEW d \in Trusted, Fail(d)
    PROVE  Way(d)'
  <1>0. Inv /\ d \in Delegations /\ Way(d)
    BY TrustedFacts DEF WayInv
  <1>1. /\ UNCHANGED <<toolVars, client, op, asked, used, built>>
        /\ task'[d] = "failed" /\ reply'[d] = "error"
    BY <1>0 DEF Inv, AgentInv, AgentTypes, Fail, At
  <1>2. \A i \in 1 .. used[d] : Made(d, i)'
    BY <1>1, QuietWay
  <1> QED BY <1>0, <1>1, <1>2 DEF Way

\* What the prompt asks a trusted agent to call next.
LEMMA NextPick ==
    ASSUME WayInv, NEW d \in Trusted, task[d] = "thinking"
    PROVE  /\ Picks(d) = {<<t, IF t = "check_transaction_status"
                               THEN [asked[d] EXCEPT !.target = "unknown"] ELSE asked[d]>> :
                             t \in FollowsPrompt(d)}
           /\ FollowsPrompt(d) # {} => /\ used[d] < CallsFor(op[d])
                                       /\ FollowsPrompt(d) = {Expected(op[d], used[d] + 1)}
           /\ used[d] = 0 => FollowsPrompt(d) # {}
           /\ used[d] # 0 => /\ used[d] \in 1 .. used[d] /\ Told(<<d, used[d]>>)
                             /\ LastText(d) = call[<<d, used[d]>>].text
                             /\ FollowsPrompt(d) = {} => LastText(d) # "available"
  <1>1. /\ Inv /\ Way(d) /\ d \in Delegations /\ op[d] \in AllOps /\ used[d] \in Nat
        /\ d \notin Careless /\ d \notin Retriers
    BY TrustedFacts DEF WayInv, Inv, AgentInv, AgentTypes, Waits
  <1>2. used[d] # 0 => /\ used[d] \in 1 .. used[d] /\ Told(<<d, used[d]>>)
                       /\ LastText(d) = call[<<d, used[d]>>].text
    BY <1>1 DEF LastText, Inv, AgentInv, Waits
  <1>3. Picks(d) = {<<t, IF t = "check_transaction_status"
                         THEN [asked[d] EXCEPT !.target = "unknown"] ELSE asked[d]>> :
                       t \in FollowsPrompt(d)}
    BY <1>1 DEF Picks
  <1>4. CASE op[d] = "reserve"
    <2>1. used[d] \in {0, 1, 2}
      BY <1>1, <1>4 DEF Way, CallsFor
    <2>2. CASE used[d] = 0
      BY <1>3, <1>4, <2>2 DEF FollowsPrompt, Expected, CallsFor
    <2>3. CASE used[d] = 1
      BY <1>2, <1>3, <1>4, <2>3 DEF FollowsPrompt, Expected, CallsFor, ToolFor
    <2>4. CASE used[d] = 2
      <3>1. FollowsPrompt(d) = {}
        BY <1>4, <2>4 DEF FollowsPrompt
      <3>2. Clear(<<d, 2>>) /\ call[<<d, 2>>].tool = Expected("reserve", 2)
        BY <1>1, <1>4, <2>4 DEF Way, Made
      <3>3. call[<<d, 2>>].text # "available"
        BY <3>2 DEF Clear, Expected, ToolFor
      <3> QED BY <1>2, <1>3, <2>4, <3>1, <3>3
    <2> QED BY <2>1, <2>2, <2>3, <2>4
  <1>5. CASE op[d] # "reserve"
    <2>1. used[d] \in {0, 1}
      BY <1>1, <1>5 DEF Way, CallsFor
    <2>2. CASE used[d] = 0
      BY <1>3, <1>5, <2>2 DEF FollowsPrompt, Expected, CallsFor
    <2>3. CASE used[d] = 1
      <3>1. FollowsPrompt(d) = {}
        BY <1>5, <2>3 DEF FollowsPrompt
      <3>2. Clear(<<d, 1>>) /\ call[<<d, 1>>].tool = Expected(op[d], 1)
        BY <1>1, <2>3 DEF Way, Made
      <3>3. call[<<d, 1>>].text # "available"
        BY <1>1, <1>5, <3>2, ExpectedFacts DEF Clear
      <3> QED BY <1>2, <1>3, <2>3, <3>1, <3>3
    <2> QED BY <2>1, <2>2, <2>3
  <1> QED BY <1>4, <1>5

\* A trusted agent ends with the text of its last call: it has made one, and it
\* has no step of its prompt left.
LEMMA FinishWay ==
    ASSUME WellAsked, WayInv, NEW d \in Trusted, Finish(d)
    PROVE  Way(d)'
  <1>0. /\ Inv /\ Way(d) /\ d \in Delegations /\ d \notin Careless /\ d \notin Silent
        /\ Budget[d] >= 2 /\ Budget[d] \in Nat
    BY TrustedFacts DEF WayInv
  <1>1. PICK text \in Endings(d) : reply' = [reply EXCEPT ![d] = text]
    BY DEF Finish
  <1>2. /\ UNCHANGED <<toolVars, client, op, asked, used, built>>
        /\ task[d] = "thinking" /\ task'[d] = "completed" /\ reply'[d] = text
    BY <1>0, <1>1 DEF Inv, AgentInv, AgentTypes, Finish, At
  <1>3. FollowsPrompt(d) = {} /\ text = LastText(d)
    <2>1. CASE Picks(d) = {}
      <3>1. ASSUME NEW t \in FollowsPrompt(d) PROVE FALSE
        <4> DEFINE a == IF t = "check_transaction_status"
                        THEN [asked[d] EXCEPT !.target = "unknown"] ELSE asked[d]
        <4>1. <<t, a>> \in Picks(d)
          BY <1>2, NextPick
        <4> QED BY <2>1, <4>1
      <3>2. FollowsPrompt(d) = {}
        BY <3>1
      <3> QED BY <1>0, <1>1, <2>1, <3>2 DEF Endings
    <2>2. CASE Picks(d) # {}
      <3>0. FollowsPrompt(d) # {}
        BY <1>2, <2>2, NextPick
      <3>1. used[d] < CallsFor(op[d])
        BY <1>2, <3>0, NextPick
      <3>2. used[d] # Budget[d]
        BY <1>0, <3>1 DEF CallsFor
      <3> QED BY <1>0, <1>1, <2>2, <3>2 DEF Endings
    <2> QED BY <2>1, <2>2
  <1>4. /\ used[d] # 0 /\ used[d] \in Nat /\ Told(<<d, used[d]>>)
        /\ text = call[<<d, used[d]>>].text /\ text # "available"
    BY <1>0, <1>2, <1>3, NextPick DEF Inv, AgentInv, AgentTypes
  <1>5. \A i \in 1 .. used[d] : Made(d, i)'
    BY <1>2, QuietWay
  <1>6. call' = call /\ used' = used /\ op' = op /\ asked' = asked
    BY <1>2 DEF toolVars
  <1> QED BY <1>0, <1>2, <1>4, <1>5, <1>6 DEF Way, Told

\* What becomes of the call an agent makes next.
Calling(c, pick) ==
    \/ Record(c, pick[1], pick[2], "rate_limited", "rate_limited")
    \/ Record(c, pick[1], pick[2], "rejected", "rejected")
    \/ call' = [call EXCEPT ![c] = [NoCall EXCEPT !.at = "sent", !.tool = pick[1],
                                                  !.args = pick[2]]]

LEMMA AskMakesACall ==
    ASSUME Inv, NEW d \in Delegations, Ask(d), NEW c, c = <<d, used[d] + 1>>
    PROVE  /\ c \in Calls /\ call[c].at = "none" /\ task[d] = "thinking"
           /\ UNCHANGED <<client, op, asked, reply, effected>>
           /\ used'[d] = used[d] + 1 /\ task'[d] \in {"thinking", "calling"}
           /\ \E pick \in Picks(d) : Calling(c, pick)
  <1>1. /\ task[d] = "thinking" /\ used[d] < Budget[d] /\ used[d] \in Nat /\ Budget[d] \in Nat
        /\ UNCHANGED <<client, op, asked, reply>> /\ used'[d] = used[d] + 1
    BY BudgetAssumption DEF Ask, Inv, AgentInv, AgentTypes
  <1>2. c \in Calls
    <2>1. used[d] + 1 \in 1 .. Budget[d]
      BY <1>1
    <2> QED BY <2>1, CallsOfAgent
  <1>3. PICK pick \in Picks(d) :
            \/ (Limit(c, pick[1], pick[2]) \/ Reject(c, pick[1], pick[2])) /\ UNCHANGED task
            \/ SendRequest(c, pick[1], pick[2]) /\ At(d, "calling")
    BY DEF Ask
  <1>4. call[c].at = "none" /\ effected' = effected /\ Calling(c, pick)
    BY <1>3 DEF Limit, Reject, SendRequest, Record, Calling
  <1>5. task'[d] \in {"thinking", "calling"}
    BY <1>1, <1>3 DEF At, Inv, AgentInv, AgentTypes
  <1> QED BY <1>1, <1>2, <1>4, <1>5

LEMMA AskStays ==
    ASSUME Inv, NEW d \in Delegations, Ask(d), NEW c \in Calls, call[c].at # "none"
    PROVE  Stays(c)
  <1>0. PICK new : new = <<d, used[d] + 1>>
    OBVIOUS
  <1>1. /\ call[new].at = "none" /\ effected' = effected
        /\ \E k : call' = [call EXCEPT ![new] = k]
    <2>1. PICK pick \in Picks(d) : Calling(new, pick)
      BY <1>0, AskMakesACall
    <2>2. \E k : call' = [call EXCEPT ![new] = k]
      BY <2>1 DEF Record, Calling
    <2> QED BY <1>0, <2>2, AskMakesACall
  <1>2. call'[c] = call[c]
    BY <1>1 DEF Inv, ToolInv, ToolTypeOK
  <1> QED BY <1>1, <1>2, OtherCallStays

\* A trusted agent makes the next call of its prompt.
LEMMA AskIsExpected ==
    ASSUME WellAsked, WayInv, NEW d \in Trusted, Ask(d)
    PROVE  used[d] < CallsFor(op[d]) /\ \E n : n = used[d] + 1 /\ Made(d, n)'
  <1>0. Inv /\ d \in Delegations /\ d \notin Careless
    BY TrustedFacts DEF WayInv
  <1>1. PICK n : n = used[d] + 1
    OBVIOUS
  <1> DEFINE c == <<d, n>>
  <1>2. /\ c \in Calls /\ task[d] = "thinking"
        /\ op'[d] = op[d] /\ asked'[d] = asked[d] /\ op[d] \in AllOps
    BY <1>0, <1>1, AskMakesACall, OpOfWork
  <1>3. PICK pick \in Picks(d) : Calling(c, pick)
    BY <1>0, <1>1, AskMakesACall
  <1>4. PICK t \in FollowsPrompt(d) :
            pick = <<t, IF t = "check_transaction_status"
                        THEN [asked[d] EXCEPT !.target = "unknown"] ELSE asked[d]>>
    BY <1>2, NextPick
  <1>5. used[d] < CallsFor(op[d]) /\ t = Expected(op[d], n)
    BY <1>1, <1>2, <1>4, NextPick
  <1>6. pick[1] = t /\ pick[2] = asked[d]
    <2>1. t # "check_transaction_status"
      BY <1>2, <1>5, ExpectedFacts DEF StockTools, CreateTools
    <2> QED BY <1>4, <2>1
  <1>7. /\ call'[c].at \in {"sent", "settled"} /\ call'[c].tool = t /\ call'[c].args = asked[d]
        /\ call'[c].text \in {"none", "rate_limited", "rejected"}
    <2> DEFINE k(at, text, audit) == [NoCall EXCEPT !.at = at, !.tool = t, !.args = asked[d],
                                                    !.text = text, !.audit = audit]
               sent == [NoCall EXCEPT !.at = "sent", !.tool = t, !.args = asked[d]]
    <2>1. \/ call' = [call EXCEPT ![c] = k("settled", "rate_limited", "rate_limited")]
          \/ call' = [call EXCEPT ![c] = k("settled", "rejected", "rejected")]
          \/ call' = [call EXCEPT ![c] = sent]
      BY <1>3, <1>6 DEF Calling, Record
    <2>2. \/ call'[c] = k("settled", "rate_limited", "rate_limited")
          \/ call'[c] = k("settled", "rejected", "rejected")
          \/ call'[c] = sent
      <3> HIDE DEF k, sent, c
      <3> QED BY <1>0, <1>2, <2>1 DEF Inv, ToolInv, ToolTypeOK
    <2> QED BY <2>2 DEF NoCall
  <1>8. Clear(c)'
    BY <1>7 DEF Clear, Marked
  <1> QED BY <1>1, <1>2, <1>5, <1>7, <1>8 DEF Made

LEMMA AskWay ==
    ASSUME WellAsked, WayInv, NEW d \in Trusted, Ask(d)
    PROVE  Way(d)'
  <1>0. Inv /\ Way(d) /\ d \in Delegations /\ used[d] \in Nat
    BY TrustedFacts DEF WayInv, Inv, AgentInv, AgentTypes
  <1>1. /\ UNCHANGED <<client, op, asked, reply>> /\ used'[d] = used[d] + 1
        /\ task'[d] \in {"thinking", "calling"} /\ task[d] = "thinking"
    BY <1>0, AskMakesACall
  <1>2. used[d] < CallsFor(op[d]) /\ \E n : n = used[d] + 1 /\ Made(d, n)'
    BY AskIsExpected
  <1>3. ASSUME NEW i \in 1 .. used[d] PROVE Made(d, i)'
    <2>1. Stays(<<d, i>>)
      BY <1>0, MadeFacts, AskStays DEF Way, Made
    <2> QED BY <1>0, <1>1, <2>1, MadeStays
  <1>4. ASSUME NEW i \in 1 .. used'[d] PROVE Made(d, i)'
    <2>1. i = used[d] + 1 \/ i \in 1 .. used[d]
      BY <1>0, <1>1
    <2> QED BY <1>2, <1>3, <2>1
  <1>5. used'[d] <= CallsFor(op[d])
    BY <1>0, <1>1, <1>2 DEF CallsFor
  <1> QED BY <1>0, <1>1, <1>4, <1>5 DEF Way

LEMMA ReturnsAreTold ==
    ASSUME Inv, NEW d \in Delegations, ToolReturns(d)
    PROVE  /\ \E x \in Calls : Tell(x) \/ GiveUp(x)
           /\ UNCHANGED <<client, op, asked, used, reply>>
           /\ task'[d] = task[d] \/ (task[d] = "calling" /\ task'[d] = "thinking")
  <1>1. PICK i \in 1 .. used[d] :
            /\ Tell(<<d, i>>) \/ GiveUp(<<d, i>>)
            /\ task' = [task EXCEPT ![d] = IF @ = "calling" THEN "thinking" ELSE @]
            /\ UNCHANGED <<client, op, asked, used, reply, built>>
    BY DEF ToolReturns
  <1>2. <<d, i>> \in Calls
    <2>1. i \in 1 .. Budget[d]
      BY BudgetAssumption DEF Inv, AgentInv, AgentTypes
    <2> QED BY <2>1, CallsOfAgent
  <1> QED BY <1>1, <1>2 DEF Inv, AgentInv, AgentTypes

\* No step changes what a call was made for or what it told.
LEMMA CallsStay ==
    ASSUME Inv, [Next]_vars, NEW c \in Calls, call[c].at # "none"
    PROVE  Stays(c)
  <1>0. ToolInv
    BY DEF Inv
  <1>1. CASE UNCHANGED toolVars
    BY <1>1, OtherCallStays DEF toolVars
  <1>2. CASE Service
    BY <1>0, <1>2, ServiceStays
  <1>3. ASSUME NEW d \in Delegations, Ask(d) PROVE Stays(c)
    BY <1>3, AskStays
  <1>4. ASSUME NEW d \in Delegations, ToolReturns(d) PROVE Stays(c)
    BY <1>0, <1>4, ReturnsAreTold, ReplyStays
  <1>5. ASSUME NEW d \in Delegations, Delegate(d) \/ Work(d) \/ Fail(d)
        PROVE  Ask(d) \/ ToolReturns(d) \/ UNCHANGED toolVars
    BY <1>5 DEF Delegate, Work, Answer, ClientGivesUp, StartWork, Build, Finish, Fail
  <1> QED BY <1>1, <1>2, <1>3, <1>4, <1>5 DEF Next, vars

LEMMA WayNext == WellAsked /\ WayInv /\ [Next]_vars => WayInv'
  <1> SUFFICES ASSUME WellAsked, WayInv, [Next]_vars, NEW x \in Trusted
               PROVE  Way(x)'
    BY NextKeeps DEF WayInv
  <1>1. Inv /\ Way(x) /\ x \in Delegations
    BY TrustedFacts DEF WayInv
  <1>2. \A i \in 1 .. used[x] : Stays(<<x, i>>)
    BY <1>1, MadeFacts, CallsStay DEF Way, Made
  <1>3. CASE Apart(x)
    BY <1>2, <1>3, WayKept DEF Apart
  <1>4. Service \/ UNCHANGED vars => Apart(x)
    BY DEF Service, vars, peerVars, Apart
  <1>5. ASSUME NEW d \in Delegations, Delegate(d) \/ Work(d) \/ Fail(d) PROVE Way(x)'
    <2>1. CASE x # d
      BY <1>1, <1>3, <1>5, <2>1, AloneIsApart
    <2>2. CASE x = d
      <3>1. Delegate(x) \/ Work(x) \/ Fail(x)
        BY <1>5, <2>2
      <3>2. CASE ToolReturns(x)
        BY <1>1, <1>2, <3>2, ReturnsAreTold, WayKept
      <3> QED BY <3>1, <3>2, DelegateWay, StartWay, AnswerWay, FailWay, AskWay, FinishWay DEF Work
    <2> QED BY <2>1, <2>2
  <1> QED BY <1>3, <1>4, <1>5 DEF Next

LEMMA WayInit == Init => WayInv
  <1> SUFFICES ASSUME Init PROVE WayInv
    OBVIOUS
  <1>1. ASSUME NEW d \in Trusted PROVE Way(d)
    <2>1. /\ op[d] = "none" /\ used[d] = 0 /\ task[d] = "none" /\ client[d] = "idle"
      BY TrustedFacts DEF Init
    <2> QED BY <2>1 DEF Way, AllOps, CallsFor
  <1> QED BY <1>1, InitInv DEF WayInv

\* The call that has the effect is the last one a prompt makes.
LEMMA AttemptIsTheLast ==
    ASSUME WayInv, NEW d \in Trusted, op[d] \in AllOps
    PROVE  Attempts(d) = IF used[d] = CallsFor(op[d]) THEN {<<d, used[d]>>} ELSE {}
  <1>1. Way(d) /\ used[d] \in Nat
    BY TrustedFacts DEF WayInv, Inv, AgentInv, AgentTypes
  <1>2. ASSUME NEW i \in 1 .. used[d]
        PROVE  call[<<d, i>>].tool = ToolFor(op[d]) <=> i = CallsFor(op[d])
    <2>1. call[<<d, i>>].tool = Expected(op[d], i) /\ used[d] <= CallsFor(op[d])
      BY <1>1 DEF Way, Made
    <2> QED BY <1>1, <2>1 DEF Expected, CallsFor, AllOps, ToolFor
  <1>3. Attempts(d) = {<<d, i>> : i \in {j \in 1 .. used[d] : j = CallsFor(op[d])}}
    BY <1>2 DEF Attempts
  <1> QED BY <1>1, <1>3 DEF Way, CallsFor

(***************************************************************************)
(* An agent that answers without a failure marker has done what it was     *)
(* asked to.  The hypothesis leaves out the agents that may end without a  *)
(* text of a tool: one that says nothing passes its instruction on, one    *)
(* that retries may run out of steps, and both replies look like a         *)
(* success.                                                                *)
(***************************************************************************)
THEOREM SuccessIsBackedByEffects ==
    ASSUME WellAsked, Silent = {}, Retriers = {}
    PROVE  Spec => []SuccessIsBacked
  <1>1. ASSUME WayInv PROVE SuccessIsBacked
    <2> SUFFICES ASSUME NEW d \in Delegations \ Careless,
                        client[d] = "answered", Unmarked(reply[d])
                 PROVE  Attempts(d) \cap effected # {}
      BY DEF SuccessIsBacked
    <2>1. d \in Trusted /\ Inv /\ Way(d)
      BY <1>1 DEF Trusted, WayInv
    <2>2. /\ used[d] > 0 /\ used[d] \in Nat
          /\ reply[d] = call[<<d, used[d]>>].text /\ reply[d] # "available"
      BY <2>1, TrustedFacts DEF Way, Unmarked, Inv, AgentInv, AgentTypes
    <2> DEFINE c == <<d, used[d]>>
    <2>3. /\ used[d] \in 1 .. used[d] /\ c \in Calls /\ op[d] \in AllOps
          /\ call[c].tool = Expected(op[d], used[d]) /\ Clear(c)
      BY <2>1, <2>2, MadeFacts DEF Way, Made
    <2>4. call[c].text = "succeeded"
      BY <2>1, <2>2, <2>3 DEF Clear, Unmarked, Way, Told
    <2>5. c \in effected
      <3>1. Sound(c) /\ call[c].at \in {"none", "sent", "served", "adrift", "settled"}
        BY <2>1, <2>3 DEF Inv, ToolInv, ToolTypeOK, Call, NoCall
      <3> HIDE DEF c
      <3> QED BY <2>4, <3>1 DEF Sound
    <2>6. call[c].tool = ToolFor(op[d])
      BY <2>3, <2>4 DEF Clear, Expected
    <2> QED BY <2>3, <2>5, <2>6 DEF Attempts
  <1> QED BY <1>1, WayInit, WayNext, PTL DEF Spec

(***************************************************************************)
(* Delegations to agents that follow their prompts keep the promise of     *)
(* PeerCall: their effects are counted by whether the last call of the     *)
(* prompt was committed.                                                   *)
(***************************************************************************)
Effective(d) == used[d] = CallsFor(op[d]) /\ <<d, used[d]>> \in effected

Counts == [d \in Trusted |-> Cardinality(Attempts(d) \cap effected)]

CountsTell == Counts = [d \in Trusted |-> IF Effective(d) THEN 1 ELSE 0]

LEMMA CountsTellTheEffect == WayInv => CountsTell
  <1> SUFFICES ASSUME WayInv, NEW d \in Trusted
               PROVE  Cardinality(Attempts(d) \cap effected) = IF Effective(d) THEN 1 ELSE 0
    BY DEF CountsTell, Counts
  <1>1. \/ op[d] \in AllOps
        \/ used[d] = 0 /\ op[d] = "none"
    BY TrustedFacts DEF WayInv, Inv, AgentInv, AgentTypes, Waits, Places
  <1>2. Attempts(d) = IF used[d] = CallsFor(op[d]) THEN {<<d, used[d]>>} ELSE {}
    <2>1. CASE op[d] \in AllOps
      BY <2>1, AttemptIsTheLast
    <2>2. CASE used[d] = 0 /\ op[d] = "none"
      BY <2>2 DEF Attempts, CallsFor
    <2> QED BY <1>1, <2>1, <2>2
  <1>3. Attempts(d) \cap effected = IF Effective(d) THEN {<<d, used[d]>>} ELSE {}
    BY <1>2 DEF Effective
  <1> QED BY <1>3, FS_EmptySet, FS_Singleton

LEMMA CountsTellNext == WayInv' => CountsTell'
  BY CountsTellTheEffect, PTL

\* The steps of one delegation, of the promise's and of ours.
PromiseStep == [Promise!CallNext]_(Promise!callVars)

Same(d) == (Outcome(d)' = Outcome(d)) /\ (Effective(d)' <=> Effective(d))

TakesEffect(d) ==
    /\ Outcome(d)' = Outcome(d) /\ Outcome(d) \in {"open", "doubtful"}
    /\ ~Effective(d) /\ Effective(d)'

Concludes(d) ==
    /\ Outcome(d) = "open" /\ Outcome(d)' \in {"accepted", "refused", "doubtful"}
    /\ Effective(d)' <=> Effective(d)
    /\ Outcome(d)' = "accepted" => Effective(d)
    /\ Outcome(d)' = "refused" => ~Effective(d)

LEMMA SameIsAStutter ==
    ASSUME CountsTell, CountsTell', \A d \in Trusted : Same(d)
    PROVE  PromiseStep
  <1>1. [d \in Trusted |-> Outcome(d)]' = [d \in Trusted |-> Outcome(d)]
    BY DEF Same
  <1>2. Counts' = Counts
    BY DEF Same, CountsTell
  <1> QED BY <1>1, <1>2 DEF PromiseStep, Promise!callVars, Counts

LEMMA OneDelegationSteps ==
    ASSUME CountsTell, CountsTell', NEW x \in Trusted,
           \A d \in Trusted \ {x} : Same(d),
           TakesEffect(x) \/ Concludes(x)
    PROVE  PromiseStep
  <1>1. CASE TakesEffect(x)
    <2>1. [d \in Trusted |-> Outcome(d)]' = [d \in Trusted |-> Outcome(d)]
      BY <1>1 DEF Same, TakesEffect
    <2>2. Counts' = [Counts EXCEPT ![x] = 1] /\ Counts[x] = 0
      BY <1>1 DEF Same, TakesEffect, CountsTell
    <2>3. Promise!TakeEffect(x)
      BY <1>1, <2>1, <2>2 DEF Promise!TakeEffect, TakesEffect, Counts
    <2> QED BY <2>3 DEF PromiseStep, Promise!CallNext
  <1>2. CASE Concludes(x)
    <2>1. PICK o \in {"accepted", "refused", "doubtful"} : o = Outcome(x)'
      BY <1>2 DEF Concludes
    <2>2. [d \in Trusted |-> Outcome(d)]' = [[d \in Trusted |-> Outcome(d)] EXCEPT ![x] = o]
      BY <1>2, <2>1 DEF Same, Concludes
    <2>3. Counts' = Counts /\ (o = "accepted" => Counts[x] = 1)
          /\ (o = "refused" => Counts[x] = 0)
      BY <1>2, <2>1 DEF Same, Concludes, CountsTell
    <2>4. Promise!Conclude(x, o)
      BY <1>2, <2>1, <2>2, <2>3 DEF Promise!Conclude, Concludes, Counts
    <2> QED BY <2>1, <2>4 DEF PromiseStep, Promise!CallNext
  <1> QED BY <1>1, <1>2

LEMMA OutcomeStays ==
    ASSUME NEW d, client'[d] = client[d], client[d] = "answered" => reply'[d] = reply[d]
    PROVE  Outcome(d)' = Outcome(d)
  <1>1. CASE client[d] = "answered"
    BY <1>1 DEF Outcome
  <1>2. CASE client[d] # "answered"
    BY <1>2 DEF Outcome
  <1> QED BY <1>1, <1>2

LEMMA ApartIsSame ==
    ASSUME NEW d \in Trusted, Apart(d), effected' = effected
    PROVE  Same(d)
  BY OutcomeStays DEF Apart, Same, Effective

\* What a reply says of the last call.
LEMMA ReplyIsItsOutcome ==
    ASSUME WayInv, NEW d \in Trusted, task[d] \in {"completed", "failed"}
    PROVE  /\ Unmarked(reply[d]) => Effective(d)
           /\ reply[d] \notin {"error", "unreachable"} /\ ~Unmarked(reply[d]) => ~Effective(d)
  <1>1. Inv /\ Way(d) /\ used[d] \in Nat
    BY TrustedFacts DEF WayInv, Inv, AgentInv, AgentTypes
  <1>2. CASE task[d] = "failed"
    BY <1>1, <1>2 DEF Way, Unmarked
  <1>3. CASE task[d] = "completed"
    <2> DEFINE c == <<d, used[d]>>
    <2>1. /\ reply[d] = call[c].text /\ reply[d] # "available" /\ reply[d] # "none"
          /\ used[d] > 0
      BY <1>1, <1>3 DEF Way, Told
    <2>2. /\ used[d] \in 1 .. used[d] /\ c \in Calls /\ op[d] \in AllOps
          /\ call[c].tool = Expected(op[d], used[d]) /\ Clear(c)
      BY <1>1, <2>1, MadeFacts DEF Way, Made
    <2>3. Sound(c) /\ call[c].at \in {"none", "sent", "served", "adrift", "settled"}
      BY <1>1, <2>2 DEF Inv, ToolInv, ToolTypeOK, Call, NoCall
    <2>4. reply[d] = "succeeded" => c \in effected
      <3> HIDE DEF c
      <3> QED BY <2>1, <2>3 DEF Sound
    <2>5. reply[d] \in Refusals => c \notin effected
      <3> HIDE DEF c
      <3> QED BY <2>1, <2>3 DEF Sound, Refusals
    <2>6. reply[d] = "succeeded" => used[d] = CallsFor(op[d])
      BY <1>1, <2>1, <2>2 DEF Clear, Expected, Way, CallsFor
    <2>7. reply[d] \in Marked \cup {"succeeded"}
      BY <2>1, <2>2 DEF Clear
    <2> HIDE DEF c
    <2>8. CASE reply[d] = "succeeded"
      BY <2>4, <2>6, <2>8 DEF Effective, Unmarked, Marked, c
    <2>9. CASE reply[d] \in Marked
      BY <2>5, <2>9 DEF Effective, Unmarked, Marked, Refusals, Texts, c
    <2> QED BY <2>7, <2>8, <2>9
  <1> QED BY <1>2, <1>3

LEMMA AnswerConcludes ==
    ASSUME WayInv, NEW d \in Trusted, Answer(d) \/ ClientGivesUp(d)
    PROVE  Concludes(d) /\ effected' = effected
  <1>1. /\ client[d] = "waiting" /\ client'[d] \in {"answered", "gone"}
        /\ client'[d] = "answered" => task[d] \in {"completed", "failed"}
        /\ UNCHANGED <<used, op, effected, reply>>
    BY TrustedFacts DEF WayInv, Inv, AgentInv, AgentTypes, Answer, ClientGivesUp, toolVars
  <1>2. Outcome(d) = "open" /\ (Effective(d)' <=> Effective(d))
    BY <1>1 DEF Outcome, Effective
  <1>3. CASE client'[d] = "gone"
    <2>1. Outcome(d)' = "doubtful"
      BY <1>3 DEF Outcome
    <2> QED BY <1>1, <1>2, <2>1 DEF Concludes
  <1>4. CASE client'[d] = "answered"
    <2>1. Outcome(d)' = IF reply[d] \in {"error", "unreachable"} THEN "doubtful"
                        ELSE IF Unmarked(reply[d]) THEN "accepted" ELSE "refused"
      BY <1>1, <1>4 DEF Outcome
    <2>2. /\ Unmarked(reply[d]) => Effective(d)
          /\ reply[d] \notin {"error", "unreachable"} /\ ~Unmarked(reply[d]) => ~Effective(d)
      BY <1>1, <1>4, ReplyIsItsOutcome
    <2> QED BY <1>1, <1>2, <2>1, <2>2 DEF Concludes
  <1> QED BY <1>1, <1>3, <1>4

\* The agent's own steps neither conclude the call nor have its effect.
LEMMA WorkIsSame ==
    ASSUME WellAsked, WayInv, NEW d \in Trusted,
           Delegate(d) \/ StartWork(d) \/ Build(d) \/ Ask(d) \/ ToolReturns(d)
             \/ Finish(d) \/ Fail(d)
    PROVE  Same(d) /\ effected' = effected
  <1>0. /\ Inv /\ Way(d) /\ d \in Delegations /\ used[d] \in Nat
        /\ client[d] \in {"idle", "waiting", "answered", "gone"}
    BY TrustedFacts DEF WayInv, Inv, AgentInv, AgentTypes
  <1>1. CASE Delegate(d)
    <2>1. /\ client[d] = "idle" /\ client'[d] = "waiting"
          /\ used[d] = 0 /\ UNCHANGED <<used, effected>>
      BY <1>0, <1>1 DEF Delegate, Inv, AgentInv, AgentTypes, Waits, toolVars
    <2>2. ~Effective(d) /\ ~Effective(d)'
      BY <2>1 DEF Effective, CallsFor
    <2>3. Outcome(d)' = Outcome(d)
      BY <2>1 DEF Outcome
    <2> QED BY <2>1, <2>2, <2>3 DEF Same
  <1>2. CASE StartWork(d) \/ Build(d) \/ Finish(d) \/ Fail(d)
    <2>1. /\ UNCHANGED <<client, op, used, effected>>
          /\ task[d] \notin {"completed", "failed"}
      BY <1>2 DEF StartWork, Build, Finish, Fail, toolVars
    <2>2. client[d] # "answered"
      BY <1>0, <2>1 DEF Way
    <2> QED BY <2>1, <2>2, OutcomeStays DEF Same, Effective
  <1>3. CASE ToolReturns(d)
    <2>1. UNCHANGED <<client, op, used, reply, effected>>
      BY <1>0, <1>3, ReturnsAreTold DEF Tell, GiveUp
    <2> QED BY <2>1, OutcomeStays DEF Same, Effective
  <1>4. CASE Ask(d)
    <2>1. PICK c : c = <<d, used[d] + 1>>
      OBVIOUS
    <2>2. /\ c \in Calls /\ call[c].at = "none" /\ used'[d] = used[d] + 1
          /\ UNCHANGED <<client, op, reply, effected>>
      BY <1>0, <1>4, <2>1, AskMakesACall
    <2>3. c \notin effected
      BY <1>0, <2>2 DEF Inv, ToolInv, Sound
    <2>4. ~Effective(d)
      <3>1. used[d] < CallsFor(op[d])
        BY <1>4, AskIsExpected
      <3> QED BY <1>0, <3>1 DEF Effective, CallsFor
    <2>5. ~Effective(d)'
      BY <2>1, <2>2, <2>3 DEF Effective
    <2> QED BY <2>2, <2>4, <2>5, OutcomeStays DEF Same
  <1> QED BY <1>1, <1>2, <1>3, <1>4

\* A service that answers may let a pending or doubtful call have its effect.
LEMMA ServiceIsAStep ==
    ASSUME WayInv, CountsTell, CountsTell', Service
    PROVE  PromiseStep
  <1>1. UNCHANGED <<client, op, asked, task, used, reply, built>>
    BY DEF Service, peerVars
  <1>2. ASSUME NEW d \in Trusted
        PROVE  Outcome(d)' = Outcome(d) /\ Apart(d)
    BY <1>1, OutcomeStays DEF Apart
  <1>3. CASE effected' = effected
    BY <1>2, <1>3, ApartIsSame, SameIsAStutter
  <1>4. CASE effected' # effected
    <2>1. PICK c \in Calls : Serve(c)
      BY <1>4 DEF Service, LoseRequest, Restart
    <2>2. /\ call[c].at \in {"sent", "adrift"} /\ effected' = effected \cup {c}
      BY <1>4, <2>1 DEF Serve
    <2>3. Sound(c) /\ c \notin effected
      BY <1>4, <2>2 DEF WayInv, Inv, ToolInv
    <2>4. ASSUME NEW d \in Trusted, ~(c = <<d, used[d]>> /\ used[d] = CallsFor(op[d]))
          PROVE  Same(d)
      BY <1>1, <1>2, <2>2, <2>4 DEF Same, Effective
    <2>5. CASE \A d \in Trusted : ~(c = <<d, used[d]>> /\ used[d] = CallsFor(op[d]))
      BY <2>4, <2>5, SameIsAStutter
    <2>6. ASSUME NEW d \in Trusted, c = <<d, used[d]>>, used[d] = CallsFor(op[d])
          PROVE  PromiseStep
      <3>1. ~Effective(d) /\ Effective(d)' /\ Outcome(d)' = Outcome(d)
        BY <1>1, <1>2, <2>2, <2>3, <2>6 DEF Effective
      <3>2. client[d] \in {"idle", "waiting", "answered", "gone"} /\ Way(d)
        BY TrustedFacts DEF WayInv, Inv, AgentInv, AgentTypes
      <3>3. ASSUME client[d] = "answered" PROVE reply[d] \in {"error", "unreachable"}
        <4>1. CASE task[d] = "failed"
          BY <3>2, <4>1 DEF Way
        <4>2. CASE task[d] = "completed"
          <5>1. reply[d] = call[c].text /\ call[c].text # "none"
            BY <2>6, <3>2, <4>2 DEF Way, Told
          <5> QED BY <2>2, <2>3, <5>1 DEF Sound
        <4> QED BY <3>2, <3>3, <4>1, <4>2 DEF Way
      <3>4. Outcome(d) \in {"open", "doubtful"}
        BY <3>2, <3>3 DEF Outcome
      <3>5. TakesEffect(d)
        BY <3>1, <3>4 DEF TakesEffect
      <3>6. ASSUME NEW e \in Trusted \ {d} PROVE Same(e)
        BY <2>4, <2>6
      <3> QED BY <3>5, <3>6, OneDelegationSteps
    <2> QED BY <2>5, <2>6
  <1> QED BY <1>3, <1>4

LEMMA PromiseNext ==
    ASSUME WellAsked, WayInv, WayInv', [Next]_vars
    PROVE  PromiseStep
  <1>1. CountsTell /\ CountsTell'
    BY CountsTellTheEffect, CountsTellNext
  <1>2. Inv
    BY DEF WayInv
  <1>3. CASE UNCHANGED vars
    <2>1. \A d \in Trusted : Same(d)
      BY <1>3, ApartIsSame DEF vars, toolVars, peerVars, Apart
    <2> QED BY <1>1, <2>1, SameIsAStutter
  <1>4. CASE Service
    BY <1>1, <1>4, ServiceIsAStep
  <1>5. ASSUME NEW d \in Delegations, Delegate(d) \/ Work(d) \/ Fail(d) PROVE PromiseStep
    <2>1. effected' = effected
      <3>1. CASE Ask(d)
        BY <1>2, <3>1, AskMakesACall
      <3>2. CASE ToolReturns(d)
        BY <1>2, <3>2, ReturnsAreTold DEF Tell, GiveUp
      <3> QED BY <1>5, <3>1, <3>2
            DEF Delegate, Work, Answer, ClientGivesUp, StartWork, Build, Finish, Fail, toolVars
    <2>2. \A x \in Trusted \ {d} : Same(x)
      BY <1>2, <1>5, <2>1, TrustedFacts, AloneIsApart, ApartIsSame
    <2>3. CASE d \in Trusted /\ (Answer(d) \/ ClientGivesUp(d))
      BY <1>1, <2>2, <2>3, AnswerConcludes, OneDelegationSteps
    <2>4. CASE d \in Trusted /\ ~(Answer(d) \/ ClientGivesUp(d))
      <3>1. Same(d)
        BY <1>5, <2>4, WorkIsSame DEF Work
      <3> QED BY <1>1, <2>2, <3>1, SameIsAStutter
    <2>5. CASE d \notin Trusted
      BY <1>1, <2>2, <2>5, SameIsAStutter
    <2> QED BY <2>3, <2>4, <2>5
  <1> QED BY <1>3, <1>4, <1>5 DEF Next

\* A delegation whose agent follows its prompt keeps the promise the order
\* workflow builds on, whatever the services, the network, the timeouts and
\* the agents of the other delegations do.
THEOREM DelegationsKeepTheirPromise ==
    ASSUME WellAsked
    PROVE  Spec => ImplementsPromise
  <1>1. Init => Promise!CallInit
    <2> SUFFICES ASSUME Init PROVE Promise!CallInit
      OBVIOUS
    <2>1. \A d \in Trusted : Outcome(d) = "open"
      BY TrustedFacts DEF Init, Outcome
    <2>2. \A d \in Trusted : Cardinality(Attempts(d) \cap effected) = 0
      BY FS_EmptySet DEF Init, ToolInit
    <2> QED BY <2>1, <2>2 DEF Promise!CallInit
  <1>2. WayInv /\ WayInv' /\ [Next]_vars => [Promise!CallNext]_(Promise!callVars)
    BY PromiseNext DEF PromiseStep
  <1>3. Spec => []WayInv
    BY WayInit, WayNext, PTL DEF Spec
  <1>4. Spec => Promise!CallSpec
    BY <1>1, <1>2, <1>3, PTL DEF Spec, Promise!CallSpec
  <1> QED BY <1>4 DEF ImplementsPromise

=============================================================================
