------------------------------ MODULE ToolServer ------------------------------
(***************************************************************************)
(* Calls of MCP tools: run_tool of mcp-servers/shared/runner.py in front   *)
(* of the REST services.  A call passes the rate limiter and the           *)
(* guardrails, sends one REST request, and turns whatever becomes of it    *)
(* into a text and an audit record.  The services keep their rows in       *)
(* memory; a request the tool gave up on may still be served.              *)
(***************************************************************************)
EXTENDS Tools

CONSTANTS
    Calls,      \* the tool calls, one REST request each at most
    Stock,      \* the units of the product seeded
    MayRestart, \* the REST services may be restarted
    MayLimit    \* the rate limiter may refuse a call (see RateLimiter)

ASSUME StockAssumption == Stock \in Nat
ASSUME FaultsAssumption == {MayRestart, MayLimit} \subseteq BOOLEAN

\* at: the REST request is under way, served, given up on by the tool (adrift)
\* or settled; http, enough: the answer on its way back to the tool; text: what
\* the tool returned; audit: its audit record.
NoCall == [at |-> "none", tool |-> "none", args |-> NoArguments, http |-> 0,
           enough |-> FALSE, text |-> "none", audit |-> "none"]

Call ==
    [at: {"sent", "served", "adrift", "settled"}, tool: ToolNames, args: Arguments,
     http: {0, 200, 201, 402, 404, 409, 422, 500}, enough: BOOLEAN,
     text: Texts \cup {"none"}, audit: {"none", "ok", "error", "rejected", "rate_limited"}]

VARIABLES
    call,       \* each tool call
    stock,      \* the available quantity
    rows,       \* the calls whose row is in the store of its service
    effected    \* the calls whose effect was committed

toolVars == <<call, stock, rows, effected>>

ToolInit ==
    /\ call = [c \in Calls |-> NoCall]
    /\ stock = Stock
    /\ rows = {}
    /\ effected = {}

Record(c, t, a, text, audit) ==
    call' = [call EXCEPT ![c] = [NoCall EXCEPT !.at = "settled", !.tool = t, !.args = a,
                                               !.text = text, !.audit = audit]]

Limit(c, t, a) ==
    /\ MayLimit
    /\ call[c].at = "none"
    /\ Record(c, t, a, "rate_limited", "rate_limited")
    /\ UNCHANGED <<stock, rows, effected>>

Reject(c, t, a) ==
    /\ call[c].at = "none"
    /\ ~Passes(t, a)
    /\ Record(c, t, a, "rejected", "rejected")
    /\ UNCHANGED <<stock, rows, effected>>

SendRequest(c, t, a) ==
    /\ call[c].at = "none"
    /\ Passes(t, a)
    /\ call' = [call EXCEPT ![c] = [NoCall EXCEPT !.at = "sent", !.tool = t, !.args = a]]
    /\ UNCHANGED <<stock, rows, effected>>

\* Variant: the row is taken without a look at its stock.
EnoughAnyway(a) == TRUE

Enough(a) == stock >= a.size

\* The tool that makes the rows a tool looks up.
Maker(t) ==
    CASE t \in {"check_transaction_status", "refund_payment"} -> "charge_customer"
      [] t = "track_shipment" -> "create_shipment"
      [] t = "get_order" -> "create_order"

Found(t, a) == t \in RowTools /\ a.target = "known" /\ \E r \in rows : call[r].tool = Maker(t)

\* Variant: a request is committed before it is judged.
CommitsUnjudged(t, http) == t \in WriteTools

Commits(t, http) == t \in WriteTools /\ Fine(http)

StockAfter(t, a) ==
    CASE t = "reserve_stock" -> stock - a.size
      [] t = "release_stock" -> stock + a.size
      [] OTHER -> stock

\* The service answers: one transaction, all of it or nothing.
Serve(c) ==
    LET t == call[c].tool
        a == call[c].args
    IN  /\ call[c].at \in {"sent", "adrift"}
        /\ \E http \in Statuses(t, a, Enough(a), Found(t, a)) :
              /\ call' = IF call[c].at = "sent"
                         THEN [call EXCEPT ![c].at = "served", ![c].http = http,
                                           ![c].enough = Enough(a)]
                         ELSE [call EXCEPT ![c].at = "settled"]
              /\ stock' = IF Commits(t, http) THEN StockAfter(t, a) ELSE stock
              /\ rows' = IF Commits(t, http) /\ t \in CreateTools THEN rows \cup {c} ELSE rows
              /\ effected' = IF Commits(t, http) THEN effected \cup {c} ELSE effected

\* The answer reached the tool: whatever its status, the audit record says ok.
Tell(c) ==
    /\ call[c].at = "served"
    /\ Record(c, call[c].tool, call[c].args,
              Text(call[c].tool, call[c].http, call[c].enough), "ok")
    /\ UNCHANGED <<stock, rows, effected>>

\* Variant: a timeout is reported as a refusal.
GiveUpRejected(c) ==
    /\ call[c].at \in {"sent", "served"}
    /\ call' = [call EXCEPT ![c].at = IF @ = "sent" THEN "adrift" ELSE "settled",
                            ![c].http = 0, ![c].enough = FALSE,
                            ![c].text = "rejected", ![c].audit = "error"]
    /\ UNCHANGED <<stock, rows, effected>>

\* Variant: the REST client has no timeout.
GiveUpNever(c) == FALSE /\ UNCHANGED toolVars

\* The REST call raised: no connection, or no answer within MCP_HTTP_TIMEOUT.
GiveUp(c) ==
    /\ call[c].at \in {"sent", "served"}
    /\ call' = [call EXCEPT ![c].at = IF @ = "sent" THEN "adrift" ELSE "settled",
                            ![c].http = 0, ![c].enough = FALSE,
                            ![c].text = "unreachable", ![c].audit = "error"]
    /\ UNCHANGED <<stock, rows, effected>>

\* The request the tool gave up on never reaches the service.
LoseRequest(c) ==
    /\ call[c].at = "adrift"
    /\ call' = [call EXCEPT ![c].at = "settled"]
    /\ UNCHANGED <<stock, rows, effected>>

\* The stores are in memory and the stock is seeded again.
Restart ==
    /\ MayRestart
    /\ stock' = Stock
    /\ rows' = {}
    /\ UNCHANGED <<call, effected>>

(***************************************************************************)
(* Properties of the tool calls, whoever makes them.                       *)
(***************************************************************************)
ToolTypeOK ==
    /\ call \in [Calls -> Call \cup {NoCall}]
    /\ stock \in Nat
    /\ rows \subseteq effected
    /\ effected \subseteq Calls

\* A call may still take effect.
InTheAir(c) == call[c].at \in {"sent", "adrift"}

\* What a tool tells the agent is what happened and will happen in the
\* service: a success is committed, a refusal has no effect and will never
\* have one, and only a call that could not reach its service leaves both
\* open (run_tool and the status branches of the tools).
ReplyTellsTheEffect ==
    \A c \in Calls :
        /\ call[c].text = "succeeded" => c \in effected
        /\ call[c].text \in Refusals => c \notin effected /\ ~InTheAir(c)

\* The audit records account for every effect: a committed call is audited as
\* ok and reported as done, or audited as an error, or its tool still waits
\* (emit_audit at the three exits of run_tool).
EffectsAreAudited ==
    \A c \in effected :
        \/ call[c].audit = "ok" /\ call[c].text = "succeeded"
        \/ call[c].audit = "error"
        \/ call[c].at = "served"

=============================================================================
