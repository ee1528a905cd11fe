------------------------------ MODULE PeerAgents ------------------------------
(***************************************************************************)
(* The peer agents: a step of the order workflow delegated over A2A        *)
(* (call_peer_agent), run as an A2A task by a peer's executor, whose ReAct *)
(* agent calls the MCP tools.  The LLM that drives the agent is modelled   *)
(* by what it may do: follow its prompt, end its turn without a text,      *)
(* follow the advice in the tools' texts, or anything at all.  The last    *)
(* step, saving the order, calls its tool without a peer.                  *)
(***************************************************************************)
EXTENDS ToolServer, FiniteSets

CONSTANTS
    Delegations,   \* the delegated calls
    Ops,           \* for each of them, the steps it may be
    Asked,         \* for each step, the arguments its instruction may give
    Inputs,        \* for each tool, the arguments a careless agent may pass
    Claims,        \* the texts a careless agent may end with
    Budget,        \* the tool calls an agent may make in one run
    Careless,      \* the delegations whose LLM does and says anything
    Silent,        \* those whose LLM may end its turn without a text
    Retriers       \* those whose LLM retries as the tools advise

AllOps == {"reserve", "charge", "ship", "release", "save", "notify"}

ASSUME OpsAssumption == Ops \in [Delegations -> SUBSET AllOps]
ASSUME AskedAssumption == Asked \in [AllOps -> SUBSET Arguments]
ASSUME InputsAssumption == Inputs \in [ToolNames -> SUBSET Arguments]
ASSUME ClaimsAssumption == Claims \subseteq Texts
ASSUME BudgetAssumption ==
    /\ Budget \in [Delegations -> Nat]
    /\ \A d \in Delegations \ Careless : Budget[d] >= 2
ASSUME CallsAssumption == Calls = UNION {{d} \X (1 .. Budget[d]) : d \in Delegations}
ASSUME LLMAssumption ==
    /\ Careless \cup Silent \cup Retriers \subseteq Delegations
    /\ \A d \in Careless \cup Silent : "save" \notin Ops[d]      \* no LLM there

\* The agent that serves a step, and the tools its MCP server gives it.
Peer(o) ==
    CASE o \in {"reserve", "release"} -> "inventory"
      [] o = "charge" -> "payment"
      [] o = "ship"   -> "shipping"
      [] o = "notify" -> "notification"
      [] o = "save"   -> "order"

ToolsOf(peer) ==
    CASE peer = "inventory"    -> StockTools
      [] peer = "payment"      -> {"charge_customer", "check_transaction_status", "refund_payment"}
      [] peer = "shipping"     -> {"create_shipment", "track_shipment"}
      [] peer = "notification" -> {"send_notification"}
      [] peer = "order"        -> {"create_order"}

\* The tool that has the effect a step asks for.
ToolFor(o) ==
    CASE o = "reserve" -> "reserve_stock"
      [] o = "release" -> "release_stock"
      [] o = "charge"  -> "charge_customer"
      [] o = "ship"    -> "create_shipment"
      [] o = "notify"  -> "send_notification"
      [] o = "save"    -> "create_order"

\* A reply is the text of a tool, the instruction itself, the text of an agent
\* that ran out of steps or that of a task that failed.  The instruction to
\* release the stock says that the payment failed.
Replies == Texts \cup {"instruction", "instruction_failed", "more_steps", "error"}

Unmarked(text) == text \notin Marked \cup {"instruction_failed", "error"}

VARIABLES
    client,     \* the await of call_peer_agent
    op,         \* the step delegated
    asked,      \* the arguments its instruction gives
    task,       \* the A2A task and where its executor stands
    used,       \* the tool calls the agent has made
    reply,      \* the text of the task: its artifact or its status message
    built       \* the peers whose ReAct agent is cached

peerVars == <<client, op, asked, task, used, reply, built>>
vars == <<toolVars, peerVars>>

Init ==
    /\ ToolInit
    /\ client = [d \in Delegations |-> "idle"]
    /\ op = [d \in Delegations |-> "none"]
    /\ asked = [d \in Delegations |-> NoArguments]
    /\ task = [d \in Delegations |-> "none"]
    /\ used = [d \in Delegations |-> 0]
    /\ reply = [d \in Delegations |-> "none"]
    /\ built = {}

(***************************************************************************)
(* The order agent's side.                                                 *)
(***************************************************************************)
Direct(d) == op[d] = "save"

Delegate(d) ==
    /\ client[d] = "idle"
    /\ \E o \in Ops[d] : \E a \in Asked[o] :
          /\ op' = [op EXCEPT ![d] = o]
          /\ asked' = [asked EXCEPT ![d] = a]
    /\ client' = [client EXCEPT ![d] = "waiting"]
    /\ task' = [task EXCEPT ![d] = "submitted"]
    /\ UNCHANGED <<toolVars, used, reply, built>>

\* The task is over: its text is the reply.  An exception of the direct tool
\* call has no text, it leaves the node.
Answer(d) ==
    /\ client[d] = "waiting"
    /\ task[d] \in {"completed", "failed"}
    /\ client' = [client EXCEPT ![d] =
                     IF Direct(d) /\ task[d] = "failed" THEN "gone" ELSE "answered"]
    /\ UNCHANGED <<toolVars, op, asked, task, used, reply, built>>

\* The await raises: no answer within A2A_CLIENT_TIMEOUT, or the peer is lost.
ClientGivesUp(d) ==
    /\ client[d] = "waiting"
    /\ client' = [client EXCEPT ![d] = "gone"]
    /\ UNCHANGED <<toolVars, op, asked, task, used, reply, built>>

(***************************************************************************)
(* The executor of the peer.                                               *)
(***************************************************************************)
At(d, place) == task' = [task EXCEPT ![d] = place]

StartWork(d) ==
    /\ task[d] = "submitted"
    /\ At(d, IF Peer(op[d]) \in built THEN "thinking" ELSE "building")
    /\ UNCHANGED <<toolVars, client, op, asked, used, reply, built>>

\* The ReAct agent is built on first use; two tasks may build it at once.
Build(d) ==
    /\ task[d] = "building"
    /\ built' = built \cup {Peer(op[d])}
    /\ At(d, "thinking")
    /\ UNCHANGED <<toolVars, client, op, asked, used, reply>>

\* The tools cannot be loaded, the LLM or a tool call raises: the task fails
\* with the error as its message; a tool call under way goes on.
Fail(d) ==
    /\ task[d] \in {"building", "thinking", "calling"}
    /\ At(d, "failed")
    /\ reply' = [reply EXCEPT ![d] = "error"]
    /\ UNCHANGED <<toolVars, client, op, asked, used, built>>

(***************************************************************************)
(* The ReAct agent.                                                        *)
(***************************************************************************)
Instruction(d) == IF op[d] = "release" THEN "instruction_failed" ELSE "instruction"

\* The last message that has a text, the instruction before any tool was called.
LastText(d) == IF used[d] = 0 THEN Instruction(d) ELSE call[<<d, used[d]>>].text

\* Variant: a call whose outcome is in doubt is simply made again.
FollowsPromptAgain(d) ==
    IF used[d] = 0 \/ LastText(d) = "unreachable" THEN {ToolFor(op[d])} ELSE {}

\* What the prompts and the instruction ask for next: stock is checked, then
\* reserved if it is available; any other step is one call.
FollowsPrompt(d) ==
    CASE op[d] = "reserve" /\ used[d] = 0 -> {"check_stock"}
      [] op[d] = "reserve" /\ used[d] = 1 /\ LastText(d) = "available" -> {"reserve_stock"}
      [] op[d] # "reserve" /\ used[d] = 0 -> {ToolFor(op[d])}
      [] OTHER -> {}

\* The advice in the texts of the payment tools: look the transaction up
\* before retrying, charge again when it was never recorded.
FollowsAdvice(d) ==
    CASE op[d] # "charge" -> {}
      [] op[d] = "charge" /\ LastText(d) \in {"failed", "unreachable"} -> {"check_transaction_status"}
      [] op[d] = "charge" /\ LastText(d) = "no_record" -> {"charge_customer"}
      [] OTHER -> {}

\* The tools and arguments the LLM may call next.  No id was ever returned to
\* an agent that looks its own charge up.
Picks(d) ==
    IF d \in Careless
    THEN UNION {{t} \X Inputs[t] : t \in ToolsOf(Peer(op[d]))}
    ELSE {<<t, IF t = "check_transaction_status"
               THEN [asked[d] EXCEPT !.target = "unknown"] ELSE asked[d]>> :
             t \in FollowsPrompt(d) \cup (IF d \in Retriers THEN FollowsAdvice(d) ELSE {})}

Ask(d) ==
    /\ task[d] = "thinking"
    /\ used[d] < Budget[d]
    /\ used' = [used EXCEPT ![d] = @ + 1]
    /\ \E pick \in Picks(d) :
          LET c == <<d, used[d] + 1>>
              t == pick[1]
              a == pick[2]
          IN  \/ (Limit(c, t, a) \/ Reject(c, t, a)) /\ UNCHANGED task
              \/ SendRequest(c, t, a) /\ At(d, "calling")
    /\ UNCHANGED <<client, op, asked, reply, built>>

\* A tool call returns its text, to an agent that may have failed meanwhile.
ToolReturns(d) ==
    \E i \in 1 .. used[d] :
        /\ Tell(<<d, i>>) \/ GiveUp(<<d, i>>)
        /\ task' = [task EXCEPT ![d] = IF @ = "calling" THEN "thinking" ELSE @]
        /\ UNCHANGED <<client, op, asked, used, reply, built>>

\* The texts the run may end with.  An agent that follows its prompt passes
\* on the last text; one that says nothing leaves it to _last_ai_text, which
\* takes the last message that has a text, whoever's it is.
Endings(d) ==
    CASE d \in Careless -> Claims
      [] d \in Silent \/ (d \notin Careless /\ Picks(d) = {}) -> {LastText(d)}
      [] OTHER -> IF used[d] = Budget[d] THEN {"more_steps"} ELSE {}

Finish(d) ==
    /\ task[d] = "thinking"
    /\ \E text \in Endings(d) : reply' = [reply EXCEPT ![d] = text]
    /\ At(d, "completed")
    /\ UNCHANGED <<toolVars, client, op, asked, used, built>>

(***************************************************************************)
(* The REST services serve requests in any order and may restart.          *)
(***************************************************************************)
Service ==
    /\ \/ \E c \in Calls : Serve(c) \/ LoseRequest(c)
       \/ Restart
    /\ UNCHANGED peerVars

\* What the event loops and the timers bring about: every await on this path
\* has a timeout (A2A_CLIENT_TIMEOUT, MCP_HTTP_TIMEOUT), and the LLM answers.
Work(d) ==
    \/ Answer(d) \/ ClientGivesUp(d) \/ StartWork(d) \/ Build(d)
    \/ Ask(d) \/ ToolReturns(d) \/ Finish(d)

Next == Service \/ \E d \in Delegations : Delegate(d) \/ Work(d) \/ Fail(d)

Spec == Init /\ [][Next]_vars

FairSpec == Spec /\ \A d \in Delegations : WF_vars(Work(d))

(***************************************************************************)
(* Properties.                                                             *)
(***************************************************************************)
TypeOK ==
    /\ ToolTypeOK
    /\ client \in [Delegations -> {"idle", "waiting", "answered", "gone"}]
    /\ op \in [Delegations -> AllOps \cup {"none"}]
    /\ asked \in [Delegations -> Arguments]
    /\ task \in [Delegations -> {"none", "submitted", "building", "thinking", "calling",
                                 "completed", "failed"}]
    /\ \A d \in Delegations : used[d] \in 0 .. Budget[d]
    /\ reply \in [Delegations -> Replies \cup {"none"}]
    /\ built \subseteq {"inventory", "payment", "shipping", "notification", "order"}

\* The calls of a delegation that asked for its effect.
Attempts(d) == {c \in {d} \X (1 .. used[d]) : call[c].tool = ToolFor(op[d])}

\* A reply without a failure marker, which opens the workflow's gates, tells
\* of an effect that took place, when the agents follow their prompts.
SuccessIsBacked ==
    \A d \in Delegations \ Careless :
        client[d] = "answered" /\ Unmarked(reply[d]) => Attempts(d) \cap effected # {}

\* No customer is charged twice for one delegated charge, also when the agent
\* retries as the tools advise (check_transaction_status exists to avoid it).
ChargedOnce ==
    \A d \in Delegations \ Careless :
        op[d] = "charge" => Cardinality(Attempts(d) \cap effected) <= 1

\* Every delegated call ends, and so does the task behind it, although no
\* service owes an answer.
EveryDelegationEnds ==
    \A d \in Delegations :
        client[d] = "waiting" ~>
            client[d] \in {"answered", "gone"} /\ task[d] \in {"completed", "failed"}

(***************************************************************************)
(* The abstract promise the order workflow builds on.                      *)
(***************************************************************************)
Trusted == Delegations \ (Careless \cup Silent \cup Retriers)

Outcome(d) ==
    CASE client[d] \in {"idle", "waiting"} -> "open"
      [] client[d] = "gone" -> "doubtful"
      [] client[d] = "answered" ->
            IF reply[d] \in {"error", "unreachable"} THEN "doubtful"
            ELSE IF Unmarked(reply[d]) THEN "accepted" ELSE "refused"

Promise == INSTANCE PeerCall WITH Delegations <- Trusted,
    outcome <- [d \in Trusted |-> Outcome(d)],
    effects <- [d \in Trusted |-> Cardinality(Attempts(d) \cap effected)]

\* The delegated calls keep their promise, whatever the services, the network
\* and the timeouts do.
ImplementsPromise == Promise!CallSpec

=============================================================================
