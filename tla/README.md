# AgentCart in TLA+

A verification development for the AgentCart platform: a customer talks to an
LLM *order agent*, which runs a fixed workflow and delegates each step over the
A2A protocol to four *peer agents*; each peer is a ReAct agent over the tools
of an *MCP server*, and each MCP server calls one *REST service*.

```
frontend -- A2A --> order agent -- A2A --> inventory / payment / shipping / notification agent
                       |                        |  MCP
                       | MCP                    v
                       v                   MCP tool servers (rate limit, guardrails)
                  order MCP server              |  HTTP
                       |                        v
                       +-----------------> inventory / payment / shipping / order / notification service
```

## Inventory of the system

| component | state | operations | what is hard | what makes it correct |
|---|---|---|---|---|
| order agent, workflow (`agents/order_agent/graph.py`, `executor.py`) | per task: the A2A state, the `OrderState` dict, the graph node | ten nodes, three conditional edges; submit, complete, fail, cancel | each node awaits a peer that may answer anything, late or never; an exception or a cancellation may hit any await; replies are judged by wording | effects in saga order, backed decisions, no effect of a refused or unclear order, a confirmation that tells the run, an answer in the end |
| order agent, intent (`intent.py`, `guardrail_input.py`) | none | parse, validate, recompute the total, gate on confidence | numeric edges, nulls, three competing totals, bounds that differ from layer to layer | an order goes on exactly when it is acceptable, at the catalog's price; what a later layer still refuses of it is known, and worded as a refusal |
| inventory service (`rest-services/inventory-service`) | product rows with a version, in memory | reserve, release, reads | concurrent transactions on one row, lost updates, restarts | nothing lost, nothing oversold, as if served one at a time |
| payment service and tools (`payment-service`, `payment_mcp`) | transactions | charge, refund, status | lost answers and retries, no idempotency key, a restart that forgets | one charge per delegated charge |
| MCP tool layer (`mcp-servers/shared`, `*_mcp/server.py`) | sliding windows per correlation id | rate limit, guardrails, one REST call, audit | the edges of the sliding window; a REST timeout after the commit; texts standing for statuses | the ceiling holds and nothing is rejected below it, a reply says what happened |
| peer agents (`agents/shared/peer_executor.py`) | A2A task, cached agent | execute, cancel | first use from several tasks, failures turned into texts, an LLM that stops early or retries | an accepted call had its effect, a refused one never will, every call ends |
| A2A client (`agents/shared/a2a_utils.py`) | none | send, collect the reply | which of several events is the reply | the reply is the peer's result |
| order, shipping, notification services | records with generated ids | create, read, send | restarts forget | what is reported as created was created |
| chat frontend (`frontend/src/hooks/useChat.ts`, `api/orderAgent.ts`) | messages, loading flag, task id | send, reply, error, reload | handlers that close over an old render, answers of several shapes, errors while the run goes on | one send at a time, every answer under its message, the outcome of its own run |
| audit, correlation, tracing | none that steers the system | log, redact | - | - |
| builds, compose files | - | - | - | - |

`PROJECT.json` lists the same components with their files and status, and under
`hazards` every place in this code that is hard to test, with the properties that
cover it. Five have none, with a note that says why: a cancelled run and a failure
after the charge are compensated by nobody, which no document promises either; the
databases are in memory by design, and so a lookup after a restart finds nothing;
and an agent built twice is the same agent.

## The modules

| module | models | kind |
|---|---|---|
| `OrderSaga` | what the workflow promises of its effects: at most once, in saga order, a decision backed by them, at most one call in the air after an abort | abstract |
| `OrderWorkflow` | the executor and the graph, one run per task | detailed, implements `OrderSaga` |
| `Intent` | the node `extract_intent`: from the LLM's reply to the state the workflow branches on | detailed, implements `ExtractIntent` and `Clarify` of `OrderWorkflow` |
| `Tools` | the guardrails, the services' verdicts and the tools' texts, as operators | pure |
| `ToolServer` | `run_tool`: one tool call from the limiter to the audit record, over services that keep rows and restart | detailed, used by `PeerAgents` |
| `PeerCall` | what a delegated call promises the workflow that awaits it | abstract |
| `PeerAgents` | `call_peer_agent`, the peers' executor, the ReAct agent and its tool calls | detailed, implements `PeerCall` |
| `StockLedger` | reservations and releases served one at a time | abstract |
| `Inventory` | the inventory service's concurrent transactions | detailed, implements `StockLedger` |
| `RateLimiter` | the sliding window of the MCP layer, on an event loop and with threads | detailed |
| `Chat` | the chat page: reducer, send callback, answer parser, audit panel | detailed |
| `OrderWorkflowProofs`, `OrderTrailProofs`, `OrderSagaProofs`, `IntentProofs`, `PeerAgentsProofs`, `InventoryProofs`, `RateLimiterProofs`, `ChatProofs` | theorems about them | proofs |
| `MC*` | instances for TLC | - |

How they fit together. `Intent` details the first node of `OrderWorkflow` and
is checked to be a step of it. `OrderWorkflow` assumes something of the replies of
its peers (`HonestReplies`, `HonestRefusals`, `HonestReleases`); `PeerAgents` shows
which agents keep that promise (`PeerCall`, `SuccessIsBacked`) and two of its runs
show which do not. `PeerAgents` in turn assumes instructions that no tool or service
refuses in words without a failure marker; `RefusalsAreMarked` of `Intent` says that
the workflow's are such. `PeerAgents` is built on `ToolServer` and that on `Tools`;
`Intent` uses `Tools` too, for what the tools and services refuse of the orders it accepts.
The stock in `ToolServer` is served in one step per request, which is what
`Inventory` is shown to implement (`StockLedger`); the limiter there may refuse
any call, and `RateLimiter` says which ones it does.

### OrderWorkflow

State: `task` is the A2A state of each task, `node` the graph node the run is
about to execute or is awaiting, `hops` the nodes executed (the LangGraph
recursion budget), `st` the `OrderState`, `trail` the `audit_steps` attached to
a completed task, `audit` the status of the executor's audit record. Two
variables are not in the agent but in the world it acts on: `done`, the calls
whose effect took place in the REST services, and `orphan`, calls the run gave
up on while a peer was still working on them.

There is one action per node of the graph, the conditional edges are the
operators `AfterExtract`, `AfterInventory`, `AfterPayment`, and the executor
contributes `Submit`, `StartWork`, `Complete`, `Raise` (an exception leaves the
graph, nothing of the node is kept, no node compensates), `SaveRefused`
(`create_order` declares both identifiers as strings, so a missing one is
refused by argument validation), `OutOfSteps` and `Cancel`. `LateEffect` and
`LateLoss` are the peer finishing or dying after the run gave up on it.

Texts are abstracted to what the code tells apart: `tone` is the verdict of
`_looks_successful` (empty, with a failure marker, without one), `id` whether the
identifier pattern matches, and `done` whether the effect took place. The three
are independent: the constant `Outcomes` says which combinations the peers may
produce, from anything at all (`AnyOutcomes`) to truthful texts
(`TruthfulOutcomes`). The LLM's draft of the confirmation ranges over everything
the schema accepts. The recursion limit is counted in graph nodes. A reply in
the state remembers which node left it (`by`), because the rollback writes its
reply under the key of the reservation (`graph.py:298`): after a rollback the
audit trail shows the text of the release beside the step of the reservation, and
`TrailShowsTheReplies` says that this is the only such case.

The cancellation comes from the A2A server library, which is not in the
repository; it is modelled from how the executor is written: the running
coroutine gets a `CancelledError`, which is no `Exception`, so only the
`finally` clause runs, and the audit record says `ok`.

### Intent

`reply` is the LLM's answer: a form (a JSON object, one embedded in prose,
several, an array, no JSON) and an object with the ten fields of the schema, each of
which may be `Null`, missing or null, or `Odd`, a value its type does not take. The
validators of `ExtractedOrderIntent` run in their order: nulls are dropped so
that the defaults of the shipping method and the address apply (`DropNulls`), the
types and bounds of the fields (`Fields`; the product's name is required although
nothing reads it), the delivery date
(`DeliveryInFuture`), then the total is overridden when it differs from price
times quantity by more than a cent (`OverrideTotal`). `CheckInputIntent` is the
guardrail; `Accepted` and `Refused` are what the node leaves in the state, where
the amount is recomputed once more from the catalog. Money is in cents and the
confidence in percent; a delivery date is past, today, future or no date.

`AskedFor` is what the later nodes write into their instructions, as the arguments of
`Tools`. The instruction to ship (`graph.py:268`) carries no order id, which
`create_shipment` wants; `ShippedWithAnId` is the call of an agent that puts one in.
`LaterRefusals` says what is then refused of an order that goes on: nothing of its
stock and its record; its charge above the payment service's ceiling; its shipment, with the
customer charged, as it is instructed always, and with an order id unless the
address is complete and in a country the tool ships to. `RefusalsAreMarked` says that
every text those calls can come back with either tells of a success or has a failure
marker: the two kinds of text that do neither are not met.

### Tools, ToolServer

`Tools` holds, for each of the eleven tools, the guardrail (`Passes`), the status
its service answers with (`Verdict`: bean validation first, then the lookup, then
the rule of the service) and the kind of text the tool makes of that status
(`Text`). Any transaction may also fail with a 500 and be undone (`Statuses`).

`ToolServer` is one tool call: `Limit` and `Reject` answer without a request,
`SendRequest` puts the REST request under way, `Serve` is the service's one
transaction, `Tell` the answer reaching the tool, `GiveUp` the exception branch
of `run_tool` (no connection, or `MCP_HTTP_TIMEOUT`), after which a request
already sent is adrift: it may still be served (`Serve`) or be lost
(`LoseRequest`). `Restart` empties the in-memory stores and seeds the stock.
`effected` is a history: the calls whose effect was ever committed.

### PeerAgents

One delegation is one `call_peer_agent`: `client` is its await, `task` the A2A
task and where the peer's executor stands, `used` the tool calls made, `reply`
the text of the task, `built` the peers whose agent is cached. `StartWork` and
`Build` are the lazy construction, which two tasks may do at once; `Fail` is any
exception, turned into a failed task whose text is the error; `Ask` and
`ToolReturns` are the ReAct loop; `Finish` is the last text chosen by
`_last_ai_text`. `ClientGivesUp` ends the await while the task goes on.

The LLM is a constant: an agent in none of the three sets follows its prompt
and its instruction and passes on the last text; one in `Silent` may end its turn without a text;
one in `Retriers` follows the advice in the payment tools' texts; one in `Careless`
may call any tool of its server with any of `Inputs` and end with any of
`Claims`. Saving the order is the one step that calls its tool directly.

### Inventory

One request is one thread and one transaction: `Load` reads the row, `Refuse`
answers a shortage, `CommitReserve` and `CommitRelease` write quantities
computed from the row as it was read if the version is still the same,
`Conflict` is the failed version check (a 500 of the catch-all handler).
`Restart` seeds the in-memory database anew and loses what was under way.
`granted` and `returned` count what clients were told since the restart: they
tie the rows to the answers. `Matched = TRUE` restricts clients to releasing
what they were granted, once. The service itself does not: `release` adds to the
stock whatever was reserved (`InventoryService.java:78`), although
`ReleaseRequest.java:8` speaks of stock "previously reserved", so a client that
releases twice raises the stock above its seed. That is why `NoOversell` is
stated for matched clients only.

Quantities are mathematical integers: the columns are 32-bit, and with requests
bounded by 9999 units (`@Max(9999)`) an overflow takes hundreds of thousands of
unmatched releases, outside any instance.

### RateLimiter

`calls` is `_calls`, `call` the progress of each `run_tool` and the time its
check read, `admitted` a history of the admitted times. `Begin` is `check` up to
the lock, `Admit` and `Reject` the locked part, eviction included, `Return` the
rest of the call. On an event loop (`Threads = FALSE`, how the tool servers run:
all tools are coroutines) nothing runs between `Begin` and the locked part; the
clock does. Time is counted in ticks and stops at `Horizon`, twice the window, so
that every entry of the first window is evicted by calls of the second.
With `Threads = TRUE` the clock read at `ratelimit.py:54`, outside the lock,
breaks the order the eviction relies on, and with it the ceiling; the module's
docstring ("thread/async-safe", `ratelimit.py:6`) is true of the event loop the
servers use, not of threads.

### Chat

`chat` is the reducer's state and `screen` the state last rendered, which the
callbacks close over: a click is rendered before the next event, what is
dispatched after an `await` is rendered later (`Render`). `call` is each send's
request, `run` the agent's run behind it, which a reload or a failed fetch leaves
going. An answer is what the parser tells apart: the parts of the status
message, the artifacts and the history, each prose or a confirmation in one of
its three forms, and the metadata. `AnswersAssumption` says what an answer tells of its run
(`executor.py:66`): any confirmation in it has the run's status, there is one unless the
run raised, and its metadata are the run's; only a run that is put up for review may have no
steps, since `build_audit_steps` lists nothing before a product is known. `MCChat`
gives the answers the order agent produces and two more it is allowed to. A send's `taskId` is shown to be that of the
answer above it; the order agent ignores it and starts a new run for each message,
while `frontend/README.md:61` says the ids "maintain conversation continuity".

## What each run checks

| run | module | expect | properties | shows |
|---|---|---|---|---|
| `OrderAnyPeers` | `MCOrderWorkflow` | pass | `TypeOK`, `ReviewHasNoSideEffects`, `RejectionStopsTheSaga`, `EveryPlanIsSafe` | Two orders whose peers may do and reply anything and raise anywhere, one cancelled at any time, the other cut short by its recursion limit: what the graph guarantees without trusting a reply. |
| `OrderSaga` | `MCOrderWorkflow` | pass | `ConfirmedCarriesIds`, `ConfirmationTellsTheRun`, `TrailMissesNoEffect`, `TrailShowsTheReplies`, `BudgetCoversEveryPath`, `RecordedOrderIsBacked`, `FailureIsCompensated`, `ImplementsSaga`, `EveryOrderIsAnswered` | Peers whose replies can be trusted, with exceptions, cancellations, late effects and the default recursion limit: the workflow implements the abstract saga, tells the customer and the audit trail what happened, and always answers. |
| `OrderUnrecorded` | `MCOrderWorkflow` | violation | `ConfirmedIsRecorded` | An order is confirmed to the customer although the order service refused to record it. |
| `OrderOrphanedHold` | `MCOrderWorkflow` | violation | `NoOrphanedHold` | An exception in the payment call ends the run with the stock still reserved. |
| `InventoryAnyClients` | `MCInventory` | pass | `TypeOK`, `BooksBalance`, `ConflictHasAWinner`, `ImplementsLedger` | Three concurrent requests of any kind on two products, with restarts: the optimistic lock loses no update and serialises the requests. |
| `InventoryMatched` | `MCInventory` | pass | `NoOversell`, `EveryRequestIsAnswered` | Four concurrent requests of clients that only release what they were granted, under fair threads: the stock promised never exceeds the stock there is, and every request is answered. |
| `LimiterEventLoop` | `MCRateLimiter` | pass | `TypeOK`, `Ceiling`, `RejectsOnlyAtCeiling` | Two tool calls at a time on an event loop, two correlation ids, resets: no window exceeds the ceiling and nothing is rejected below it. |
| `PeerAgents` | `MCPeerAgents` | pass | `TypeOK`, `ReplyTellsTheEffect`, `EffectsAreAudited`, `SuccessIsBacked`, `ImplementsPromise`, `EveryDelegationEnds` | A delegated step whose agent follows its prompt beside one whose agent does and says anything, over services that fail, answer late or restart: what reaches the workflow is what happened, and every delegation ends. |
| `PeerSilence` | `MCPeerAgents` | violation | `SuccessIsBacked` | An agent that ends its turn without a text lets its own instruction pass for the reply, and the reservation counts as made. |
| `PeerRetries` | `MCPeerAgents` | violation | `ChargedOnce` | An agent that looks the transaction up and charges again, as the payment tools advise, charges the customer twice. |
| `Intent` | `MCIntent` | pass | `TypeOK`, `ProceedsIffAcceptable`, `TotalIsTheCatalogs`, `LaterRefusals`, `RefusalsAreMarked`, `ImplementsExtraction` | Every combination of the bounds of the extraction's fields, and any two of them null or of another type: which orders go on, with what amount, what a later guardrail or service still refuses of them, and that such a refusal is worded as one. |
| `Chat` | `MCChat` | pass | `TypeOK`, `OneSendAtATime`, `SendsCarryTheLatestTask`, `CardsTellTheRuns`, `PanelTellsTheRuns`, `EverySendSettles` | Three sends, their runs and answers, errors and reloads: the page tells the outcome of every run below the message that started it and becomes usable again. |

### Bounds

* `OrderSaga`, `OrderUnrecorded`, `OrderOrphanedHold`: runs share no state, so one
  order shows every interleaving of a run with its faults; the recursion limit
  is the code's default, 15. `TrustedOutcomes` of `OrderSaga` is everything the three
  `Honest...` assumptions allow: a release may still fail, told or untold. `OrderAnyPeers` has a second order beside it whose
  limit of one node makes `OutOfSteps` bite (the limit is a setting of the process,
  so `RecursionLimit` gives one for each task).
* `PeerAgents`: two delegations, one that follows its prompt with the two tool
  calls a reservation takes, one careless with a single call; a stock of three
  units that covers one quantity of two and not both; charges below and above the
  service's ceiling; a shipment asked for with and without an order id. Two delegations are what it takes for one agent's effects
  to compete with another's and for two tasks to build an agent at once.
  `PeerSilence` and `PeerRetries` need one delegation with two and three calls.
* `Intent`: every field at, just inside and just outside each bound that any of
  the checks applies to it, any one or two fields null or of another type, and the five
  forms of a reply.
* `Chat`: three sends, so that an answer may come after an error, after a reload
  or after another answer, and a stale id differs from the latest and the first.
* `InventoryAnyClients`: three requests on two products are the smallest instance
  where a request loses a race, another one wins it and a third touches another
  row. `InventoryMatched`: four requests on one product let two reservations and
  two releases interleave. Seeds (3 and 1) and quantities (1 and 2) are chosen so
  that some requests fit alone and not together.
* `LimiterEventLoop`: a ceiling of two calls in a window of two ticks, with the
  clock stopping after four, lets a window fill, slide, lose its oldest entries
  and fill again, with calls exactly one window apart.

### Fairness

* `OrderWorkflow!FairSpec`: a run that can go on does. Every await of the
  workflow is bounded by a timeout (`A2A_CLIENT_TIMEOUT` for peers, the HTTP
  client's for the MCP server), so it returns or raises, and the event loop
  resumes it. Nothing is asked of clients (`Submit`, `Cancel`) nor of peers after a
  timeout.
* `PeerAgents!FairSpec`: the event loops and their timers run, and the LLM
  answers. Nothing is asked of the services: a request may never be served, a tool
  then gives up after `MCP_HTTP_TIMEOUT`. This is enough for
  `EveryDelegationEnds`, because the tool calls of a run are bounded.
* `Chat!FairSpec`: the page renders, a request that was sent reaches the agent, a
  run ends (what `EveryOrderIsAnswered` shows of the workflow) and its answer or an
  error comes back. The request has no timeout of its own (`orderAgent.ts:272`), so this
  is all that ends the wait.
* `Inventory!FairSpec`: a request thread of the servlet container runs;
  `InventoryMatched` assumes no restart, which loses requests.

`CHECK_DEADLOCK` is `FALSE` in every configuration but the limiter's: an order, a
delegation, a conversation and a bounded set of requests come to an end and stay
there.

## What is proved

The theorems are checked by the TLA+ proof system for every value of the
constants. Each module's ASSUMEs (the types of the constants, and for `Chat` that an
answer tells its run) hold throughout; where a theorem needs more, the hypothesis is
written in its statement and named below. Every invariant and action property
of the passing runs is a theorem, and so are the four refinements.

* `InventoryProofs`. `BooksBalance` is not inductive alone: a commit computes
  the new row from the row that was *read*. The strengthening `IInv` says that a
  transaction that has loaded a row saw either the current row or an older
  version, so an equal version means an equal row; the version check then makes
  a commit a step on the current row. From the same invariant follow
  `TypeCorrect`, `NoLostUpdate` and `ServiceImplementsLedger`, where loading,
  refusing and losing the race are stuttering steps of the ledger.
  `ConflictsAreNotSpurious` adds `RaceInv`: whoever holds a row of another version than
  the current one was overtaken by a request on that product that was answered ok, or is
  dropped with the restart that made it so. `NothingIsOversold` is about clients that
  release once what they were granted (`Matched`) and a service that is not
  restarted, for any finite set of requests. Its invariant `MatchInv` says that the
  reserved quantity is the *sum* of what is held (`Kept`) and that a release names a granted
  reservation that no other release names (`Undoing`), so the floor at zero in
  `release` is never what decides. Sums over a set are folds of the community modules; that
  one more or one fewer member changes a sum by its quantity, in whatever order
  the fold takes them, is proved from the smallest subset that would contradict it.
* `OrderWorkflowProofs`. The invariant `RunInv` is the type invariant and, for
  each run, a `Path`: what the node implies of the status (`StatusAt`), of the
  gates passed (`GatesAt`), of the identifiers (`IdsAt`), of the three ways a run
  ends (`EndsAt`), and of the effects that may have happened before the node
  (`Before`). Each action first gets a lemma that says what it does to its own
  run (`...Moves`), then one that says it keeps `RunInv` (`...Keeps`). Since the
  invariant never looks at the outcome of a call beyond its type, its theorems
  hold for any peers: `TypeCorrect`, `ReviewTouchesNothing`, `RejectionIsFinal`,
  `ConfirmedIsIdentified`, `ConfirmationIsTheRuns`.
* `OrderTrailProofs`. What a run leaves behind is a function of its node and its
  gates: `TrailInv` adds to `RunInv` the steps executed (`StepsAt`), the nodes counted
  (`HopsAt`), whose reply each key of the state holds (`Remembers`) and that nothing took
  effect outside those steps (`Accounted`). For any peers and faults,
  `PlansAreSafe`, `TrailIsComplete` and `TrailIsTruthful` read off it;
  `EightNodesAreEnough` holds for every recursion limit of at least eight, the longest path
  of the graph (the code's default is 15). `FailureCompensates` needs
  `HonestRefusals`, that a payment reply that tells of a failure charged nobody, and
  `HonestReleases`, that a reply to the release without a failure marker set the stock
  free. The graph never tests that reply (`graph.py:296`), so all it can promise of a
  release that failed is that the trail shows it: stock still held has beside the step of
  the release a reply that does not look successful (`Freed` is the conjunct of `Accounted`
  that carries this from the release to the trail).
* `OrderSagaProofs`. For peers whose replies can be trusted (`HonestReplies`: a
  reply that opens a gate comes from a call that took effect; `HonestRefusals`)
  `HonestInv` adds to `RunInv` two bounds on the effects of a run: `Owed`, what must
  have happened before a
  node, and `Allowed`, what may have; only the call the node awaits can be in
  the air. `RecordIsBacked` follows at once. `WorkflowImplementsSaga` maps each
  call to `Perform`, or to a stutter when it had no effect, the answer of the
  run to `Decide`, an interruption to `GiveUp` and an effect that comes after it
  to `Late`.
* `PeerAgentsProofs`. `ReplyTellsTheEffect` and `EffectsAreAudited` follow from
  one invariant per tool call, `Sound`: for each place a call can be at, what it has
  told and whether its effect took place; for a served one, that the effect took
  place exactly when the status on its way back is a success (`Commits`). It
  rests on two lemmas about the tools: the statuses a service can answer
  (`VerdictIsPossible`) and, for those, that the text is `succeeded` exactly when
  the service committed (`TextTells`); the second is false for statuses no
  service answers. The type of `reply` needs `Waits`: an agent that thinks has
  heard from all its calls. Nothing in that invariant depends on what the LLM does,
  so both theorems hold for careless agents.
  The other two theorems are about the delegations whose agents follow their prompts
  (`Trusted`), beside any others, and assume well-made instructions (`WellAsked`): the
  product reserved is in the catalog, which `check_input_intent` sees to, and a charge has
  a payment token and a correlation id. Without it a 404 or a 422 reaches the agent in
  words that carry no failure marker; that the workflow's instructions do not meet one is
  `RefusalsAreTold` of `IntentProofs`. Shipments may lack their order id. `WayInv` describes the way of such a
  delegation, which calls it has made with which arguments and that its reply is the text
  of the last one, and `Clear`, that such a text has the effect or the marker. From it
  follow `SuccessIsBackedByEffects` (for runs without agents that say nothing or
  retry, which `PeerSilence` and `PeerRetries` show to matter) and
  `DelegationsKeepTheirPromise`, where a commit is an effect of `PeerCall`, the answer or
  the timeout its outcome, and everything else, the other delegations included, a stutter.
* `IntentProofs`. The state after the node is a function of the reply, so its
  invariant is that function (`Accepted` or `Refused`). `OnlyAcceptableProceeds` compares
  it with the acceptance rule written down directly, over the ten fields of the reply,
  `CatalogSetsTheTotal` with the catalog, `GuardrailsRefuseLate` with the guardrails and
  verdicts of `Tools`, for any catalog, customers and replies, where the run has two
  products. `RefusalsAreTold` goes through the seven calls an accepted order leads to: the
  statuses their services can answer, and the text each tool makes of them.
  `NodeOfTheWorkflow` gives for each reply the choice of `OrderWorkflow!ExtractIntent`
  that leaves the same state, and shows that the clarification is `Clarify`.
* `ChatProofs`. `OneSendAtATime` is inductive once the state rendered is tied to
  the reducer's: until an answer is rendered the page still shows the wait (`Inv`).
  `PageInv` adds what makes the other properties hold: a page that does not load is the
  page on the screen (`Synced`), messages stand in the order of their sends
  (`SentInOrder`), a message that waits is the last one (`OpenIsLast`), every answer stands
  below its message (`AnswersInPlace`), and the task id is that of the last
  answer (`TasksAreLatest`). `TypeCorrect`, `TaskIdsAreCarried` and `CardsAreTrue` follow.
  `PanelIsTrue` adds what the panel's flattened list of steps shows (`Shows`); that
  `FlattenSeq` of one more sequence is the old list followed by it is proved from its
  definition, the existence and uniqueness of its recursive function included.
* `RateLimiterProofs`. `WindowInv` says, for each id, that the admitted times
  are in order (`InOrder`), that what is recorded is a tail of them (`IsTail`),
  that what is not recorded any more has left the window of any caller
  (`Reached`), and that a call and the one `MaxCalls` later are a window apart
  (`Spaced`). Order is what an event loop gives and threads do not; hence the
  assumption `Threads = FALSE` of `CeilingHolds` and `RejectionsAreDeserved`,
  which `TypeCorrect` does not need. The end of the eviction loop rests on the
  least element of a set of naturals (`LeastNatural`).

The prover cannot take an induction theorem that has an operator as a parameter, so
facts about folds are proved from a smallest counterexample instead (`WFMin` over the
subset order or the naturals), which is first order.

Only model-checked: the liveness properties (`EveryOrderIsAnswered`,
`EveryDelegationEnds`, `EveryRequestIsAnswered`, `EverySendSettles`), since the prover
has no reasoning about fairness, and the violations, which are counterexamples.

## Where the code and its documents disagree

* `ConfirmedIsRecorded` (run `OrderUnrecorded`, `agents/order_agent/graph.py:321`): _save_order never tests the reply of create_order, and falls back to the correlation id when it finds no order id: a refused save ends in status confirmed. README.md:71-73 says the final confirmation is validated against what the REST services actually returned.
* `NoOrphanedHold` (run `OrderOrphanedHold`, `agents/order_agent/graph.py:246`): An exception in the payment call (timeout, lost peer) leaves the graph through OrderAgentExecutor.execute's except clause, and no node releases the reservation. docs/architecture.md:110-111 says that if payment fails after stock was reserved the Order Agent releases the reservation before reporting failure, 'no orphaned holds'.
* `SuccessIsBacked` (run `PeerSilence`, `agents/shared/peer_executor.py:120`): _last_ai_text returns the text of the last message of any role that has one: when the LLM ends its turn with an empty message, that is a tool's text or the instruction itself, which carries no failure marker. The docstring (src/agents/shared/peer_executor.py:121) says "Extract the final assistant text from a LangGraph result dict." The run shows a reservation that no tool was called for reported as a success.
* `ChargedOnce` (run `PeerRetries`, `mcp-servers/payment_mcp/server.py:114`): check_transaction_status answers a lookup that finds nothing with "never recorded, so it is safe to attempt a new charge" (src/mcp-servers/payment_mcp/server.py:115-119), and its docstring (src/mcp-servers/payment_mcp/server.py:100-101) says "Use this before retrying a charge to avoid double-charging a customer." A charge whose answer was lost gave its caller no transaction id to look up, and the service takes no idempotency key: the run follows the advice and charges twice.

Smaller disagreements met on the way, which no run is devoted to:

* `README.md:118` has an order of the customer `DECLINE-TEST` declined by the
  payment service; the input guardrail does not know that customer, so the order
  ends in `pending_review` and never reaches payment (`ProceedsIffAcceptable`).
* `guardrail_output.py` compares the amount of the confirmation with the state's,
  after the node has set it from the state: the comparison cannot fail.
* The instruction to ship (`graph.py:268-275`) names no order id, and the guardrail of
  `create_shipment` refuses an empty one (`shipping_mcp/guardrails.py:42-53`): as
  instructed, every shipment of a charged order is refused, unless the agent makes an id up
  (`LaterRefusals`).
* `create_shipment`'s docstring (`shipping_mcp/server.py:39-40`) says "Run only after
  the order has been created successfully"; the graph ships before it saves.
* `refund_payment` and `check_transaction_status` are offered and no prompt or
  node of the workflow asks for a refund: an order that fails after the charge stays
  charged (`ImplementsSaga` allows a charge without a record after an abort).

## Not modelled, and what could come next

* Audit output, redaction, truncation, spans and logging: they keep no state the
  properties speak of. The status of the audit records is modelled where it is
  decided (`OrderWorkflow`, `ToolServer`). Correlation ids are the names the models
  give to runs and calls.
* The read-only REST endpoints and listings, the A2A server routes around the SDK,
  the React components' layout, the build files and the compose topology.
* Widths: the 32-bit stock columns (see `Inventory`), and the floating-point money of
  the Python side, which the models count in cents; a total is compared with a
  tolerance of one cent, which is where rounding would show.
* Cancelling a peer's task: `PeerAgentExecutor.cancel` exists, nothing in the
  repository sends that request.
* Proofs still worth writing: that the assumptions one module makes of the next are theorems
  of it, in particular that the outcomes `PeerCall` allows are among those `HonestReplies`,
  `HonestRefusals` and `HonestReleases` ask of the workflow's peers; and an invariant behind each liveness
  property, that a run, a delegation or a send that waits has an action that can end its
  wait.
