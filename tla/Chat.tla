--------------------------------- MODULE Chat ---------------------------------
(***************************************************************************)
(* The customer's chat page (frontend/src) before the order agent: the     *)
(* reducer and the send callback of useChat, the request and the parser of *)
(* the answers of api/orderAgent, and what the page shows of them.  Each   *)
(* send is one HTTP request and starts a run of the order workflow of its  *)
(* own: the agent's tasks are named by the sends.                          *)
(***************************************************************************)
EXTENDS Naturals, SequencesExt

CONSTANTS
    MaxSends,          \* bound: the messages the customer sends
    Answers(_, _)      \* the results the agent may give for a send and an outcome

ASSUME MaxSendsAssumption == MaxSends \in Nat

Sends == 1 .. MaxSends

\* What a run of the workflow tells: its confirmation's status, or no
\* confirmation because the graph raised.
Outcomes == {"confirmed", "failed", "pending_review", "error"}

None == "none"

\* No task id and no correlation id: undefined in the page's state.
NoId == 0

(***************************************************************************)
(* The parser.  An answer is a task: the parts of its status message, of   *)
(* its artifacts and of its last agent message, and its metadata; or a     *)
(* bare message.  A part is prose, a confirmation as bare JSON, fenced in  *)
(* prose or as data, with the outcome it tells.                            *)
(***************************************************************************)
\* Variant: the artifacts are read only when there is no status message.
PartsOfStatusFirst(answer) ==
    IF answer.status # <<>> THEN answer.status ELSE answer.artifacts \o answer.history

Parts(answer) == answer.status \o answer.artifacts \o answer.history

IsConfirmation(part) == part.form \in {"json", "fenced", "data"}

\* The first confirmation is the card.
Card(answer) ==
    LET cards == {i \in DOMAIN Parts(answer) : IsConfirmation(Parts(answer)[i])}
    IN  IF cards = {} THEN None ELSE Parts(answer)[Min(cards)].outcome

IsProse(part) == part.form \in {"fenced", "prose"}

\* Variant: no line of its own for an answer without prose.
BubbleBare(answer) == IF SelectSeq(Parts(answer), IsProse) # <<>> THEN "prose" ELSE "empty"

\* The line shown when the answer has no prose of its own.
Bubble(answer) ==
    IF SelectSeq(Parts(answer), IsProse) # <<>> THEN "prose"
    ELSE CASE Card(answer) = None        -> "no message"
           [] Card(answer) = "confirmed" -> "confirmed"
           [] Card(answer) = "failed"    -> "could not complete"
           [] OTHER                      -> "more information"

\* The audit steps: those of the metadata, or else the messages of the history
\* that are neither the customer's nor the agent's.
Steps(answer) == IF answer.metadata # <<>> THEN answer.metadata ELSE answer.tools

\* The answers of the order agent: its task is the send's, and tells the run
\* behind it.  A run that ended with a confirmation has it in at least one part
\* and no other; one that raised has only the text of the exception.  A run
\* that stopped before it knew a product has executed nothing to list.
AnswerParts == [form : {"json", "fenced", "data", "prose"}, outcome : Outcomes \cup {None}]

Confirmations(parts) ==
    {parts[i].outcome : i \in {j \in DOMAIN parts : IsConfirmation(parts[j])}}

StepsTold(s, out) ==
    CASE out = "error"          -> {<<>>}
      [] out = "pending_review" -> {<<>>, <<s>>}
      [] OTHER                  -> {<<s>>}

TellsItsRun(answer, s, out) ==
    /\ answer.id = s
    /\ {answer.status, answer.artifacts, answer.history} \subseteq Seq(AnswerParts)
    /\ Confirmations(answer.status) \cup Confirmations(answer.artifacts)
          \cup Confirmations(answer.history) = (IF out = "error" THEN {} ELSE {out})
    /\ Steps(answer) \in StepsTold(s, out)
    /\ answer.correlation = (IF out = "error" THEN NoId ELSE s)

ASSUME AnswersAssumption ==
    \A s \in Sends, out \in Outcomes : \A answer \in Answers(s, out) :
        TellsItsRun(answer, s, out)

\* Bare messages are wrapped into a task without artifacts or metadata.
Parsed(answer) ==
    [role |-> "assistant", text |-> Bubble(answer), card |-> Card(answer),
     steps |-> Steps(answer), correlation |-> answer.correlation, taskId |-> answer.id]

(***************************************************************************)
(* The state of the page and of its requests.                              *)
(***************************************************************************)
VARIABLES
    chat,     \* the reducer's state
    screen,   \* the state last rendered, which the handlers close over
    call,     \* of each send: unsent, waiting, settled, or dropped by a reload
    asked,    \* the taskId each send carried
    run       \* the agent's run for each send: none, running, or its outcome

vars == <<chat, screen, call, asked, run>>

InitialState == [messages |-> <<>>, isLoading |-> FALSE, taskId |-> NoId, error |-> FALSE]

Init ==
    /\ chat = InitialState
    /\ screen = InitialState
    /\ call = [s \in Sends |-> "unsent"]
    /\ asked = [s \in Sends |-> NoId]
    /\ run = [s \in Sends |-> "none"]

\* The message shown for an answer to a send.
AgentMessage(parsed, s) ==
    [k \in DOMAIN parsed \cup {"send"} |-> IF k = "send" THEN s ELSE parsed[k]]

\* The reducer.  Variants: loading is not set, or not reset by an error; the
\* first task id is kept.
UserSendIdle(state, s) ==
    [state EXCEPT !.messages = Append(@, [role |-> "user", send |-> s]), !.error = FALSE]
FailedLoading(state) == [state EXCEPT !.error = TRUE]
AgentReplyFirst(state, s, parsed) ==
    [state EXCEPT !.messages = Append(@, AgentMessage(parsed, s)),
                  !.taskId = IF @ = NoId THEN parsed.taskId ELSE @,
                  !.isLoading = FALSE]

\* USER_SEND and LOADING_START.
UserSend(state, s) ==
    [state EXCEPT !.messages = Append(@, [role |-> "user", send |-> s]),
                  !.isLoading = TRUE, !.error = FALSE]

\* AGENT_REPLY.
AgentReply(state, s, parsed) ==
    [state EXCEPT !.messages = Append(@, AgentMessage(parsed, s)),
                  !.taskId = IF parsed.taskId = NoId THEN @ ELSE parsed.taskId,
                  !.isLoading = FALSE]

\* ERROR.
Failed(state) == [state EXCEPT !.isLoading = FALSE, !.error = TRUE]

(***************************************************************************)
(* The customer.  A click or a key is rendered before the next event.      *)
(***************************************************************************)
Dispatch(state) ==
    /\ chat' = state
    /\ screen' = state

Upcoming(s) == call[s] = "unsent" /\ \A r \in 1 .. s - 1 : call[r] # "unsent"

Submit(s) ==
    /\ Upcoming(s)
    /\ ~screen.isLoading
    /\ Dispatch(UserSend(chat, s))
    /\ call' = [call EXCEPT ![s] = "waiting"]
    /\ asked' = [asked EXCEPT ![s] = screen.taskId]
    /\ UNCHANGED run

ClearError ==
    /\ screen.error
    /\ Dispatch([chat EXCEPT !.error = FALSE])
    /\ UNCHANGED <<call, asked, run>>

\* The state of the page is nowhere else.
Reload ==
    /\ chat # InitialState
    /\ Dispatch(InitialState)
    /\ call' = [s \in Sends |-> IF call[s] = "waiting" THEN "dropped" ELSE call[s]]
    /\ UNCHANGED <<asked, run>>

(***************************************************************************)
(* The network and the agent.  A request may reach the agent after the     *)
(* page has given up on it, and its run goes on without the page.          *)
(***************************************************************************)
Receive(s) ==
    /\ call[s] # "unsent" /\ run[s] = "none"
    /\ run' = [run EXCEPT ![s] = "running"]
    /\ UNCHANGED <<chat, screen, call, asked>>

Finish(s) ==
    /\ run[s] = "running"
    /\ \E out \in Outcomes : run' = [run EXCEPT ![s] = out]
    /\ UNCHANGED <<chat, screen, call, asked>>

\* What is dispatched after an await is rendered later.
Settle(s, state) ==
    /\ call[s] = "waiting"
    /\ call' = [call EXCEPT ![s] = "settled"]
    /\ chat' = state
    /\ UNCHANGED <<screen, asked, run>>

Answered(s) ==
    /\ run[s] \in Outcomes
    /\ \E answer \in Answers(s, run[s]) : Settle(s, AgentReply(chat, s, Parsed(answer)))

\* fetch rejects, or the answer is an HTTP error, no JSON, a JSON-RPC error or
\* one without a result: at any time, whatever became of the request.
Rejected(s) == Settle(s, Failed(chat))

Render ==
    /\ screen # chat
    /\ screen' = chat
    /\ UNCHANGED <<chat, call, asked, run>>

Next ==
    \/ ClearError \/ Reload \/ Render
    \/ \E s \in Sends : Submit(s) \/ Receive(s) \/ Finish(s) \/ Answered(s) \/ Rejected(s)

Spec == Init /\ [][Next]_vars

\* The browser renders, a request arrives, every run of the agent ends (see
\* EveryOrderIsAnswered) and its answer comes back.  A fetch is never given up
\* by the page, which sets no timeout, and need not fail.
FairSpec ==
    /\ Spec
    /\ WF_vars(Render)
    /\ \A s \in Sends : WF_vars(Receive(s)) /\ WF_vars(Finish(s)) /\ WF_vars(Answered(s))

(***************************************************************************)
(* What the page shows.                                                    *)
(***************************************************************************)
Told(s) == {i \in DOMAIN chat.messages :
               chat.messages[i].role = "assistant" /\ chat.messages[i].send = s}

IsAssistant(message) == message.role = "assistant"

\* AuditTrailPanel: the steps of all messages, and the latest correlation id.
PanelSteps ==
    FlattenSeq([i \in DOMAIN chat.messages |->
                   IF IsAssistant(chat.messages[i]) THEN chat.messages[i].steps ELSE <<>>])

HasCorrelation(message) == IsAssistant(message) /\ message.correlation # NoId

\* Variant: the first id instead of the latest.
PanelCorrelationFirst ==
    LET is == {i \in DOMAIN chat.messages : HasCorrelation(chat.messages[i])}
    IN  IF is = {} THEN NoId ELSE chat.messages[Min(is)].correlation

PanelCorrelation ==
    LET is == {i \in DOMAIN chat.messages : HasCorrelation(chat.messages[i])}
    IN  IF is = {} THEN NoId ELSE chat.messages[Max(is)].correlation

(***************************************************************************)
(* Properties.                                                             *)
(***************************************************************************)
\* The types of the page's state; no answer is shown as an empty bubble.
TypeOK ==
    /\ chat.isLoading \in BOOLEAN /\ chat.error \in BOOLEAN
    /\ chat.taskId \in Sends \cup {NoId}
    /\ \A i \in DOMAIN chat.messages :
          LET m == chat.messages[i]
          IN  /\ m.send \in Sends
              /\ m.role = "assistant" =>
                    /\ m.text \in {"prose", "no message", "confirmed",
                                   "could not complete", "more information"}
                    /\ m.card \in Outcomes \cup {None}
    /\ call \in [Sends -> {"unsent", "waiting", "settled", "dropped"}]
    /\ asked \in [Sends -> Sends \cup {NoId}]
    /\ run \in [Sends -> {"none", "running"} \cup Outcomes]

\* The page waits for one send at a time and shows that it waits: no order is
\* submitted while the outcome of another is open.
OneSendAtATime ==
    /\ \A s \in Sends : call[s] = "waiting" =>
          /\ chat.isLoading /\ screen.isLoading
          /\ \A r \in Sends \ {s} : call[r] # "waiting"
    /\ chat.isLoading => \E s \in Sends : call[s] = "waiting"

\* A send carries the task id of the last answer above it on the page.
SendsCarryTheLatestTask ==
    \A i \in DOMAIN chat.messages :
        LET above == {j \in 1 .. i - 1 : IsAssistant(chat.messages[j])}
        IN  chat.messages[i].role = "user" =>
               asked[chat.messages[i].send] =
                  (IF above = {} THEN NoId ELSE chat.messages[Max(above)].send)

\* Every answer on the page stands right below the message it answers, and its
\* card tells the outcome of that message's own run: no card when it raised.
CardsTellTheRuns ==
    \A i \in DOMAIN chat.messages :
        LET m == chat.messages[i]
        IN  m.role = "assistant" =>
               /\ m.card = (IF run[m.send] = "error" THEN None ELSE run[m.send])
               /\ i > 1 /\ chat.messages[i - 1] = [role |-> "user", send |-> m.send]

\* The panel lists the steps of every answered run in the order of the sends,
\* but for runs that were put up for review before they had any; the id beside
\* them is that of the last answered run that confirmed anything,
\* which is not the last run when that one raised.
PanelTellsTheRuns ==
    LET told   == {s \in Sends : Told(s) # {} /\ run[s] # "error"}
        listed == {PanelSteps[i] : i \in DOMAIN PanelSteps}
    IN  /\ listed \subseteq told
        /\ \A s \in told \ listed : run[s] = "pending_review"
        /\ \A i, j \in DOMAIN PanelSteps : i < j => PanelSteps[i] < PanelSteps[j]
        /\ PanelCorrelation = IF told = {} THEN NoId ELSE Max(told)

\* Every send is settled and the page becomes usable again.
EverySendSettles ==
    \A s \in Sends : call[s] = "waiting" ~> call[s] # "waiting" /\ ~screen.isLoading

=============================================================================
