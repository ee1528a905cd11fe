------------------------------ MODULE ChatProofs ------------------------------
(***************************************************************************)
(* Theorems about Chat for any number of sends and any answers that tell   *)
(* their run: although the send callback decides on the state of an        *)
(* earlier render, the page has one order open at a time, every send       *)
(* carries the latest task id, and what the page and its panel show of a   *)
(* run is what became of it.                                               *)
(***************************************************************************)
EXTENDS Chat, WellFoundedInduction, TLAPS

Keys == {"messages", "isLoading", "taskId", "error"}

\* A reducer's state is a record with these fields.
IsState(state) ==
    /\ state = [k \in Keys |-> state[k]]
    /\ state.isLoading \in BOOLEAN

Waiting(s) == call[s] = "waiting"

\* The inductive invariant.  Once nothing waits, chat is idle at once and the
\* screen later: what a handler reads can only be loading for too long.
Inv ==
    /\ IsState(chat)
    /\ IsState(screen)
    /\ DOMAIN call = Sends
    /\ \A s \in Sends : Waiting(s) =>
          /\ chat.isLoading /\ screen.isLoading
          /\ \A r \in Sends \ {s} : ~Waiting(r)
    /\ chat.isLoading => \E s \in Sends : Waiting(s)

LEMMA InitialIsState == IsState(InitialState) /\ ~InitialState.isLoading
  BY DEF IsState, Keys, InitialState

LEMMA UserSendLoads ==
    ASSUME NEW state, IsState(state), NEW s
    PROVE  IsState(UserSend(state, s)) /\ UserSend(state, s).isLoading
  BY DEF IsState, Keys, UserSend

LEMMA AgentReplyIdles ==
    ASSUME NEW state, IsState(state), NEW s, NEW parsed
    PROVE  IsState(AgentReply(state, s, parsed)) /\ ~AgentReply(state, s, parsed).isLoading
  BY DEF IsState, Keys, AgentReply

LEMMA FailedIdles ==
    ASSUME NEW state, IsState(state)
    PROVE  IsState(Failed(state)) /\ ~Failed(state).isLoading
  BY DEF IsState, Keys, Failed

LEMMA ClearedIsState ==
    ASSUME NEW state, IsState(state)
    PROVE  LET cleared == [state EXCEPT !.error = FALSE]
           IN  IsState(cleared) /\ cleared.isLoading = state.isLoading
  BY DEF IsState, Keys

LEMMA InitInv == Init => Inv
  <1> SUFFICES ASSUME Init PROVE Inv
    OBVIOUS
  <1>1. /\ chat = InitialState
        /\ screen = InitialState
        /\ call = [s \in Sends |-> "unsent"]
    BY DEF Init
  <1>2. \A s \in Sends : ~Waiting(s)
    BY <1>1 DEF Waiting
  <1> QED BY <1>1, <1>2, InitialIsState DEF Inv

\* A click: nothing waits when the screen does not say so.
LEMMA SubmitInv ==
    ASSUME Inv, NEW s \in Sends, Submit(s)
    PROVE  Inv'
  <1>1. \A r \in Sends : ~Waiting(r)
    BY DEF Submit, Inv
  <1>2. /\ chat' = UserSend(chat, s)
        /\ screen' = UserSend(chat, s)
        /\ call' = [call EXCEPT ![s] = "waiting"]
    BY DEF Submit, Dispatch
  <1>3. /\ IsState(chat') /\ chat'.isLoading
        /\ IsState(screen') /\ screen'.isLoading
    BY <1>2, UserSendLoads DEF Inv
  <1>4. \A r \in Sends : Waiting(r)' <=> r = s
    BY <1>1, <1>2 DEF Waiting, Inv
  <1>5. DOMAIN call' = Sends
    BY <1>2 DEF Inv
  <1> QED BY <1>3, <1>4, <1>5 DEF Inv, IsState

\* An answer or an error ends the only wait there is.
LEMMA SettleInv ==
    ASSUME Inv, NEW s \in Sends, NEW state, Settle(s, state),
           IsState(state), ~state.isLoading
    PROVE  Inv'
  <1>1. /\ chat' = state
        /\ screen' = screen
        /\ call' = [call EXCEPT ![s] = "settled"]
        /\ Waiting(s)
    BY DEF Settle, Waiting
  <1>2. \A r \in Sends : ~Waiting(r)'
    BY <1>1 DEF Waiting, Inv
  <1>3. DOMAIN call' = Sends
    BY <1>1 DEF Inv
  <1> QED BY <1>1, <1>2, <1>3 DEF Inv, IsState

LEMMA StepInv == Inv /\ [Next]_vars => Inv'
  <1> SUFFICES ASSUME Inv, [Next]_vars PROVE Inv'
    OBVIOUS
  <1>1. CASE ClearError
    <2>1. /\ chat' = [chat EXCEPT !.error = FALSE]
          /\ screen' = chat'
          /\ call' = call
      BY <1>1 DEF ClearError, Dispatch
    <2>2. /\ IsState(chat') /\ chat'.isLoading = chat.isLoading
          /\ IsState(screen') /\ screen'.isLoading = chat.isLoading
      BY <2>1, ClearedIsState DEF Inv
    <2>3. \A s \in Sends : Waiting(s)' <=> Waiting(s)
      BY <2>1 DEF Waiting
    <2> QED BY <2>1, <2>2, <2>3 DEF Inv, IsState
  <1>2. CASE Reload
    <2>1. /\ chat' = InitialState
          /\ screen' = InitialState
          /\ call' = [s \in Sends |-> IF call[s] = "waiting" THEN "dropped" ELSE call[s]]
      BY <1>2 DEF Reload, Dispatch
    <2>2. \A s \in Sends : ~Waiting(s)'
      BY <2>1 DEF Waiting
    <2> QED BY <2>1, <2>2, InitialIsState DEF Inv, IsState
  <1>3. CASE Render
    <2>1. chat' = chat /\ screen' = chat /\ call' = call
      BY <1>3 DEF Render
    <2> QED BY <2>1 DEF Inv, IsState, Waiting
  <1>4. ASSUME NEW s \in Sends, Submit(s) PROVE Inv'
    BY <1>4, SubmitInv
  <1>5. ASSUME NEW s \in Sends, Receive(s) \/ Finish(s) PROVE Inv'
    BY <1>5 DEF Receive, Finish, Inv, IsState, Waiting
  <1>6. ASSUME NEW s \in Sends, Answered(s) PROVE Inv'
    <2>1. PICK answer \in Answers(s, run[s]) : Settle(s, AgentReply(chat, s, Parsed(answer)))
      BY <1>6 DEF Answered
    <2> QED BY <2>1, AgentReplyIdles, SettleInv DEF Inv
  <1>7. ASSUME NEW s \in Sends, Rejected(s) PROVE Inv'
    <2>1. Settle(s, Failed(chat))
      BY <1>7 DEF Rejected
    <2> QED BY <2>1, FailedIdles, SettleInv DEF Inv
  <1>8. CASE UNCHANGED vars
    BY <1>8 DEF vars, Inv, IsState, Waiting
  <1> QED BY <1>1, <1>2, <1>3, <1>4, <1>5, <1>6, <1>7, <1>8 DEF Next

\* The page waits for one send at a time and shows that it waits, for any
\* number of sends, any answers, errors and reloads (useChat).
THEOREM OneAtATime == Spec => []OneSendAtATime
  <1>1. Inv => OneSendAtATime
    BY DEF Inv, OneSendAtATime, Waiting
  <1> QED BY InitInv, StepInv, <1>1, PTL DEF Spec

(***************************************************************************)
(* The inductive invariant of what the page shows.                         *)
(***************************************************************************)
Texts == {"prose", "no message", "confirmed", "could not complete", "more information"}

CustomerMessage(s) == [role |-> "user", send |-> s]

AnswerMessages ==
    [role : {"assistant"}, text : Texts, card : Outcomes \cup {None}, steps : Seq(Sends),
     correlation : Sends \cup {NoId}, taskId : Sends \cup {NoId}, send : Sends]

Messages == {CustomerMessage(s) : s \in Sends} \cup AnswerMessages

PageTyped ==
    /\ chat.messages \in Seq(Messages)
    /\ chat.error \in BOOLEAN
    /\ chat.taskId \in Sends \cup {NoId}

Typed ==
    /\ PageTyped
    /\ call \in [Sends -> {"unsent", "waiting", "settled", "dropped"}]
    /\ asked \in [Sends -> Sends \cup {NoId}]
    /\ run \in [Sends -> {"none", "running"} \cup Outcomes]

\* What a handler reads is not older than the last settled call, unless a call
\* waits and the screen says so.
Synced == ~screen.isLoading => screen = chat

\* The messages are sent in order, and stand in that order.
SentInOrder ==
    /\ \A s \in Sends : \A r \in 1 .. s - 1 : call[s] # "unsent" => call[r] # "unsent"
    /\ \A i \in DOMAIN chat.messages : call[chat.messages[i].send] # "unsent"
    /\ \A i, j \in DOMAIN chat.messages :
          /\ i < j
          /\ chat.messages[i].role = "user" /\ chat.messages[j].role = "user"
          => chat.messages[i].send < chat.messages[j].send

\* A message that waits for its answer is the last one.
OpenIsLast ==
    \A s \in Sends : call[s] = "waiting" =>
        /\ Len(chat.messages) > 0
        /\ chat.messages[Len(chat.messages)] = CustomerMessage(s)

\* What an answer on the page tells of its run.
Tells(m, out) ==
    /\ out \in Outcomes
    /\ m.card = (IF out = "error" THEN None ELSE out)
    /\ m.steps \in StepsTold(m.send, out)
    /\ m.correlation = (IF out = "error" THEN NoId ELSE m.send)

AnswersInPlace ==
    \A i \in DOMAIN chat.messages : chat.messages[i].role = "assistant" =>
        /\ Tells(chat.messages[i], run[chat.messages[i].send])
        /\ i > 1
        /\ chat.messages[i - 1] = CustomerMessage(chat.messages[i].send)

\* The task of the last answer among the first n messages.
Latest(ms, n) ==
    LET above == {j \in 1 .. n : IsAssistant(ms[j])}
    IN  IF above = {} THEN NoId ELSE ms[Max(above)].send

TasksAreLatest ==
    /\ chat.taskId = Latest(chat.messages, Len(chat.messages))
    /\ \A i \in DOMAIN chat.messages : chat.messages[i].role = "user" =>
          asked[chat.messages[i].send] = Latest(chat.messages, i - 1)

PageInv ==
    /\ Inv
    /\ Typed
    /\ Synced
    /\ SentInOrder
    /\ OpenIsLast
    /\ AnswersInPlace
    /\ TasksAreLatest

(***************************************************************************)
(* Smallest and largest numbers.                                           *)
(***************************************************************************)
LEMMA SmallestNumber ==
    ASSUME NEW T, T \subseteq Nat, T # {}
    PROVE  \E x \in T : \A y \in T : x <= y
  <1>1. PICK x \in T : \A y \in T : ~(<<y, x>> \in OpToRel(<, Nat))
    BY NatLessThanWellFounded, WFMin
  <1>2. ASSUME NEW y \in T PROVE x <= y
    <2>1. x \in Nat /\ y \in Nat
      OBVIOUS
    <2>2. y < x => <<y, x>> \in OpToRel(<, Nat)
      <3>1. <<y, x>>[1] = y /\ <<y, x>>[2] = x /\ <<y, x>> \in Nat \X Nat
        BY <2>1
      <3> QED BY <3>1 DEF OpToRel
    <2>3. ~(y < x)
      BY <1>1, <2>2, Zenon
    <2> QED BY <2>1, <2>3
  <1> QED BY <1>2

LEMMA MinIsSmallest ==
    ASSUME NEW T, T \subseteq Nat, T # {}
    PROVE  Min(T) \in T /\ \A y \in T : Min(T) <= y
  BY SmallestNumber DEF Min

LEMMA MaxIsLargest ==
    ASSUME NEW n \in Nat, NEW T, T \subseteq 0 .. n, T # {}
    PROVE  Max(T) \in T /\ \A y \in T : y <= Max(T)
  <1> DEFINE Bounds == {k \in Nat : \A y \in T : y <= k}
  <1>1. PICK m \in Bounds : \A k \in Bounds : m <= k
    <2>1. n \in Bounds /\ Bounds \subseteq Nat
      OBVIOUS
    <2> HIDE DEF Bounds
    <2> QED BY <2>1, SmallestNumber
  <1>2. m \in T
    <2> SUFFICES ASSUME m \notin T PROVE FALSE
      OBVIOUS
    <2>1. m \in Nat /\ \A y \in T : y \in Nat /\ y <= m /\ y # m
      BY <1>1
    <2>2. m # 0 /\ \A y \in T : y <= m - 1
      <3>1. PICK y \in T : TRUE
        OBVIOUS
      <3>2. y \in Nat /\ y <= m /\ y # m
        BY <2>1
      <3> HIDE DEF Bounds
      <3> QED BY <2>1, <3>2
    <2>3. m - 1 \in Bounds
      BY <2>1, <2>2
    <2> QED BY <1>1, <2>1, <2>3
  <1>3. \E x \in T : \A y \in T : x >= y
    BY <1>1, <1>2
  <1>4. Max(T) \in T /\ \A y \in T : Max(T) >= y
    BY <1>3 DEF Max
  <1>5. T \subseteq Nat
    OBVIOUS
  <1> QED BY <1>4, <1>5

LEMMA MaxOfAnother ==
    ASSUME NEW n \in Nat, NEW T, T \subseteq 0 .. n, NEW m \in Nat, m > n
    PROVE  Max(T \cup {m}) = m
  <1>1. T \cup {m} \subseteq 0 .. m
    OBVIOUS
  <1> DEFINE U == T \cup {m}
  <1>2. U # {} /\ m \in U
    OBVIOUS
  <1>3. \A y \in U : y \in Nat /\ y <= m
    BY <1>1
  <1> HIDE DEF U
  <1>4. Max(U) \in U /\ m <= Max(U)
    BY <1>1, <1>2, MaxIsLargest DEF U
  <1>5. Max(U) = m
    BY <1>3, <1>4
  <1> QED BY <1>5 DEF U

(***************************************************************************)
(* The parser.                                                             *)
(***************************************************************************)
\* The card tells what the confirmations tell, wherever they stand.
LEMMA CardTells ==
    ASSUME NEW s \in Sends, NEW out \in Outcomes, NEW answer, TellsItsRun(answer, s, out)
    PROVE  Card(answer) = (IF out = "error" THEN None ELSE out)
  <1> DEFINE ps == Parts(answer)
             cards == {i \in DOMAIN ps : IsConfirmation(ps[i])}
             a == answer.status
             b == answer.artifacts
             c == answer.history
  <1>1. a \in Seq(AnswerParts) /\ b \in Seq(AnswerParts) /\ c \in Seq(AnswerParts)
    BY DEF TellsItsRun
  <1>2. ps = (a \o b) \o c
    BY DEF Parts
  <1> HIDE DEF a, b, c
  <1>3. ps \in Seq(AnswerParts)
    BY <1>1, <1>2
  <1>4. DOMAIN ps = 1 .. Len(ps) /\ cards \subseteq Nat
    BY <1>3
  <1>5. \A i \in cards : ps[i].outcome \in Confirmations(a) \cup Confirmations(b)
                                              \cup Confirmations(c)
    <2> SUFFICES ASSUME NEW i \in cards
                 PROVE  ps[i].outcome \in Confirmations(a) \cup Confirmations(b)
                                              \cup Confirmations(c)
      OBVIOUS
    <2>1. i \in 1 .. Len(a) + Len(b) + Len(c)
      BY <1>1, <1>2
    <2>2. CASE i <= Len(a)
      <3>1. ps[i] = a[i] /\ i \in DOMAIN a
        BY <1>1, <1>2, <2>1, <2>2
      <3> QED BY <3>1 DEF Confirmations
    <2>3. CASE i > Len(a) /\ i <= Len(a) + Len(b)
      <3>1. ps[i] = b[i - Len(a)] /\ i - Len(a) \in DOMAIN b
        BY <1>1, <1>2, <2>1, <2>3
      <3> QED BY <3>1 DEF Confirmations
    <2>4. CASE i > Len(a) + Len(b)
      <3>1. ps[i] = c[i - (Len(a) + Len(b))] /\ i - (Len(a) + Len(b)) \in DOMAIN c
        BY <1>1, <1>2, <2>1, <2>4
      <3> QED BY <3>1 DEF Confirmations
    <2> QED BY <1>1, <2>1, <2>2, <2>3, <2>4
  <1>6. ASSUME cards = {} PROVE Confirmations(a) \cup Confirmations(b) \cup Confirmations(c) = {}
    <2>1. ASSUME NEW i \in DOMAIN a PROVE ~IsConfirmation(a[i])
      <3>1. i \in DOMAIN ps /\ ps[i] = a[i]
        BY <1>1, <1>2, <2>1
      <3> QED BY <1>6, <3>1
    <2>2. ASSUME NEW i \in DOMAIN b PROVE ~IsConfirmation(b[i])
      <3>1. Len(a) + i \in DOMAIN ps /\ ps[Len(a) + i] = b[i]
        BY <1>1, <1>2, <2>2
      <3> QED BY <1>6, <3>1
    <2>3. ASSUME NEW i \in DOMAIN c PROVE ~IsConfirmation(c[i])
      <3>1. Len(a) + Len(b) + i \in DOMAIN ps /\ ps[Len(a) + Len(b) + i] = c[i]
        BY <1>1, <1>2, <2>3
      <3> QED BY <1>6, <3>1
    <2> QED BY <2>1, <2>2, <2>3 DEF Confirmations
  <1>7. Confirmations(a) \cup Confirmations(b) \cup Confirmations(c)
          = (IF out = "error" THEN {} ELSE {out})
    BY DEF TellsItsRun, a, b, c
  <1>8. Card(answer) = IF cards = {} THEN None ELSE ps[Min(cards)].outcome
    BY DEF Card
  <1> HIDE DEF cards, ps
  <1>9. CASE cards = {}
    BY <1>6, <1>7, <1>8, <1>9
  <1>10. CASE cards # {}
    <2>1. Min(cards) \in cards
      BY <1>4, <1>10, MinIsSmallest
    <2> QED BY <1>5, <1>7, <1>8, <1>10, <2>1
  <1> QED BY <1>9, <1>10

\* The message shown for an answer.
LEMMA ShownMessage ==
    ASSUME NEW s \in Sends, NEW out \in Outcomes,
           NEW answer \in Answers(s, out)
    PROVE  LET m == AgentMessage(Parsed(answer), s)
           IN  /\ m \in AnswerMessages
               /\ m.send = s
               /\ Tells(m, out)
               /\ Parsed(answer).taskId = s
  <1> DEFINE p == Parsed(answer)
             m == AgentMessage(p, s)
             card == IF out = "error" THEN None ELSE out
             steps == Steps(answer)
             correlation == IF out = "error" THEN NoId ELSE s
  <1>1. TellsItsRun(answer, s, out)
    BY AnswersAssumption
  <1>2. Card(answer) = card
    BY <1>1, CardTells
  <1>3. Bubble(answer) \in Texts
    BY DEF Bubble, Texts
  <1>4. PICK text \in Texts : text = Bubble(answer)
    BY <1>3
  <1>5. p = [role |-> "assistant", text |-> text, card |-> card, steps |-> steps,
             correlation |-> correlation, taskId |-> s]
    BY <1>1, <1>2, <1>4 DEF Parsed, TellsItsRun
  <1>6. /\ card \in Outcomes \cup {None} /\ steps \in Seq(Sends)
        /\ correlation \in Sends \cup {NoId} /\ steps \in StepsTold(s, out)
    <2>1. steps \in {<<>>, <<s>>} /\ steps \in StepsTold(s, out)
      BY <1>1 DEF TellsItsRun, StepsTold
    <2>2. <<>> \in Seq(Sends) /\ <<s>> \in Seq(Sends)
      OBVIOUS
    <2> QED BY <2>1, <2>2
  <1>7. PICK cd \in Outcomes \cup {None}, st \in Seq(Sends), cr \in Sends \cup {NoId} :
           cd = card /\ st = steps /\ cr = correlation
    BY <1>6
  <1>8. p = [role |-> "assistant", text |-> text, card |-> cd, steps |-> st,
             correlation |-> cr, taskId |-> s]
    BY <1>5, <1>7
  <1> HIDE DEF p, card, steps, correlation
  <1>9. m = [role |-> "assistant", text |-> text, card |-> cd, steps |-> st,
             correlation |-> cr, taskId |-> s, send |-> s]
    BY <1>8 DEF AgentMessage
  <1> HIDE DEF m
  <1>10. m \in AnswerMessages
    BY <1>9 DEF AnswerMessages
  <1>11. Tells(m, out)
    BY <1>6, <1>7, <1>9 DEF Tells, card, correlation
  <1>12. m.send = s /\ p.taskId = s
    BY <1>8, <1>9
  <1> QED BY <1>10, <1>11, <1>12 DEF m, p

(***************************************************************************)
(* The messages, with one more below them.                                 *)
(***************************************************************************)
LEMMA OneMore ==
    ASSUME NEW ms \in Seq(Messages), NEW m \in Messages
    PROVE  /\ Append(ms, m) \in Seq(Messages)
           /\ Len(ms) \in Nat /\ DOMAIN ms = 1 .. Len(ms)
           /\ Len(Append(ms, m)) = Len(ms) + 1
           /\ DOMAIN Append(ms, m) = 1 .. Len(ms) + 1
           /\ Append(ms, m)[Len(ms) + 1] = m
           /\ \A i \in 1 .. Len(ms) : Append(ms, m)[i] = ms[i]
           /\ \A i \in 1 .. Len(ms) : ms[i] \in Messages
  OBVIOUS

LEMMA MessageFields ==
    ASSUME NEW m \in Messages
    PROVE  /\ m.send \in Sends
           /\ m.role \in {"user", "assistant"}
           /\ m.role = "user" => m = CustomerMessage(m.send)
           /\ m.role = "assistant" => m \in AnswerMessages
  BY DEF Messages, AnswerMessages, CustomerMessage

LEMMA CustomerFields ==
    ASSUME NEW s \in Sends
    PROVE  /\ CustomerMessage(s) \in Messages
           /\ CustomerMessage(s).role = "user" /\ CustomerMessage(s).send = s
  BY DEF Messages, CustomerMessage

\* The first messages stay as they are, and so does the last task among them.
LEMMA LatestOfFirst ==
    ASSUME NEW ms, NEW ns, NEW n \in Nat, \A i \in 1 .. n : ns[i] = ms[i]
    PROVE  \A k \in 0 .. n : Latest(ns, k) = Latest(ms, k)
  <1> SUFFICES ASSUME NEW k \in 0 .. n PROVE Latest(ns, k) = Latest(ms, k)
    OBVIOUS
  <1> DEFINE above(q) == {j \in 1 .. k : IsAssistant(q[j])}
  <1>1. above(ns) = above(ms)
    BY DEF IsAssistant
  <1>2. CASE above(ms) = {}
    BY <1>1, <1>2 DEF Latest
  <1>3. CASE above(ms) # {}
    <2>1. above(ms) \subseteq 0 .. n
      OBVIOUS
    <2> HIDE DEF above
    <2>2. Max(above(ms)) \in above(ms)
      BY <1>3, <2>1, MaxIsLargest
    <2>3. ns[Max(above(ms))] = ms[Max(above(ms))]
      BY <2>2 DEF above
    <2> QED BY <1>1, <1>3, <2>3 DEF Latest, above
  <1> QED BY <1>2, <1>3

LEMMA LatestOfOneMore ==
    ASSUME NEW ms \in Seq(Messages), NEW m \in Messages
    PROVE  LET ns == Append(ms, m)
               n == Len(ms)
           IN  /\ \A k \in 0 .. n : Latest(ns, k) = Latest(ms, k)
               /\ Latest(ns, n + 1) = IF IsAssistant(m) THEN m.send ELSE Latest(ms, n)
  <1> DEFINE ns == Append(ms, m)
             n == Len(ms)
             above(q, k) == {j \in 1 .. k : IsAssistant(q[j])}
  <1>1. /\ n \in Nat /\ ns[n + 1] = m
        /\ \A i \in 1 .. n : ns[i] = ms[i]
    BY OneMore
  <1> HIDE DEF ns, n
  <1>2. \A k \in 0 .. n : Latest(ns, k) = Latest(ms, k)
    BY <1>1, LatestOfFirst
  <1>3. above(ns, n + 1) = above(ns, n) \cup (IF IsAssistant(m) THEN {n + 1} ELSE {})
    BY <1>1
  <1>4. above(ns, n) \subseteq 0 .. n
    BY <1>1
  <1> HIDE DEF above
  <1>5. Latest(ns, n + 1) =
           IF above(ns, n + 1) = {} THEN NoId ELSE ns[Max(above(ns, n + 1))].send
    BY DEF Latest, above
  <1>6. Latest(ns, n) = IF above(ns, n) = {} THEN NoId ELSE ns[Max(above(ns, n))].send
    BY DEF Latest, above
  <1>7. CASE IsAssistant(m)
    <2>1. Max(above(ns, n) \cup {n + 1}) = n + 1
      <3>1. n + 1 \in Nat /\ n + 1 > n
        BY <1>1
      <3> QED BY <1>1, <1>4, <3>1, MaxOfAnother
    <2> QED BY <1>1, <1>2, <1>3, <1>5, <1>7, <2>1 DEF ns, n
  <1>8. CASE ~IsAssistant(m)
    <2>1. above(ns, n + 1) = above(ns, n)
      BY <1>3, <1>8
    <2>2. Latest(ns, n) = Latest(ms, n)
      BY <1>1, <1>2
    <2> QED BY <1>2, <1>5, <1>6, <1>8, <2>1, <2>2 DEF ns, n
  <1> QED BY <1>7, <1>8

(***************************************************************************)
(* The reducer.                                                            *)
(***************************************************************************)
LEMMA UserSendFields ==
    ASSUME NEW state, IsState(state), NEW s
    PROVE  /\ UserSend(state, s).messages = Append(state.messages, CustomerMessage(s))
           /\ UserSend(state, s).taskId = state.taskId
           /\ UserSend(state, s).error = FALSE
  BY DEF IsState, Keys, UserSend, CustomerMessage

LEMMA AgentReplyFields ==
    ASSUME NEW state, IsState(state), NEW s, NEW parsed
    PROVE  /\ AgentReply(state, s, parsed).messages =
                 Append(state.messages, AgentMessage(parsed, s))
           /\ AgentReply(state, s, parsed).taskId =
                 IF parsed.taskId = NoId THEN state.taskId ELSE parsed.taskId
           /\ AgentReply(state, s, parsed).error = state.error
  BY DEF IsState, Keys, AgentReply

LEMMA FailedFields ==
    ASSUME NEW state, IsState(state)
    PROVE  /\ Failed(state).messages = state.messages
           /\ Failed(state).taskId = state.taskId
           /\ Failed(state).error = TRUE
  BY DEF IsState, Keys, Failed

LEMMA ClearedFields ==
    ASSUME NEW state, IsState(state)
    PROVE  LET cleared == [state EXCEPT !.error = FALSE]
           IN  /\ cleared.messages = state.messages
               /\ cleared.taskId = state.taskId
               /\ cleared.error = FALSE
  BY DEF IsState, Keys

(***************************************************************************)
(* The steps.                                                              *)
(***************************************************************************)
\* An empty page.
Emptied ==
    /\ chat = InitialState /\ screen = InitialState
    /\ \A s \in Sends : call[s] # "waiting"
    /\ \A s \in Sends : \A r \in 1 .. s - 1 : call[s] # "unsent" => call[r] # "unsent"

LEMMA EmptyPage ==
    Emptied => /\ PageTyped /\ Synced /\ SentInOrder
               /\ OpenIsLast /\ AnswersInPlace /\ TasksAreLatest
  <1> SUFFICES ASSUME Emptied
               PROVE  /\ PageTyped /\ Synced /\ SentInOrder
                      /\ OpenIsLast /\ AnswersInPlace /\ TasksAreLatest
    OBVIOUS
  <1>1. /\ chat.messages = <<>> /\ chat.error = FALSE /\ chat.taskId = NoId
        /\ screen = chat
    BY DEF Emptied, InitialState
  <1>2. <<>> \in Seq(Messages) /\ DOMAIN <<>> = {} /\ Len(<<>>) = 0
    OBVIOUS
  <1>3. Latest(<<>>, 0) = NoId
    BY DEF Latest
  <1> QED BY <1>1, <1>2, <1>3
          DEF Emptied, PageTyped, Synced, SentInOrder, OpenIsLast, AnswersInPlace, TasksAreLatest

LEMMA InitPage == Init => PageInv
  <1> SUFFICES ASSUME Init PROVE PageInv
    OBVIOUS
  <1>1. /\ chat = InitialState /\ screen = InitialState
        /\ call = [s \in Sends |-> "unsent"]
        /\ asked = [s \in Sends |-> NoId]
        /\ run = [s \in Sends |-> "none"]
    BY DEF Init
  <1>2. \A s \in Sends : call[s] # "waiting"
    BY <1>1
  <1>3. \A s \in Sends : \A r \in 1 .. s - 1 : call[s] # "unsent" => call[r] # "unsent"
    BY <1>1
  <1>4. Inv
    BY InitInv
  <1>5. /\ PageTyped /\ Synced /\ SentInOrder
        /\ OpenIsLast /\ AnswersInPlace /\ TasksAreLatest
    BY <1>1, <1>2, <1>3, EmptyPage DEF Emptied
  <1>6. Typed
    BY <1>1, <1>5 DEF Typed
  <1> QED BY <1>4, <1>5, <1>6 DEF PageInv

\* A reload drops the calls that wait.
LEMMA ReloadPage ==
    ASSUME PageInv, Reload, Inv'
    PROVE  PageInv'
  <1>1. /\ chat' = InitialState /\ screen' = InitialState
        /\ call' = [s \in Sends |-> IF call[s] = "waiting" THEN "dropped" ELSE call[s]]
        /\ asked' = asked /\ run' = run
    BY DEF Reload, Dispatch
  <1>2. \A s \in Sends : call'[s] # "waiting" /\ (call'[s] # "unsent" <=> call[s] # "unsent")
    BY <1>1
  <1>3. \A s \in Sends : \A r \in 1 .. s - 1 : call'[s] # "unsent" => call'[r] # "unsent"
    <2>1. \A s \in Sends : \A r \in 1 .. s - 1 : r \in Sends
      BY MaxSendsAssumption DEF Sends
    <2> QED BY <1>2, <2>1 DEF PageInv, SentInOrder
  <1>4. Emptied'
    BY <1>1, <1>2, <1>3 DEF Emptied
  <1>5. /\ PageTyped' /\ Synced' /\ SentInOrder'
        /\ OpenIsLast' /\ AnswersInPlace' /\ TasksAreLatest'
    BY <1>4, EmptyPage, PTL
  <1>6. Typed'
    <2>1. call' \in [Sends -> {"unsent", "waiting", "settled", "dropped"}]
      BY <1>1 DEF PageInv, Typed
    <2> QED BY <1>1, <1>5, <2>1 DEF PageInv, Typed
  <1> QED BY <1>5, <1>6 DEF PageInv

\* A click appends the message and carries the task id of the screen, which
\* shows the whole page because nothing waits.
LEMMA SubmitPage ==
    ASSUME PageInv, NEW s \in Sends, Submit(s), Inv'
    PROVE  PageInv'
  <1> DEFINE ms == chat.messages
             n == Len(ms)
             ns == Append(ms, CustomerMessage(s))
  <1>1. /\ chat' = UserSend(chat, s) /\ screen' = chat'
        /\ call' = [call EXCEPT ![s] = "waiting"]
        /\ asked' = [asked EXCEPT ![s] = screen.taskId]
        /\ run' = run
        /\ call[s] = "unsent" /\ \A r \in 1 .. s - 1 : call[r] # "unsent"
        /\ ~screen.isLoading
    BY DEF Submit, Dispatch, Upcoming
  <1>2. chat'.messages = ns /\ chat'.taskId = chat.taskId /\ chat'.error = FALSE
    BY <1>1, UserSendFields DEF PageInv, Inv
  <1>3. ms \in Seq(Messages) /\ CustomerMessage(s) \in Messages
        /\ CustomerMessage(s).role = "user" /\ CustomerMessage(s).send = s
    BY CustomerFields DEF PageInv, Typed, PageTyped
  <1>4. /\ n \in Nat /\ DOMAIN ms = 1 .. n
        /\ ns \in Seq(Messages) /\ Len(ns) = n + 1 /\ DOMAIN ns = 1 .. n + 1
        /\ ns[n + 1] = CustomerMessage(s)
        /\ \A i \in 1 .. n : ns[i] = ms[i] /\ ms[i] \in Messages
    BY <1>3, OneMore
  <1>5. /\ \A k \in 0 .. n : Latest(ns, k) = Latest(ms, k)
        /\ Latest(ns, n + 1) = Latest(ms, n)
    BY <1>3, LatestOfOneMore DEF IsAssistant
  <1>6. /\ screen = chat /\ chat.taskId = Latest(ms, n)
        /\ \A r \in Sends : call[r] # "waiting"
    BY <1>1 DEF PageInv, Synced, TasksAreLatest, Inv, Waiting
  <1> HIDE DEF ns, n, ms
  <1>7. /\ call \in [Sends -> {"unsent", "waiting", "settled", "dropped"}]
        /\ asked \in [Sends -> Sends \cup {NoId}]
        /\ chat.taskId \in Sends \cup {NoId}
        /\ run \in [Sends -> {"none", "running"} \cup Outcomes]
    BY DEF PageInv, Typed, PageTyped
  <1>8. \A r \in Sends : /\ call'[r] = IF r = s THEN "waiting" ELSE call[r]
                         /\ asked'[r] = IF r = s THEN chat.taskId ELSE asked[r]
    BY <1>1, <1>6, <1>7
  <1>9. \A r \in Sends : \A q \in 1 .. r - 1 : q \in Sends
    BY MaxSendsAssumption DEF Sends
  <1>10. \A i \in 1 .. n : ns[i].send \in Sends /\ call[ns[i].send] # "unsent" /\ ns[i].send # s
    BY <1>1, <1>4, MessageFields, SMTT(30) DEF PageInv, SentInOrder, ms
  <1>11. \A i \in 1 .. n : ns[i].send < s
    <2> SUFFICES ASSUME NEW i \in 1 .. n PROVE ns[i].send < s
      OBVIOUS
    <2>1. ns[i].send \in Nat /\ s \in Nat
      BY <1>10 DEF Sends
    <2>2. ~(s < ns[i].send)
      <3>1. s < ns[i].send => s \in 1 .. ns[i].send - 1
        BY <2>1 DEF Sends
      <3> QED BY <1>1, <1>10, <3>1 DEF PageInv, SentInOrder
    <2> QED BY <1>10, <2>1, <2>2
  <1>12. Typed'
    BY <1>1, <1>2, <1>4, <1>6, <1>7 DEF Typed, PageTyped
  <1>13. Synced'
    BY <1>1 DEF Synced
  <1>14. SentInOrder'
    <2>1. \A r \in Sends : \A q \in 1 .. r - 1 : call'[r] # "unsent" => call'[q] # "unsent"
      BY <1>1, <1>8, <1>9 DEF PageInv, SentInOrder
    <2>2. \A i \in 1 .. n + 1 : call'[ns[i].send] # "unsent"
      BY <1>3, <1>4, <1>8, <1>10
    <2>3. ASSUME NEW i \in 1 .. n + 1, NEW j \in 1 .. n + 1, i < j,
                 ns[i].role = "user", ns[j].role = "user"
          PROVE  ns[i].send < ns[j].send
      <3>1. CASE j = n + 1
        <4>1. i \in 1 .. n
          BY <1>4, <2>3, <3>1
        <4> QED BY <1>3, <1>4, <1>11, <3>1, <4>1
      <3>2. CASE j # n + 1
        <4>1. i \in 1 .. n /\ j \in 1 .. n
          BY <1>4, <2>3, <3>2
        <4> QED BY <1>4, <2>3, <4>1 DEF PageInv, SentInOrder, ms
      <3> QED BY <3>1, <3>2
    <2> QED BY <1>2, <1>4, <2>1, <2>2, <2>3 DEF SentInOrder
  <1>15. OpenIsLast'
    BY <1>2, <1>4, <1>6, <1>8 DEF OpenIsLast
  <1>16. AnswersInPlace'
    <2> SUFFICES ASSUME NEW i \in 1 .. n + 1, ns[i].role = "assistant"
                 PROVE  /\ Tells(ns[i], run[ns[i].send])
                        /\ i > 1
                        /\ ns[i - 1] = CustomerMessage(ns[i].send)
      BY <1>1, <1>2, <1>4 DEF AnswersInPlace
    <2>1. i \in 1 .. n
      BY <1>3, <1>4
    <2>2. /\ Tells(ms[i], run[ms[i].send]) /\ i > 1
          /\ ms[i - 1] = CustomerMessage(ms[i].send)
      BY <1>4, <2>1 DEF PageInv, AnswersInPlace, ms
    <2>3. i - 1 \in 1 .. n
      BY <1>4, <2>1, <2>2
    <2> QED BY <1>4, <2>1, <2>2, <2>3
  <1>17. TasksAreLatest'
    <2>1. chat'.taskId = Latest(ns, Len(ns))
      BY <1>2, <1>4, <1>5, <1>6
    <2>2. ASSUME NEW i \in 1 .. n + 1, ns[i].role = "user"
          PROVE  asked'[ns[i].send] = Latest(ns, i - 1)
      <3>1. CASE i = n + 1
        <4>1. Latest(ns, i - 1) = Latest(ms, n)
          BY <1>4, <1>5, <3>1
        <4> QED BY <1>3, <1>4, <1>6, <1>8, <3>1, <4>1
      <3>2. CASE i # n + 1
        <4>1. i \in 1 .. n /\ i - 1 \in 0 .. n
          BY <1>4, <3>2
        <4>2. asked[ms[i].send] = Latest(ms, i - 1)
          BY <1>4, <2>2, <4>1 DEF PageInv, TasksAreLatest, ms
        <4>3. asked'[ns[i].send] = asked[ms[i].send]
          BY <1>4, <1>8, <1>10, <4>1
        <4> QED BY <1>5, <4>1, <4>2, <4>3
      <3> QED BY <3>1, <3>2
    <2> QED BY <1>2, <1>4, <2>1, <2>2 DEF TasksAreLatest
  <1> QED BY <1>12, <1>13, <1>14, <1>15, <1>16, <1>17 DEF PageInv

\* The answer to the open message is put right below it, and no task is later.
LEMMA AnsweredPage ==
    ASSUME PageInv, NEW s \in Sends, Answered(s), Inv'
    PROVE  PageInv'
  <1>1. PICK answer \in Answers(s, run[s]) : Settle(s, AgentReply(chat, s, Parsed(answer)))
    BY DEF Answered
  <1> DEFINE ms == chat.messages
             n == Len(ms)
             m == AgentMessage(Parsed(answer), s)
             ns == Append(ms, m)
             out == run[s]
  <1>2. /\ chat' = AgentReply(chat, s, Parsed(answer)) /\ screen' = screen
        /\ call' = [call EXCEPT ![s] = "settled"]
        /\ asked' = asked /\ run' = run
        /\ call[s] = "waiting" /\ out \in Outcomes
    BY <1>1 DEF Settle, Answered
  <1>3. /\ m \in AnswerMessages /\ m.send = s
        /\ Tells(m, out) /\ Parsed(answer).taskId = s
    BY <1>1, <1>2, ShownMessage
  <1>4. s # NoId
    BY DEF Sends, NoId
  <1>5. chat'.messages = ns /\ chat'.taskId = s /\ chat'.error = chat.error
    BY <1>2, <1>3, <1>4, AgentReplyFields DEF PageInv, Inv
  <1>6. ms \in Seq(Messages) /\ m \in Messages /\ m.role = "assistant"
    BY <1>3 DEF PageInv, Typed, PageTyped, Messages, AnswerMessages
  <1> HIDE DEF m
  <1>7. /\ n \in Nat /\ DOMAIN ms = 1 .. n
        /\ ns \in Seq(Messages) /\ Len(ns) = n + 1 /\ DOMAIN ns = 1 .. n + 1
        /\ ns[n + 1] = m
        /\ \A i \in 1 .. n : ns[i] = ms[i] /\ ms[i] \in Messages
    BY <1>6, OneMore
  <1>8. /\ \A k \in 0 .. n : Latest(ns, k) = Latest(ms, k)
        /\ Latest(ns, n + 1) = s
    BY <1>3, <1>6, LatestOfOneMore DEF IsAssistant
  <1>9. /\ n > 0 /\ ms[n] = CustomerMessage(s)
        /\ screen.isLoading
        /\ \A r \in Sends \ {s} : call[r] # "waiting"
    BY <1>2 DEF PageInv, OpenIsLast, Inv, Waiting
  <1> HIDE DEF ns, n, ms, out
  <1>10. /\ call \in [Sends -> {"unsent", "waiting", "settled", "dropped"}]
         /\ asked \in [Sends -> Sends \cup {NoId}]
         /\ chat.error \in BOOLEAN
         /\ run \in [Sends -> {"none", "running"} \cup Outcomes]
    BY DEF PageInv, Typed, PageTyped
  <1>11. \A r \in Sends : /\ call'[r] # "unsent" <=> call[r] # "unsent"
                          /\ call'[r] # "waiting"
    BY <1>2, <1>9, <1>10
  <1>12. \A r \in Sends : \A q \in 1 .. r - 1 : q \in Sends
    BY MaxSendsAssumption DEF Sends
  <1>13. \A i \in 1 .. n : ns[i].send \in Sends /\ call[ns[i].send] # "unsent"
    BY <1>7, MessageFields DEF PageInv, SentInOrder, ms
  <1>14. Typed'
    BY <1>2, <1>5, <1>7, <1>10 DEF Typed, PageTyped
  <1>15. Synced'
    BY <1>2, <1>9 DEF Synced
  <1>16. SentInOrder'
    <2>1. \A r \in Sends : \A q \in 1 .. r - 1 : call'[r] # "unsent" => call'[q] # "unsent"
      BY <1>11, <1>12 DEF PageInv, SentInOrder
    <2>2. \A i \in 1 .. n + 1 : call'[ns[i].send] # "unsent"
      <3>1. call'[s] # "unsent"
        BY <1>2, <1>11
      <3> QED BY <1>3, <1>7, <1>11, <1>13, <3>1
    <2>3. ASSUME NEW i \in 1 .. n + 1, NEW j \in 1 .. n + 1, i < j,
                 ns[i].role = "user", ns[j].role = "user"
          PROVE  ns[i].send < ns[j].send
      <3>1. i \in 1 .. n /\ j \in 1 .. n
        BY <1>6, <1>7, <2>3
      <3> QED BY <1>7, <2>3, <3>1 DEF PageInv, SentInOrder, ms
    <2> QED BY <1>5, <1>7, <2>1, <2>2, <2>3 DEF SentInOrder
  <1>17. OpenIsLast'
    BY <1>11 DEF OpenIsLast
  <1>18. AnswersInPlace'
    <2> SUFFICES ASSUME NEW i \in 1 .. n + 1, ns[i].role = "assistant"
                 PROVE  /\ Tells(ns[i], run[ns[i].send])
                        /\ i > 1
                        /\ ns[i - 1] = CustomerMessage(ns[i].send)
      BY <1>2, <1>5, <1>7 DEF AnswersInPlace
    <2>1. CASE i = n + 1
      <3>1. i - 1 = n /\ n \in 1 .. n /\ i > 1
        BY <1>7, <1>9, <2>1
      <3> QED BY <1>3, <1>7, <1>9, <2>1, <3>1 DEF out
    <2>2. CASE i # n + 1
      <3>1. i \in 1 .. n
        BY <1>7, <2>2
      <3>2. /\ Tells(ms[i], run[ms[i].send]) /\ i > 1
            /\ ms[i - 1] = CustomerMessage(ms[i].send)
        BY <1>7, <3>1 DEF PageInv, AnswersInPlace, ms
      <3>3. i - 1 \in 1 .. n
        BY <1>7, <3>1, <3>2
      <3> QED BY <1>7, <3>1, <3>2, <3>3
    <2> QED BY <2>1, <2>2
  <1>19. TasksAreLatest'
    <2>1. chat'.taskId = Latest(ns, Len(ns))
      BY <1>5, <1>7, <1>8
    <2>2. ASSUME NEW i \in 1 .. n + 1, ns[i].role = "user"
          PROVE  asked[ns[i].send] = Latest(ns, i - 1)
      <3>1. i \in 1 .. n /\ i - 1 \in 0 .. n
        BY <1>6, <1>7, <2>2
      <3>2. asked[ms[i].send] = Latest(ms, i - 1)
        BY <1>7, <2>2, <3>1 DEF PageInv, TasksAreLatest, ms
      <3> QED BY <1>7, <1>8, <3>1, <3>2
    <2> QED BY <1>2, <1>5, <1>7, <2>1, <2>2 DEF TasksAreLatest
  <1> QED BY <1>14, <1>15, <1>16, <1>17, <1>18, <1>19 DEF PageInv

\* The steps that put no message on the page.
Settles(before, after) ==
    \A r \in Sends : \/ after[r] = before[r]
                     \/ before[r] = "waiting" /\ after[r] = "settled"

LEMMA QuietPage ==
    ASSUME PageInv, Inv',
           chat'.messages = chat.messages, chat'.taskId = chat.taskId,
           chat'.error \in BOOLEAN, Synced', asked' = asked,
           call' \in [Sends -> {"unsent", "waiting", "settled", "dropped"}],
           Settles(call, call'),
           run' \in [Sends -> {"none", "running"} \cup Outcomes],
           \A r \in Sends : run[r] \in Outcomes => run'[r] = run[r]
    PROVE  PageInv'
  <1> DEFINE ms == chat.messages
  <1>1. ms \in Seq(Messages) /\ \A i \in DOMAIN ms : ms[i].send \in Sends
    <2>1. ms \in Seq(Messages) /\ \A i \in DOMAIN ms : ms[i] \in Messages
      BY DEF PageInv, Typed, PageTyped
    <2> QED BY <2>1, MessageFields
  <1>2. \A r \in Sends : \A q \in 1 .. r - 1 : q \in Sends
    BY MaxSendsAssumption DEF Sends
  <1>3. Typed'
    BY DEF PageInv, Typed, PageTyped
  <1>4. SentInOrder'
    <2>1. \A r \in Sends : call'[r] # "unsent" <=> call[r] # "unsent"
      BY DEF Settles
    <2>2. \A i \in DOMAIN ms : call'[ms[i].send] # "unsent"
      BY <1>1, <2>1 DEF PageInv, SentInOrder
    <2>3. \A r \in Sends : \A q \in 1 .. r - 1 : call'[r] # "unsent" => call'[q] # "unsent"
      BY <1>2, <2>1 DEF PageInv, SentInOrder
    <2> QED BY <2>2, <2>3 DEF PageInv, SentInOrder
  <1>5. OpenIsLast'
    <2>1. \A r \in Sends : call'[r] = "waiting" => call[r] = "waiting"
      BY DEF Settles
    <2> QED BY <2>1 DEF PageInv, OpenIsLast
  <1>6. AnswersInPlace'
    <2>1. ASSUME NEW i \in DOMAIN ms, ms[i].role = "assistant"
          PROVE  run'[ms[i].send] = run[ms[i].send]
      BY <1>1, <2>1 DEF PageInv, AnswersInPlace, Tells
    <2> QED BY <2>1 DEF PageInv, AnswersInPlace
  <1>7. TasksAreLatest'
    BY DEF PageInv, TasksAreLatest
  <1> QED BY <1>3, <1>4, <1>5, <1>6, <1>7 DEF PageInv

LEMMA StepPage == PageInv /\ [Next]_vars => PageInv'
  <1> SUFFICES ASSUME PageInv, [Next]_vars PROVE PageInv'
    OBVIOUS
  <1>1. Inv'
    BY StepInv DEF PageInv
  <1>2. /\ IsState(chat) /\ chat.error \in BOOLEAN
        /\ call \in [Sends -> {"unsent", "waiting", "settled", "dropped"}]
        /\ run \in [Sends -> {"none", "running"} \cup Outcomes]
        /\ Settles(call, call)
    BY DEF PageInv, Inv, Typed, PageTyped, Settles
  <1>3. CASE ClearError
    <2>1. /\ chat' = [chat EXCEPT !.error = FALSE] /\ screen' = chat'
          /\ UNCHANGED <<call, asked, run>>
      BY <1>3 DEF ClearError, Dispatch
    <2>2. /\ chat'.messages = chat.messages /\ chat'.taskId = chat.taskId
          /\ chat'.error = FALSE
      BY <1>2, <2>1, ClearedFields
    <2>3. Synced'
      BY <2>1 DEF Synced
    <2> QED BY <1>1, <1>2, <2>1, <2>2, <2>3, QuietPage
  <1>4. CASE Reload
    BY <1>1, <1>4, ReloadPage
  <1>5. CASE Render
    <2>1. screen' = chat /\ UNCHANGED <<chat, call, asked, run>>
      BY <1>5 DEF Render
    <2>2. Synced'
      BY <2>1 DEF Synced
    <2> QED BY <1>1, <1>2, <2>1, <2>2, QuietPage
  <1>6. ASSUME NEW s \in Sends, Submit(s) PROVE PageInv'
    BY <1>1, <1>6, SubmitPage
  <1>7. ASSUME NEW s \in Sends, Receive(s) PROVE PageInv'
    <2>1. /\ run[s] = "none" /\ run' = [run EXCEPT ![s] = "running"]
          /\ UNCHANGED <<chat, screen, call, asked>>
      BY <1>7 DEF Receive
    <2>2. \A r \in Sends : run[r] \in Outcomes => run'[r] = run[r]
      BY <1>2, <2>1 DEF Outcomes
    <2>3. run' \in [Sends -> {"none", "running"} \cup Outcomes]
      BY <1>2, <2>1
    <2>4. Synced'
      BY <2>1 DEF PageInv, Synced
    <2> QED BY <1>1, <1>2, <2>1, <2>2, <2>3, <2>4, QuietPage
  <1>8. ASSUME NEW s \in Sends, Finish(s) PROVE PageInv'
    <2>1. PICK out \in Outcomes : run' = [run EXCEPT ![s] = out]
      BY <1>8 DEF Finish
    <2>2. run[s] = "running" /\ UNCHANGED <<chat, screen, call, asked>>
      BY <1>8 DEF Finish
    <2>3. \A r \in Sends : run[r] \in Outcomes => run'[r] = run[r]
      BY <1>2, <2>1, <2>2 DEF Outcomes
    <2>4. run' \in [Sends -> {"none", "running"} \cup Outcomes]
      BY <1>2, <2>1
    <2>5. Synced'
      BY <2>2 DEF PageInv, Synced
    <2> QED BY <1>1, <1>2, <2>2, <2>3, <2>4, <2>5, QuietPage
  <1>9. ASSUME NEW s \in Sends, Answered(s) PROVE PageInv'
    BY <1>1, <1>9, AnsweredPage
  <1>10. ASSUME NEW s \in Sends, Rejected(s) PROVE PageInv'
    <2>1. /\ chat' = Failed(chat) /\ call' = [call EXCEPT ![s] = "settled"]
          /\ call[s] = "waiting"
          /\ UNCHANGED <<screen, asked, run>>
      BY <1>10 DEF Rejected, Settle
    <2>2. /\ chat'.messages = chat.messages /\ chat'.taskId = chat.taskId
          /\ chat'.error = TRUE
      BY <1>2, <2>1, FailedFields
    <2>3. Synced'
      BY <2>1 DEF PageInv, Inv, Waiting, Synced
    <2>4. Settles(call, call') /\ call' \in [Sends -> {"unsent", "waiting", "settled", "dropped"}]
      BY <1>2, <2>1 DEF Settles
    <2> QED BY <1>1, <1>2, <2>1, <2>2, <2>3, <2>4, QuietPage
  <1>11. CASE UNCHANGED vars
    <2>1. UNCHANGED <<chat, screen, call, asked, run>>
      BY <1>11 DEF vars
    <2>2. Synced'
      BY <2>1 DEF PageInv, Synced
    <2> QED BY <1>1, <1>2, <2>1, <2>2, QuietPage
  <1> QED BY <1>3, <1>4, <1>5, <1>6, <1>7, <1>8, <1>9, <1>10, <1>11 DEF Next

LEMMA PageHolds == Spec => []PageInv
  <1>1. PageInv /\ [Next]_vars => PageInv'
    BY StepPage
  <1> QED BY InitPage, <1>1, PTL DEF Spec

(***************************************************************************)
(* The panel: the steps of the answers, put behind each other.             *)
(***************************************************************************)
\* FlattenSeq's recursive function, for the first n of the sequences.
Flattens(f, xs, n) ==
    f = [i \in 1 .. n |-> IF i = 1 THEN xs[i] ELSE f[i - 1] \o xs[i]]

LEMMA FlattensAt ==
    ASSUME NEW f, NEW xs, NEW n \in Nat, Flattens(f, xs, n), NEW i \in 1 .. n
    PROVE  f[i] = IF i = 1 THEN xs[i] ELSE f[i - 1] \o xs[i]
  <1> DEFINE F(g) == [j \in 1 .. n |-> IF j = 1 THEN xs[j] ELSE g[j - 1] \o xs[j]]
  <1>1. f = F(f)
    BY DEF Flattens
  <1>2. F(f)[i] = IF i = 1 THEN xs[i] ELSE f[i - 1] \o xs[i]
    OBVIOUS
  <1> HIDE DEF F
  <1> QED BY <1>1, <1>2

\* There is one: the smallest n without is neither 0 nor a successor.
LEMMA FlattensExists ==
    ASSUME NEW xs, NEW n \in Nat
    PROVE  \E f : Flattens(f, xs, n)
  <1> DEFINE Bad == {k \in Nat : ~\E f : Flattens(f, xs, k)}
  <1> SUFFICES ASSUME n \in Bad PROVE FALSE
    OBVIOUS
  <1>1. PICK k \in Bad : \A l \in Bad : k <= l
    <2>1. Bad \subseteq Nat /\ Bad # {}
      OBVIOUS
    <2> HIDE DEF Bad
    <2> QED BY <2>1, SmallestNumber
  <1>2. k # 0
    <2>1. Flattens([i \in 1 .. 0 |-> xs[i]], xs, 0)
      BY DEF Flattens
    <2> QED BY <2>1
  <1>3. k - 1 \in Nat /\ k - 1 \notin Bad
    BY <1>1, <1>2
  <1>4. PICK g : Flattens(g, xs, k - 1)
    BY <1>3
  <1> DEFINE h == [i \in 1 .. k |-> IF i = k THEN IF k = 1 THEN xs[1] ELSE g[k - 1] \o xs[k]
                                    ELSE g[i]]
  <1>5. ASSUME NEW i \in 1 .. k
        PROVE  h[i] = IF i = 1 THEN xs[i] ELSE h[i - 1] \o xs[i]
    <2>1. CASE i = k
      <3>1. k # 1 => h[k - 1] = g[k - 1]
        BY <1>2
      <3> QED BY <2>1, <3>1
    <2>2. CASE i # k
      <3>1. i \in 1 .. k - 1 /\ (i # 1 => i - 1 \in 1 .. k /\ i - 1 # k)
        BY <1>1, <2>2
      <3>2. g[i] = IF i = 1 THEN xs[i] ELSE g[i - 1] \o xs[i]
        BY <1>3, <1>4, <3>1, FlattensAt
      <3>3. h[i] = g[i] /\ (i # 1 => h[i - 1] = g[i - 1])
        BY <2>2, <3>1
      <3> QED BY <3>2, <3>3
    <2> QED BY <2>1, <2>2
  <1>6. h = [i \in 1 .. k |-> IF i = 1 THEN xs[i] ELSE h[i - 1] \o xs[i]]
    <2>1. h = [i \in 1 .. k |-> h[i]]
      OBVIOUS
    <2> HIDE DEF h
    <2> QED BY <1>5, <2>1
  <1>7. Flattens(h, xs, k)
    <2> HIDE DEF h
    <2> QED BY <1>6 DEF Flattens
  <1> QED BY <1>7

\* Two that flatten the same first sequences agree on them.
LEMMA FlattensAgree ==
    ASSUME NEW f, NEW xs, NEW m \in Nat, Flattens(f, xs, m),
           NEW g, NEW ys, NEW n \in Nat, Flattens(g, ys, n),
           m <= n, \A i \in 1 .. m : ys[i] = xs[i]
    PROVE  \A i \in 1 .. m : g[i] = f[i]
  <1> DEFINE Bad == {i \in 1 .. m : g[i] # f[i]}
  <1> SUFFICES ASSUME Bad # {} PROVE FALSE
    OBVIOUS
  <1>1. PICK i \in Bad : \A j \in Bad : i <= j
    <2>1. Bad \subseteq Nat
      OBVIOUS
    <2> HIDE DEF Bad
    <2> QED BY <2>1, SmallestNumber
  <1>2. i \in 1 .. m /\ i \in 1 .. n /\ g[i] # f[i]
    OBVIOUS
  <1>3. i # 1 => g[i - 1] = f[i - 1]
    <2> SUFFICES ASSUME i # 1 PROVE g[i - 1] = f[i - 1]
      OBVIOUS
    <2>1. i - 1 \in 1 .. m /\ ~(i <= i - 1)
      BY <1>2
    <2> QED BY <1>1, <2>1
  <1>4. /\ f[i] = IF i = 1 THEN xs[i] ELSE f[i - 1] \o xs[i]
        /\ g[i] = IF i = 1 THEN ys[i] ELSE g[i - 1] \o ys[i]
    <2> HIDE DEF Bad
    <2> QED BY <1>2, FlattensAt
  <1> QED BY <1>2, <1>3, <1>4

LEMMA FlattenUnfolds ==
    ASSUME NEW S, NEW xs \in Seq(S), Len(xs) > 0
    PROVE  \E f : Flattens(f, xs, Len(xs)) /\ FlattenSeq(xs) = f[Len(xs)]
  <1> DEFINE f == CHOOSE g : Flattens(g, xs, Len(xs))
  <1>1. Flattens(f, xs, Len(xs))
    <2>1. \E g : Flattens(g, xs, Len(xs))
      <3>1. Len(xs) \in Nat
        OBVIOUS
      <3> QED BY <3>1, FlattensExists
    <2> QED BY <2>1
  <1>2. FlattenSeq(xs) = f[Len(xs)]
    BY DEF FlattenSeq, Flattens
  <1> QED BY <1>1, <1>2

LEMMA FlattenOneMore ==
    ASSUME NEW S, NEW xs \in Seq(Seq(S)), NEW x \in Seq(S), FlattenSeq(xs) \in Seq(S)
    PROVE  FlattenSeq(Append(xs, x)) = FlattenSeq(xs) \o x
  <1> DEFINE ys == Append(xs, x)
             n == Len(xs)
  <1>1. /\ n \in Nat /\ ys \in Seq(Seq(S)) /\ Len(ys) = n + 1
        /\ ys[n + 1] = x /\ \A i \in 1 .. n : ys[i] = xs[i]
    OBVIOUS
  <1> HIDE DEF ys
  <1>2. PICK g : Flattens(g, ys, n + 1) /\ FlattenSeq(ys) = g[n + 1]
    <2>1. Len(ys) > 0
      BY <1>1
    <2> HIDE DEF n
    <2> QED BY <1>1, <2>1, FlattenUnfolds
  <1>3. g[n + 1] = IF n + 1 = 1 THEN x ELSE g[n] \o x
    <2> HIDE DEF n
    <2>1. n + 1 \in Nat /\ n + 1 \in 1 .. n + 1 /\ (n + 1) - 1 = n
      BY <1>1
    <2> QED BY <1>1, <1>2, <2>1, FlattensAt
  <1>4. CASE n = 0
    <2>1. xs = <<>> /\ FlattenSeq(xs) = xs
      BY <1>4 DEF FlattenSeq
    <2>2. <<>> \o x = x
      OBVIOUS
    <2> QED BY <1>2, <1>3, <1>4, <2>1, <2>2 DEF ys
  <1>5. CASE n # 0
    <2>1. PICK f : Flattens(f, xs, n) /\ FlattenSeq(xs) = f[n]
      BY <1>1, <1>5, FlattenUnfolds
    <2>2. g[n] = f[n]
      <3> HIDE DEF n
      <3>1. n <= n + 1 /\ n + 1 \in Nat /\ n \in 1 .. n
        BY <1>1, <1>5
      <3> QED BY <1>1, <1>2, <2>1, <3>1, FlattensAgree
    <2> QED BY <1>1, <1>2, <1>3, <1>5, <2>1, <2>2 DEF ys
  <1> QED BY <1>4, <1>5

StepsOf(m) == IF IsAssistant(m) THEN m.steps ELSE <<>>

StepsShown(ms) == [i \in DOMAIN ms |-> StepsOf(ms[i])]

Correlation(ms) ==
    LET is == {i \in DOMAIN ms : HasCorrelation(ms[i])}
    IN  IF is = {} THEN NoId ELSE ms[Max(is)].correlation

\* The runs whose answers stand on the page and confirm something.
ToldBy(ms, rn) ==
    {s \in Sends : /\ rn[s] # "error"
                   /\ \E i \in DOMAIN ms : ms[i].role = "assistant" /\ ms[i].send = s}

\* Those of them with something to list.
ListedBy(ms, rn) == {s \in ToldBy(ms, rn) : rn[s] # "pending_review"}

LEMMA PanelOf ==
    /\ PanelSteps = FlattenSeq(StepsShown(chat.messages))
    /\ PanelCorrelation = Correlation(chat.messages)
    /\ {s \in Sends : Told(s) # {} /\ run[s] # "error"} = ToldBy(chat.messages, run)
  <1>1. PanelSteps = FlattenSeq(StepsShown(chat.messages))
    BY DEF PanelSteps, StepsShown, StepsOf
  <1>2. PanelCorrelation = Correlation(chat.messages)
    BY DEF PanelCorrelation, Correlation
  <1>3. {s \in Sends : Told(s) # {} /\ run[s] # "error"} = ToldBy(chat.messages, run)
    BY DEF Told, ToldBy
  <1> QED BY <1>1, <1>2, <1>3

\* What the panel shows of these messages and runs.
Shows(ms, rn) ==
    LET steps == FlattenSeq(StepsShown(ms))
        told == ToldBy(ms, rn)
    IN  /\ steps \in Seq(Sends)
        /\ {steps[i] : i \in DOMAIN steps} \subseteq told
        /\ ListedBy(ms, rn) \subseteq {steps[i] : i \in DOMAIN steps}
        /\ \A i, j \in DOMAIN steps : i < j => steps[i] < steps[j]
        /\ Correlation(ms) = IF told = {} THEN NoId ELSE Max(told)

PanelInv == PageInv /\ Shows(chat.messages, run)

LEMMA StepsAreSeq ==
    ASSUME NEW m \in Messages
    PROVE  StepsOf(m) \in Seq(Sends)
  BY DEF StepsOf, IsAssistant, Messages, CustomerMessage, AnswerMessages

LEMMA PanelOneMore ==
    ASSUME NEW ms \in Seq(Messages), NEW m \in Messages,
           FlattenSeq(StepsShown(ms)) \in Seq(Sends)
    PROVE  FlattenSeq(StepsShown(Append(ms, m))) = FlattenSeq(StepsShown(ms)) \o StepsOf(m)
  <1>1. StepsShown(ms) \in Seq(Seq(Sends)) /\ StepsOf(m) \in Seq(Sends)
    <2>1. \A i \in 1 .. Len(ms) : StepsOf(ms[i]) \in Seq(Sends)
      BY OneMore, StepsAreSeq
    <2>2. StepsShown(ms) = [i \in 1 .. Len(ms) |-> StepsOf(ms[i])]
      BY OneMore DEF StepsShown
    <2> QED BY <2>1, <2>2, StepsAreSeq
  <1>2. StepsShown(Append(ms, m)) = Append(StepsShown(ms), StepsOf(m))
    <2> DEFINE ns == Append(ms, m)
               n == Len(ms)
               xs == StepsShown(ms)
               ys == StepsShown(ns)
               zs == Append(xs, StepsOf(m))
    <2>1. /\ n \in Nat /\ DOMAIN ms = 1 .. n /\ DOMAIN ns = 1 .. n + 1
          /\ ns[n + 1] = m /\ \A i \in 1 .. n : ns[i] = ms[i]
      BY OneMore
    <2>2. ys = [i \in 1 .. n + 1 |-> StepsOf(ns[i])] /\ xs = [i \in 1 .. n |-> StepsOf(ms[i])]
      BY <2>1 DEF StepsShown
    <2> HIDE DEF ns, n, xs, ys
    <2>3. Len(xs) = n
      BY <2>1, <2>2
    <2>4. zs = [i \in 1 .. n + 1 |-> IF i = n + 1 THEN StepsOf(m) ELSE xs[i]]
      <3>1. /\ zs \in Seq(Seq(Sends)) /\ Len(zs) = n + 1 /\ zs[n + 1] = StepsOf(m)
            /\ \A i \in 1 .. n : zs[i] = xs[i]
        <4>1. xs \in Seq(Seq(Sends)) /\ StepsOf(m) \in Seq(Sends)
          BY <1>1 DEF xs
        <4> HIDE DEF StepsOf
        <4> QED BY <2>1, <2>3, <4>1
      <3>2. zs = [i \in 1 .. n + 1 |-> zs[i]]
        <4> HIDE DEF zs
        <4>1. zs \in [1 .. n + 1 -> Seq(Sends)]
          BY <3>1
        <4> QED BY <4>1
      <3>3. \A i \in 1 .. n + 1 : zs[i] = IF i = n + 1 THEN StepsOf(m) ELSE xs[i]
        BY <2>1, <3>1
      <3> HIDE DEF zs
      <3> QED BY <3>2, <3>3
    <2>5. \A i \in 1 .. n + 1 : StepsOf(ns[i]) = IF i = n + 1 THEN StepsOf(m) ELSE xs[i]
      BY <2>1, <2>2
    <2>6. ys = zs
      <3> HIDE DEF zs
      <3> QED BY <2>2, <2>4, <2>5
    <2> QED BY <2>6 DEF ys, zs, xs, ns
  <1> HIDE DEF StepsShown, StepsOf
  <1> QED BY <1>1, <1>2, FlattenOneMore

LEMMA CorrelationOneMore ==
    ASSUME NEW ms \in Seq(Messages), NEW m \in Messages
    PROVE  Correlation(Append(ms, m)) =
              IF HasCorrelation(m) THEN m.correlation ELSE Correlation(ms)
  <1> DEFINE ns == Append(ms, m)
             n == Len(ms)
             is(q) == {i \in DOMAIN q : HasCorrelation(q[i])}
  <1>1. /\ n \in Nat /\ DOMAIN ms = 1 .. n /\ DOMAIN ns = 1 .. n + 1
        /\ ns[n + 1] = m
        /\ \A i \in 1 .. n : ns[i] = ms[i]
    BY OneMore
  <1> HIDE DEF ns, n
  <1>2. is(ns) = is(ms) \cup (IF HasCorrelation(m) THEN {n + 1} ELSE {})
    BY <1>1
  <1>3. is(ms) \subseteq 0 .. n
    BY <1>1
  <1>4. \A i \in is(ms) : i \in 1 .. n
    BY <1>1
  <1>5. /\ Correlation(ns) = IF is(ns) = {} THEN NoId ELSE ns[Max(is(ns))].correlation
        /\ Correlation(ms) = IF is(ms) = {} THEN NoId ELSE ms[Max(is(ms))].correlation
    BY DEF Correlation
  <1> HIDE DEF is
  <1>6. CASE HasCorrelation(m)
    <2>1. n + 1 \in Nat /\ n + 1 > n
      BY <1>1
    <2>2. Max(is(ms) \cup {n + 1}) = n + 1
      BY <1>1, <1>3, <2>1, MaxOfAnother
    <2> QED BY <1>1, <1>2, <1>5, <1>6, <2>2 DEF ns
  <1>7. CASE ~HasCorrelation(m) /\ is(ms) # {}
    <2>1. Max(is(ms)) \in is(ms)
      BY <1>1, <1>3, <1>7, MaxIsLargest
    <2>2. ns[Max(is(ms))] = ms[Max(is(ms))]
      BY <1>1, <1>4, <2>1
    <2> QED BY <1>2, <1>5, <1>7, <2>2 DEF ns
  <1>8. CASE ~HasCorrelation(m) /\ is(ms) = {}
    BY <1>2, <1>5, <1>8 DEF ns
  <1> QED BY <1>6, <1>7, <1>8

\* Another message of the customer shows nothing.
LEMMA ShowsCustomer ==
    ASSUME NEW ms \in Seq(Messages), NEW rn, Shows(ms, rn), NEW s \in Sends
    PROVE  Shows(Append(ms, CustomerMessage(s)), rn)
  <1> DEFINE m == CustomerMessage(s)
             ns == Append(ms, m)
             steps == FlattenSeq(StepsShown(ms))
  <1>1. m \in Messages /\ m.role = "user"
    BY CustomerFields
  <1>2. StepsOf(m) = <<>> /\ ~HasCorrelation(m)
    BY <1>1 DEF StepsOf, IsAssistant, HasCorrelation
  <1>3. steps \in Seq(Sends)
    BY DEF Shows
  <1>4. FlattenSeq(StepsShown(ns)) = steps
    <2>1. FlattenSeq(StepsShown(ns)) = steps \o <<>>
      BY <1>1, <1>2, <1>3, PanelOneMore
    <2> HIDE DEF steps
    <2> QED BY <1>3, <2>1
  <1>5. Correlation(ns) = Correlation(ms)
    BY <1>1, <1>2, CorrelationOneMore
  <1>6. ToldBy(ns, rn) = ToldBy(ms, rn)
    <2>1. /\ Len(ms) \in Nat /\ DOMAIN ms = 1 .. Len(ms) /\ DOMAIN ns = 1 .. Len(ms) + 1
          /\ ns[Len(ms) + 1] = m /\ \A i \in 1 .. Len(ms) : ns[i] = ms[i]
      BY <1>1, OneMore
    <2> HIDE DEF ns, m
    <2> QED BY <1>1, <2>1 DEF ToldBy
  <1> HIDE DEF steps, ns
  <1> QED BY <1>4, <1>5, <1>6 DEF Shows, ListedBy, steps, ns

\* The answer of a later run than all on the page adds that run, if it
\* confirmed something.
LEMMA ShowsAnswer ==
    ASSUME NEW ms \in Seq(Messages), NEW rn, Shows(ms, rn), NEW m \in Messages,
           m.role = "assistant", Tells(m, rn[m.send]),
           \A r \in ToldBy(ms, rn) : r < m.send
    PROVE  Shows(Append(ms, m), rn)
  <1> DEFINE ns == Append(ms, m)
             steps == FlattenSeq(StepsShown(ms))
             after == FlattenSeq(StepsShown(ns))
             told == ToldBy(ms, rn)
             s == m.send
  <1>1. s \in Sends /\ s \in Nat /\ s # NoId
    BY MessageFields DEF Sends, NoId
  <1>2. /\ steps \in Seq(Sends)
        /\ {steps[i] : i \in DOMAIN steps} \subseteq told
        /\ {r \in told : rn[r] # "pending_review"} \subseteq {steps[i] : i \in DOMAIN steps}
        /\ \A i, j \in DOMAIN steps : i < j => steps[i] < steps[j]
        /\ Correlation(ms) = IF told = {} THEN NoId ELSE Max(told)
    BY DEF Shows, ListedBy
  <1>3. after = steps \o m.steps
    BY <1>2, PanelOneMore DEF StepsOf, IsAssistant
  <1>4. Correlation(ns) = IF HasCorrelation(m) THEN m.correlation ELSE Correlation(ms)
    BY CorrelationOneMore
  <1>5. ToldBy(ns, rn) = told \cup (IF rn[s] # "error" THEN {s} ELSE {})
    <2>1. /\ Len(ms) \in Nat /\ DOMAIN ms = 1 .. Len(ms) /\ DOMAIN ns = 1 .. Len(ms) + 1
          /\ ns[Len(ms) + 1] = m /\ \A i \in 1 .. Len(ms) : ns[i] = ms[i]
      BY OneMore
    <2> HIDE DEF ns
    <2> QED BY <1>1, <2>1 DEF ToldBy
  <1> HIDE DEF ns, after
  <1>6. CASE rn[s] = "error"
    <2>1. m.steps = <<>> /\ ~HasCorrelation(m)
      BY <1>6 DEF Tells, StepsTold, HasCorrelation
    <2> HIDE DEF steps, told
    <2>2. after = steps /\ Correlation(ns) = Correlation(ms) /\ ToldBy(ns, rn) = told
      BY <1>2, <1>3, <1>4, <1>5, <1>6, <2>1
    <2> QED BY <1>2, <2>2 DEF Shows, ListedBy, after, ns
  <1>7. CASE rn[s] # "error"
    <2>1. m.correlation = s /\ HasCorrelation(m)
      BY <1>1, <1>7 DEF Tells, HasCorrelation, IsAssistant
    <2>8. \/ m.steps = <<s>>
          \/ m.steps = <<>> /\ rn[s] = "pending_review"
      BY <1>7 DEF Tells, StepsTold
    <2>2. ToldBy(ns, rn) = told \cup {s} /\ Correlation(ns) = s
      BY <1>4, <1>5, <1>7, <2>1
    <2>3. Max(told \cup {s}) = s
      <3>1. told \subseteq 0 .. s - 1 /\ s - 1 \in Nat /\ s > s - 1
        BY <1>1 DEF ToldBy, Sends
      <3> HIDE DEF told
      <3> QED BY <1>1, <3>1, MaxOfAnother
    <2>4. \A r \in told : r < s
      OBVIOUS
    <2>5. told \cup {s} # {}
      OBVIOUS
    <2> HIDE DEF steps, told, s
    <2>6. CASE m.steps = <<>> /\ rn[s] = "pending_review"
      <3>1. after = steps
        BY <1>2, <1>3, <2>6
      <3>2. /\ {steps[i] : i \in DOMAIN steps} \subseteq told \cup {s}
            /\ {r \in told \cup {s} : rn[r] # "pending_review"}
                  \subseteq {steps[i] : i \in DOMAIN steps}
        BY <1>2, <2>6
      <3> QED BY <1>2, <2>2, <2>3, <2>5, <3>1, <3>2 DEF Shows, ListedBy, after, ns
    <2>7. CASE m.steps = <<s>>
      <3>1. /\ after \in Seq(Sends) /\ Len(steps) \in Nat /\ Len(after) = Len(steps) + 1
            /\ DOMAIN steps = 1 .. Len(steps) /\ DOMAIN after = 1 .. Len(steps) + 1
            /\ after[Len(steps) + 1] = s
            /\ \A i \in 1 .. Len(steps) : after[i] = steps[i]
        BY <1>1, <1>2, <1>3, <2>7
      <3>2. {after[i] : i \in DOMAIN after} = {steps[i] : i \in DOMAIN steps} \cup {s}
        BY <3>1
      <3>3. ASSUME NEW i \in DOMAIN after, NEW j \in DOMAIN after, i < j
            PROVE  after[i] < after[j]
        <4>1. i \in 1 .. Len(steps) /\ after[i] = steps[i]
          BY <3>1, <3>3
        <4>2. CASE j = Len(steps) + 1
          <5>1. steps[i] \in told
            BY <1>2, <3>1, <4>1
          <5> QED BY <2>4, <3>1, <4>1, <4>2, <5>1
        <4>3. CASE j # Len(steps) + 1
          <5>1. j \in 1 .. Len(steps) /\ after[j] = steps[j]
            BY <3>1, <4>3
          <5> QED BY <1>2, <3>1, <3>3, <4>1, <5>1
        <4> QED BY <4>2, <4>3
      <3>4. /\ {after[i] : i \in DOMAIN after} \subseteq told \cup {s}
            /\ {r \in told \cup {s} : rn[r] # "pending_review"}
                  \subseteq {after[i] : i \in DOMAIN after}
        BY <1>2, <3>2
      <3> QED BY <2>2, <2>3, <2>5, <3>1, <3>3, <3>4 DEF Shows, ListedBy, after, ns
    <2> QED BY <2>6, <2>7, <2>8
  <1> QED BY <1>6, <1>7

\* A page without messages shows nothing.
LEMMA ShowsNothing ==
    ASSUME NEW rn
    PROVE  Shows(<<>>, rn)
  <1>1. StepsShown(<<>>) = <<>>
    BY DEF StepsShown
  <1>2. FlattenSeq(<<>>) = <<>>
    <2>1. Len(<<>>) = 0
      OBVIOUS
    <2> QED BY <2>1 DEF FlattenSeq
  <1>3. ToldBy(<<>>, rn) = {} /\ Correlation(<<>>) = NoId
    BY DEF ToldBy, Correlation
  <1>4. <<>> \in Seq(Sends) /\ DOMAIN <<>> = {}
    OBVIOUS
  <1> QED BY <1>1, <1>2, <1>3, <1>4 DEF Shows, ListedBy

\* Only what became of the runs on the page matters.
LEMMA ShowsOfSameRuns ==
    ASSUME NEW ms, NEW rn, NEW other, Shows(ms, rn),
           \A i \in DOMAIN ms : ms[i].role = "assistant" => other[ms[i].send] = rn[ms[i].send]
    PROVE  Shows(ms, other)
  <1>1. /\ ToldBy(ms, other) = ToldBy(ms, rn)
        /\ ListedBy(ms, other) = ListedBy(ms, rn)
    BY DEF ToldBy, ListedBy
  <1> QED BY <1>1 DEF Shows

LEMMA StepPanel ==
    ASSUME PanelInv, [Next]_vars
    PROVE  PanelInv'
  <1>1. PageInv'
    BY StepPage DEF PanelInv
  <1>2. /\ IsState(chat) /\ Shows(chat.messages, run)
        /\ chat.messages \in Seq(Messages)
        /\ run \in [Sends -> {"none", "running"} \cup Outcomes]
    BY DEF PanelInv, PageInv, Inv, Typed, PageTyped
  <1>3. \A i \in DOMAIN chat.messages :
           /\ chat.messages[i].send \in Sends
           /\ chat.messages[i].role = "assistant" => run[chat.messages[i].send] \in Outcomes
    <2>1. \A i \in DOMAIN chat.messages : chat.messages[i] \in Messages
      BY <1>2, OneMore
    <2> QED BY <2>1, MessageFields DEF PanelInv, PageInv, AnswersInPlace, Tells
  <1>4. ASSUME chat'.messages = chat.messages,
               \A r \in Sends : run[r] \in Outcomes => run'[r] = run[r]
        PROVE  Shows(chat'.messages, run')
    BY <1>2, <1>3, <1>4, ShowsOfSameRuns
  <1>5. CASE ClearError
    <2>1. chat' = [chat EXCEPT !.error = FALSE] /\ run' = run
      BY <1>5 DEF ClearError, Dispatch
    <2>2. chat'.messages = chat.messages
      BY <1>2, <2>1, ClearedFields
    <2> QED BY <1>1, <1>4, <2>1, <2>2 DEF PanelInv
  <1>6. CASE Reload
    <2>1. chat' = InitialState /\ run' = run
      BY <1>6 DEF Reload, Dispatch
    <2>2. chat'.messages = <<>>
      BY <2>1 DEF InitialState
    <2> QED BY <1>1, <2>2, ShowsNothing DEF PanelInv
  <1>7. CASE Render
    <2>1. chat' = chat /\ run' = run
      BY <1>7 DEF Render
    <2> QED BY <1>1, <1>4, <2>1 DEF PanelInv
  <1>8. ASSUME NEW s \in Sends, Submit(s) PROVE PanelInv'
    <2>1. chat' = UserSend(chat, s) /\ run' = run
      BY <1>8 DEF Submit, Dispatch
    <2>2. chat'.messages = Append(chat.messages, CustomerMessage(s))
      BY <1>2, <2>1, UserSendFields
    <2> QED BY <1>1, <1>2, <2>1, <2>2, ShowsCustomer DEF PanelInv
  <1>9. ASSUME NEW s \in Sends, Receive(s) PROVE PanelInv'
    <2>1. run[s] = "none" /\ run' = [run EXCEPT ![s] = "running"] /\ chat' = chat
      BY <1>9 DEF Receive
    <2>2. \A r \in Sends : run[r] \in Outcomes => run'[r] = run[r]
      BY <1>2, <2>1 DEF Outcomes
    <2> QED BY <1>1, <1>4, <2>1, <2>2 DEF PanelInv
  <1>10. ASSUME NEW s \in Sends, Finish(s) PROVE PanelInv'
    <2>1. PICK out \in Outcomes : run' = [run EXCEPT ![s] = out]
      BY <1>10 DEF Finish
    <2>2. run[s] = "running" /\ chat' = chat
      BY <1>10 DEF Finish
    <2>3. \A r \in Sends : run[r] \in Outcomes => run'[r] = run[r]
      BY <1>2, <2>1, <2>2 DEF Outcomes
    <2> QED BY <1>1, <1>4, <2>2, <2>3 DEF PanelInv
  <1>11. ASSUME NEW s \in Sends, Answered(s) PROVE PanelInv'
    <2>1. PICK answer \in Answers(s, run[s]) : Settle(s, AgentReply(chat, s, Parsed(answer)))
      BY <1>11 DEF Answered
    <2> DEFINE ms == chat.messages
               m == AgentMessage(Parsed(answer), s)
    <2>2. /\ chat' = AgentReply(chat, s, Parsed(answer)) /\ run' = run
          /\ call[s] = "waiting" /\ run[s] \in Outcomes
      BY <1>11, <2>1 DEF Settle, Answered
    <2>3. m \in AnswerMessages /\ m.send = s /\ Tells(m, run[s])
      BY <2>1, <2>2, ShownMessage
    <2>4. m \in Messages /\ m.role = "assistant"
      BY <2>3 DEF Messages, AnswerMessages
    <2>5. chat'.messages = Append(ms, m)
      BY <1>2, <2>2, AgentReplyFields
    <2>6. Len(ms) > 0 /\ ms[Len(ms)] = CustomerMessage(s)
      BY <2>2 DEF PanelInv, PageInv, OpenIsLast
    <2>7. \A r \in ToldBy(ms, run) : r < s
      <3> SUFFICES ASSUME NEW r \in Sends, NEW i \in DOMAIN ms,
                          ms[i].role = "assistant", ms[i].send = r
                   PROVE  r < s
        BY DEF ToldBy
      <3>1. i > 1 /\ ms[i - 1] = CustomerMessage(r)
        BY DEF PanelInv, PageInv, AnswersInPlace
      <3>2. /\ DOMAIN ms = 1 .. Len(ms) /\ Len(ms) \in Nat
        BY <1>2, OneMore
      <3>3. i - 1 \in DOMAIN ms /\ Len(ms) \in DOMAIN ms /\ i - 1 < Len(ms)
        BY <2>6, <3>1, <3>2
      <3>4. /\ ms[i - 1].role = "user" /\ ms[i - 1].send = r
            /\ ms[Len(ms)].role = "user" /\ ms[Len(ms)].send = s
        BY <2>6, <3>1, CustomerFields
      <3> QED BY <3>3, <3>4 DEF PanelInv, PageInv, SentInOrder
    <2> HIDE DEF m, ms
    <2>8. Shows(Append(ms, m), run)
      BY <1>2, <2>3, <2>4, <2>7, ShowsAnswer DEF ms
    <2> QED BY <1>1, <2>2, <2>5, <2>8 DEF PanelInv
  <1>12. ASSUME NEW s \in Sends, Rejected(s) PROVE PanelInv'
    <2>1. chat' = Failed(chat) /\ run' = run
      BY <1>12 DEF Rejected, Settle
    <2>2. chat'.messages = chat.messages
      BY <1>2, <2>1, FailedFields
    <2> QED BY <1>1, <1>4, <2>1, <2>2 DEF PanelInv
  <1>13. CASE UNCHANGED vars
    <2>1. chat' = chat /\ run' = run
      BY <1>13 DEF vars
    <2> QED BY <1>1, <1>4, <2>1 DEF PanelInv
  <1> QED BY <1>5, <1>6, <1>7, <1>8, <1>9, <1>10, <1>11, <1>12, <1>13 DEF Next

(***************************************************************************)
(* The theorems.                                                           *)
(***************************************************************************)
\* The page's state keeps its types and shows no empty bubble (chatReducer,
\* parseAgentResponse), for any agent that tells its runs.
THEOREM TypeCorrect == Spec => []TypeOK
  <1>1. PageInv => TypeOK
    <2> SUFFICES ASSUME PageInv PROVE TypeOK
      OBVIOUS
    <2>1. \A i \in DOMAIN chat.messages : chat.messages[i] \in Messages
      BY DEF PageInv, Typed, PageTyped
    <2>2. ASSUME NEW i \in DOMAIN chat.messages
          PROVE  LET m == chat.messages[i]
                 IN  /\ m.send \in Sends
                     /\ m.role = "assistant" =>
                           /\ m.text \in {"prose", "no message", "confirmed",
                                          "could not complete", "more information"}
                           /\ m.card \in Outcomes \cup {None}
      BY <2>1, MessageFields DEF AnswerMessages, Texts
    <2>3. chat.isLoading \in BOOLEAN
      BY DEF PageInv, Inv, IsState
    <2> QED BY <2>2, <2>3 DEF TypeOK, PageInv, Typed, PageTyped
  <1>2. Spec => []PageInv
    BY PageHolds
  <1> QED BY <1>1, <1>2, PTL

\* A send carries the task id of the last answer above it, although the send
\* callback reads the state of an earlier render (useChat).
THEOREM TaskIdsAreCarried == Spec => []SendsCarryTheLatestTask
  <1>1. PageInv => SendsCarryTheLatestTask
    BY DEF PageInv, TasksAreLatest, Latest, SendsCarryTheLatestTask
  <1>2. Spec => []PageInv
    BY PageHolds
  <1> QED BY <1>1, <1>2, PTL

\* Every answer stands right below the message it answers and its card tells
\* the outcome of that message's own run, whatever runs failed, were dropped
\* by a reload or finished unseen (useChat, parseAgentResponse).
THEOREM CardsAreTrue == Spec => []CardsTellTheRuns
  <1>1. PageInv => CardsTellTheRuns
    BY DEF PageInv, AnswersInPlace, Tells, CustomerMessage, CardsTellTheRuns
  <1>2. Spec => []PageInv
    BY PageHolds
  <1> QED BY <1>1, <1>2, PTL

\* The panel lists the steps of every answered run in the order of the sends,
\* but for runs put up for review before they had any, and the correlation id
\* of the last run that confirmed anything (AuditTrailPanel).
THEOREM PanelIsTrue == Spec => []PanelTellsTheRuns
  <1>1. Init => PanelInv
    <2> SUFFICES ASSUME Init PROVE PanelInv
      OBVIOUS
    <2>1. chat.messages = <<>>
      BY DEF Init, InitialState
    <2> QED BY <2>1, InitPage, ShowsNothing DEF PanelInv
  <1>2. PanelInv /\ [Next]_vars => PanelInv'
    BY StepPanel
  <1>3. PanelInv => PanelTellsTheRuns
    <2> SUFFICES ASSUME PanelInv PROVE PanelTellsTheRuns
      OBVIOUS
    <2>1. Shows(chat.messages, run)
      BY DEF PanelInv
    <2> QED BY <2>1, PanelOf DEF Shows, ListedBy, PanelTellsTheRuns
  <1> QED BY <1>1, <1>2, <1>3, PTL DEF Spec

=============================================================================
