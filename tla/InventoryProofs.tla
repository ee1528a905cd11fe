--------------------------- MODULE InventoryProofs ---------------------------
(***************************************************************************)
(* Theorems about Inventory for any products, seed quantities, set of      *)
(* requests and interleaving, restarts included; and, for clients that     *)
(* release what they were granted, that nothing is sold twice.             *)
(***************************************************************************)
EXTENDS Inventory, FiniteSetTheorems, WellFoundedInduction, TLAPS

\* A request past the controller asks for a valid operation and quantity.
WellFormed(r) ==
    /\ req[r].pc # "idle" => req[r].op # "none"
    /\ req[r].op # "none" => req[r].product \in ProductIds /\ req[r].qty \in Quantities

\* What makes the optimistic lock work: the version read never runs ahead of
\* the row's, and a row still at that version is the row that was read.
Snapshot(r) ==
    req[r].pc = "loaded" =>
        LET p == req[r].product
        IN  /\ p \in Products
            /\ req[r].seen.version <= row[p].version
            /\ req[r].seen.version = row[p].version => req[r].seen = row[p]

SnapshotInv == \A r \in Requests : WellFormed(r) /\ Snapshot(r)

IInv == TypeOK /\ SnapshotInv /\ BooksBalance

LEMMA RowFacts ==
    ASSUME NEW s \in Row, NEW q \in Quantities
    PROVE  /\ Fits(s, q) => Reserved(s, q) \in Row
           /\ Released(s, q) \in Row
  BY MaxQtyAssumption DEF Row, Quantities, Fits, Reserved, Released

LEMMA InitHolds == Init => IInv
  BY SeedAssumption, MaxQtyAssumption
  DEF Init, IInv, TypeOK, SnapshotInv, WellFormed, Snapshot, BooksBalance,
      SeedRow, Row, Request, Idle, NoRow, Answers

LEMMA ReceiveHolds ==
    ASSUME IInv, NEW r \in Requests, NEW op \in {"reserve", "release"},
           NEW p \in ProductIds, NEW q \in Quantities,
           NEW c \in Requests \cup {"none"}, Receive(r, op, p, q, c)
    PROVE  IInv'
  <1> DEFINE new == [req[r] EXCEPT !.pc = "received", !.op = op, !.product = p,
                                   !.qty = q, !.undoes = c]
  <1>a. req[r] \in Request /\ q \in 0 .. MaxQty
    BY MaxQtyAssumption DEF IInv, TypeOK, Quantities
  <1>b. new \in Request
    BY <1>a DEF Request
  <1>c. req' = [req EXCEPT ![r] = new] /\ UNCHANGED <<row, granted, returned>>
    BY DEF Receive
  <1>1. TypeOK'
    <2> HIDE DEF new
    <2> QED BY <1>b, <1>c DEF IInv, TypeOK
  <1>2. SnapshotInv'
    BY DEF IInv, TypeOK, Receive, Request, SnapshotInv, WellFormed, Snapshot
  <1>3. BooksBalance'
    BY DEF IInv, BooksBalance, Receive
  <1> QED BY <1>1, <1>2, <1>3 DEF IInv

LEMMA ReleaseAsks ==
    ASSUME IInv, NEW r \in Requests, ReceiveRelease(r)
    PROVE  \E p \in ProductIds, q \in Quantities, c \in Requests \cup {"none"} :
              Receive(r, "release", p, q, c)
  <1>1. CASE Matched
    <2>1. PICK c \in Claims : Receive(r, "release", req[c].product, req[c].qty, c)
      BY <1>1 DEF ReceiveRelease
    <2>2. req[c].product \in ProductIds /\ req[c].qty \in Quantities
      BY <2>1 DEF Claims, IInv, TypeOK, Request, SnapshotInv, WellFormed
    <2> QED BY <2>1, <2>2 DEF Claims
  <1>2. CASE ~Matched
    BY <1>2 DEF ReceiveRelease
  <1> QED BY <1>1, <1>2

LEMMA AnswerTyped ==
    ASSUME req \in [Requests -> Request], NEW r \in Requests, NEW a \in Answers,
           Answer(r, a)
    PROVE  req' \in [Requests -> Request]
  <1>1. req[r] \in Request
    OBVIOUS
  <1>2. [req[r] EXCEPT !.pc = "answered", !.answer = a] \in Request
    BY <1>1 DEF Request
  <1> QED BY <1>2 DEF Answer

\* A request that is answered without touching a row.
LEMMA AnswerHolds ==
    ASSUME IInv, NEW r \in Requests, NEW a \in Answers, Answer(r, a),
           req[r].pc # "idle", UNCHANGED <<row, granted, returned>>
    PROVE  IInv'
  <1>1. TypeOK'
    BY AnswerTyped DEF IInv, TypeOK
  <1>2. SnapshotInv'
    BY DEF IInv, TypeOK, Answer, Request, SnapshotInv, WellFormed, Snapshot
  <1>3. BooksBalance'
    BY DEF IInv, BooksBalance
  <1> QED BY <1>1, <1>2, <1>3 DEF IInv

LEMMA LoadHolds ==
    ASSUME IInv, NEW r \in Requests, Load(r)
    PROVE  IInv'
  <1>1. TypeOK'
    BY ZenonT(60) DEF IInv, TypeOK, Load, Request
  <1>2. SnapshotInv'
    BY DEF IInv, TypeOK, Load, Request, Row, SnapshotInv, WellFormed, Snapshot
  <1>3. BooksBalance'
    BY DEF IInv, BooksBalance, Load
  <1> QED BY <1>1, <1>2, <1>3 DEF IInv

\* The row a commit starts from is the one it read.
LEMMA CommitReadsCurrent ==
    ASSUME IInv, NEW r \in Requests, req[r].pc = "loaded", Current(r)
    PROVE  /\ req[r].product \in Products
           /\ req[r].seen = row[req[r].product]
           /\ req[r].seen \in Row
           /\ req[r].qty \in Quantities
  BY DEF IInv, TypeOK, Request, SnapshotInv, Snapshot, WellFormed, Current

LEMMA CommitReserveHolds ==
    ASSUME IInv, NEW r \in Requests, CommitReserve(r)
    PROVE  IInv'
  <1> DEFINE p == req[r].product
             q == req[r].qty
  <1>1. /\ req[r].pc = "loaded" /\ Fits(req[r].seen, q)
        /\ row' = [row EXCEPT ![p] = Reserved(req[r].seen, q)]
        /\ granted' = [granted EXCEPT ![p] = @ + q]
        /\ Answer(r, "ok") /\ returned' = returned /\ Current(r)
    BY DEF CommitReserve
  <1>2. /\ p \in Products /\ req[r].seen = row[p] /\ row[p] \in Row /\ q \in Quantities
    BY <1>1, CommitReadsCurrent
  <1>3. Reserved(row[p], q) \in Row
    BY <1>1, <1>2, RowFacts
  <1>4. TypeOK'
    <2>1. req' \in [Requests -> Request]
      BY <1>1, AnswerTyped DEF IInv, TypeOK, Answers
    <2>2. row' \in [Products -> Row]
      BY <1>1, <1>2, <1>3 DEF IInv, TypeOK
    <2>3. granted' \in [Products -> Nat] /\ returned' \in [Products -> Nat]
      BY <1>1, <1>2, MaxQtyAssumption DEF IInv, TypeOK, Quantities
    <2> QED BY <2>1, <2>2, <2>3 DEF TypeOK
  <1>5. SnapshotInv'
    BY <1>1, <1>2, <1>3
    DEF IInv, TypeOK, Answer, Request, Row, SnapshotInv, WellFormed, Snapshot, Reserved
  <1>6. BooksBalance'
    BY <1>1, <1>2, MaxQtyAssumption
    DEF IInv, TypeOK, BooksBalance, Row, Quantities, Reserved
  <1> QED BY <1>4, <1>5, <1>6 DEF IInv

LEMMA CommitReleaseHolds ==
    ASSUME IInv, NEW r \in Requests, CommitRelease(r)
    PROVE  IInv'
  <1> DEFINE p == req[r].product
             q == req[r].qty
  <1>1. /\ req[r].pc = "loaded"
        /\ row' = [row EXCEPT ![p] = Released(req[r].seen, q)]
        /\ returned' = [returned EXCEPT ![p] = @ + q]
        /\ Answer(r, "ok") /\ granted' = granted /\ Current(r)
    BY DEF CommitRelease
  <1>2. /\ p \in Products /\ req[r].seen = row[p] /\ row[p] \in Row /\ q \in Quantities
    BY <1>1, CommitReadsCurrent
  <1>3. Released(row[p], q) \in Row
    BY <1>2, RowFacts
  <1>4. TypeOK'
    <2>1. req' \in [Requests -> Request]
      BY <1>1, AnswerTyped DEF IInv, TypeOK, Answers
    <2>2. row' \in [Products -> Row]
      BY <1>1, <1>2, <1>3 DEF IInv, TypeOK
    <2>3. granted' \in [Products -> Nat] /\ returned' \in [Products -> Nat]
      BY <1>1, <1>2, MaxQtyAssumption DEF IInv, TypeOK, Quantities
    <2> QED BY <2>1, <2>2, <2>3 DEF TypeOK
  <1>5. SnapshotInv'
    BY <1>1, <1>2, <1>3
    DEF IInv, TypeOK, Answer, Request, Row, SnapshotInv, WellFormed, Snapshot, Released
  <1>6. BooksBalance'
    <2> SUFFICES ASSUME NEW x \in Products
                 PROVE  /\ row'[x].available + granted'[x] = Seed[x] + returned'[x]
                        /\ row'[x].reserved + returned'[x] >= granted'[x]
      BY DEF BooksBalance
    <2>1. /\ row[x] \in Row /\ Seed[x] \in Nat /\ granted[x] \in Nat
          /\ returned[x] \in Nat /\ q \in Nat
      BY <1>2, SeedAssumption, MaxQtyAssumption DEF IInv, TypeOK, Quantities
    <2>2. /\ row[x].available + granted[x] = Seed[x] + returned[x]
          /\ row[x].reserved + returned[x] >= granted[x]
      BY DEF IInv, BooksBalance
    <2>3. CASE x = p
      <3>1. /\ row'[x] = Released(row[x], q)
            /\ returned'[x] = returned[x] + q /\ granted'[x] = granted[x]
        BY <1>1, <1>2, <2>3 DEF IInv, TypeOK
      <3>2. CASE q <= row[x].reserved
        <4>1. /\ row'[x].reserved = row[x].reserved - q
              /\ row'[x].available = row[x].available + q
              /\ row[x].reserved \in Nat /\ row[x].available \in Nat
          BY <2>1, <3>1, <3>2 DEF Row, Released
        <4> QED BY <2>1, <2>2, <3>1, <4>1
      <3>3. CASE ~(q <= row[x].reserved)
        <4>1. /\ row'[x].reserved = 0 /\ row'[x].available = row[x].available + q
              /\ row[x].reserved \in Nat /\ row[x].available \in Nat
          BY <2>1, <3>1, <3>3 DEF Row, Released
        <4>2. granted[x] <= row[x].reserved + returned[x]
          BY <2>1, <2>2, <4>1
        <4>3. returned[x] + q >= granted[x]
          BY <2>1, <3>3, <4>1, <4>2
        <4> QED BY <2>1, <2>2, <3>1, <4>1, <4>3
      <3> QED BY <3>2, <3>3
    <2>4. CASE x # p
      BY <1>1, <2>2, <2>4 DEF IInv, TypeOK
    <2> QED BY <2>3, <2>4
  <1> QED BY <1>4, <1>5, <1>6 DEF IInv

LEMMA RestartHolds ==
    ASSUME IInv, Restart
    PROVE  IInv'
  <1>1. TypeOK'
    <2>1. row' \in [Products -> Row]
      BY SeedAssumption DEF Restart, SeedRow, Row
    <2>2. req' \in [Requests -> Request]
      <3>1. ASSUME NEW r \in Requests
            PROVE  [req[r] EXCEPT !.pc = "answered", !.answer = "lost"] \in Request
        BY ZenonT(60) DEF IInv, TypeOK, Request, Answers
      <3>2. \A r \in Requests : req[r] \in Request
        BY DEF IInv, TypeOK
      <3> QED BY <3>1, <3>2 DEF Restart
    <2>3. granted' \in [Products -> Nat] /\ returned' \in [Products -> Nat]
      BY DEF Restart
    <2> QED BY <2>1, <2>2, <2>3 DEF TypeOK
  <1>2. SnapshotInv'
    <2> SUFFICES ASSUME NEW r \in Requests PROVE WellFormed(r)' /\ Snapshot(r)'
      BY DEF SnapshotInv
    <2>1. req[r] \in Request /\ WellFormed(r)
      BY DEF IInv, TypeOK, SnapshotInv
    <2>2. /\ req'[r].pc # "loaded"
          /\ req'[r].pc # "idle" => req[r].pc # "idle"
          /\ req'[r].op = req[r].op /\ req'[r].product = req[r].product
          /\ req'[r].qty = req[r].qty
      BY <2>1 DEF Restart, Request
    <2> QED BY <2>1, <2>2 DEF WellFormed, Snapshot
  <1>3. BooksBalance'
    <2> SUFFICES ASSUME NEW x \in Products
                 PROVE  /\ row'[x].available + granted'[x] = Seed[x] + returned'[x]
                        /\ row'[x].reserved + returned'[x] >= granted'[x]
      BY DEF BooksBalance
    <2>1. /\ row'[x].available = Seed[x] /\ row'[x].reserved = 0
          /\ granted'[x] = 0 /\ returned'[x] = 0 /\ Seed[x] \in Nat
      BY SeedAssumption DEF Restart, SeedRow
    <2> QED BY <2>1
  <1> QED BY <1>1, <1>2, <1>3 DEF IInv

LEMMA NextHolds == IInv /\ [Next]_vars => IInv'
  <1> SUFFICES ASSUME IInv, [Next]_vars PROVE IInv'
    OBVIOUS
  <1>1. ASSUME NEW r \in Requests, ReceiveReserve(r) PROVE IInv'
    BY <1>1, ReceiveHolds DEF ReceiveReserve
  <1>2. ASSUME NEW r \in Requests, ReceiveRelease(r) PROVE IInv'
    BY <1>2, ReceiveHolds, ReleaseAsks
  <1>3. ASSUME NEW r \in Requests, ProductNotFound(r) PROVE IInv'
    BY <1>3, AnswerHolds DEF ProductNotFound, Answers
  <1>4. ASSUME NEW r \in Requests, Load(r) PROVE IInv'
    BY <1>4, LoadHolds
  <1>5. ASSUME NEW r \in Requests, Refuse(r) PROVE IInv'
    BY <1>5, AnswerHolds DEF Refuse, Answers
  <1>6. ASSUME NEW r \in Requests, CommitReserve(r) PROVE IInv'
    BY <1>6, CommitReserveHolds
  <1>7. ASSUME NEW r \in Requests, CommitRelease(r) PROVE IInv'
    BY <1>7, CommitReleaseHolds
  <1>8. ASSUME NEW r \in Requests, Conflict(r) PROVE IInv'
    BY <1>8, AnswerHolds DEF Conflict, Answers
  <1>9. CASE Restart
    BY <1>9, RestartHolds
  <1>10. CASE UNCHANGED vars
    BY <1>10 DEF vars, IInv, TypeOK, SnapshotInv, WellFormed, Snapshot, BooksBalance
  <1> QED
    BY <1>1, <1>2, <1>3, <1>4, <1>5, <1>6, <1>7, <1>8, <1>9, <1>10 DEF Next, Serve

LEMMA InvariantHolds == Spec => []IInv
  BY InitHolds, NextHolds, PTL DEF Spec

\* Every row, request and count stays within its type: in particular no
\* interleaving makes a quantity of a product negative (reserve, release).
THEOREM TypeCorrect == Spec => []TypeOK
  BY InvariantHolds, PTL DEF IInv

\* No interleaving of reservations and releases loses an update: what is on
\* hand always accounts for every answer given (Product.version).
THEOREM NoLostUpdate == Spec => []BooksBalance
  BY InvariantHolds, PTL DEF IInv

(***************************************************************************)
(* Refinement of StockLedger.                                              *)
(***************************************************************************)
Available == [p \in Products |-> row[p].available]
ReservedQty == [p \in Products |-> row[p].reserved]

LEMMA InitRefines == Init => Ledger!LedgerInit
  BY SeedAssumption DEF Init, SeedRow, Ledger!LedgerInit

LEMMA LedgerReserves ==
    ASSUME NEW p \in Products, NEW q \in Quantities, q <= Available[p],
           Available' = [Available EXCEPT ![p] = @ - q],
           ReservedQty' = [ReservedQty EXCEPT ![p] = @ + q]
    PROVE  Ledger!LedgerNext
  <1>1. Ledger!ReserveStock(p, q)
    BY DEF Ledger!ReserveStock, Available, ReservedQty
  <1> QED BY <1>1 DEF Ledger!LedgerNext, Ledger!Quantities, Quantities

LEMMA LedgerReleases ==
    ASSUME NEW p \in Products, NEW q \in Quantities,
           Available' = [Available EXCEPT ![p] = @ + q],
           ReservedQty' = [ReservedQty EXCEPT ![p] = IF q <= @ THEN @ - q ELSE 0]
    PROVE  Ledger!LedgerNext
  <1>1. Ledger!ReleaseStock(p, q)
    BY DEF Ledger!ReleaseStock, Available, ReservedQty
  <1> QED BY <1>1 DEF Ledger!LedgerNext, Ledger!Quantities, Quantities

LEMMA CommitReserveRefines ==
    ASSUME IInv, NEW r \in Requests, CommitReserve(r)
    PROVE  Ledger!LedgerNext
  <1> DEFINE p == req[r].product
             q == req[r].qty
  <1>1. /\ p \in Products /\ q \in Quantities /\ row[p] \in Row
        /\ Fits(row[p], q)
        /\ row' = [row EXCEPT ![p] = Reserved(row[p], q)]
    BY CommitReadsCurrent DEF CommitReserve
  <1>2. row \in [Products -> Row]
    BY DEF IInv, TypeOK
  <1>3. q <= Available[p]
    BY <1>1 DEF Fits, Available
  <1>4. Available' = [Available EXCEPT ![p] = @ - q]
    BY <1>1, <1>2 DEF Available, Reserved
  <1>5. ReservedQty' = [ReservedQty EXCEPT ![p] = @ + q]
    BY <1>1, <1>2 DEF ReservedQty, Reserved
  <1> HIDE DEF p, q
  <1> QED BY <1>1, <1>3, <1>4, <1>5, LedgerReserves

LEMMA CommitReleaseRefines ==
    ASSUME IInv, NEW r \in Requests, CommitRelease(r)
    PROVE  Ledger!LedgerNext
  <1> DEFINE p == req[r].product
             q == req[r].qty
  <1>1. /\ p \in Products /\ q \in Quantities /\ row[p] \in Row
        /\ row' = [row EXCEPT ![p] = Released(row[p], q)]
    BY CommitReadsCurrent DEF CommitRelease
  <1>2. row \in [Products -> Row]
    BY DEF IInv, TypeOK
  <1>3. Available' = [Available EXCEPT ![p] = @ + q]
    BY <1>1, <1>2 DEF Available, Released
  <1>4. ReservedQty' = [ReservedQty EXCEPT ![p] = IF q <= @ THEN @ - q ELSE 0]
    BY <1>1, <1>2 DEF ReservedQty, Released
  <1> HIDE DEF p, q
  <1> QED BY <1>1, <1>3, <1>4, LedgerReleases

LEMMA RestartRefines ==
    ASSUME Restart PROVE Ledger!LedgerNext
  <1>1. Available' = Seed /\ ReservedQty' = [p \in Products |-> 0]
    BY SeedAssumption DEF Restart, SeedRow, Available, ReservedQty
  <1> QED BY <1>1 DEF Ledger!LedgerNext, Ledger!Reseed, Available, ReservedQty

LEMMA NextRefines ==
    IInv /\ [Next]_vars => [Ledger!LedgerNext]_(Ledger!stockVars)
  <1> SUFFICES ASSUME IInv, [Next]_vars
               PROVE  Ledger!LedgerNext \/ UNCHANGED Ledger!stockVars
    OBVIOUS
  <1>1. ASSUME row' = row PROVE UNCHANGED Ledger!stockVars
    BY <1>1 DEF Ledger!stockVars
  <1>2. ASSUME NEW r \in Requests, ReceiveReserve(r) \/ ReceiveRelease(r)
        PROVE  row' = row
    BY <1>2 DEF ReceiveReserve, ReceiveRelease, Receive
  <1>3. ASSUME NEW r \in Requests,
               ProductNotFound(r) \/ Load(r) \/ Refuse(r) \/ Conflict(r)
        PROVE  row' = row
    BY <1>3 DEF ProductNotFound, Load, Refuse, Conflict
  <1>4. CASE UNCHANGED vars
    BY <1>1, <1>4 DEF vars
  <1> QED
    BY <1>1, <1>2, <1>3, <1>4, CommitReserveRefines, CommitReleaseRefines, RestartRefines
    DEF Next, Serve

\* Whatever the interleaving, reserving and releasing act as if requests were
\* served one at a time on the current stock.
THEOREM ServiceImplementsLedger == Spec => ImplementsLedger
  BY InitRefines, NextRefines, InvariantHolds, PTL
  DEF Spec, ImplementsLedger, Ledger!LedgerSpec

(***************************************************************************)
(* Why a transaction may lose the race for its row: somebody else won it.  *)
(***************************************************************************)
\* Another request on the same product was answered ok.
Winner(r, w) == w # r /\ req[w].answer = "ok" /\ req[w].product = req[r].product

\* Whoever read a version the row has left behind was overtaken, and so was
\* whoever was refused for it; only answered requests have an answer.
Overtaken(r) ==
    /\ req[r].answer # "none" <=> req[r].pc = "answered"
    /\ \/ req[r].answer = "conflict"
       \/ req[r].pc = "loaded" /\ req[r].seen.version # row[req[r].product].version
       => \E w \in Requests : Winner(r, w)

RaceInv == IInv /\ \A r \in Requests : Overtaken(r)

\* What a step leaves of a request that is over, or has no part in it.
LEMMA WinnersStay ==
    ASSUME RaceInv, [Next]_vars, NEW w \in Requests, req[w].answer = "ok"
    PROVE  req'[w] = req[w]
  <1>1. req \in [Requests -> Request] /\ req[w].pc = "answered"
    BY DEF RaceInv, IInv, TypeOK, Overtaken
  <1>2. ASSUME NEW r \in Requests, ReceiveReserve(r) \/ ReceiveRelease(r) \/ Serve(r)
        PROVE  req[r].pc # "answered" /\ \E k : req' = [req EXCEPT ![r] = k]
    BY <1>2 DEF ReceiveReserve, ReceiveRelease, Receive, Serve, ProductNotFound, Load, Refuse,
                CommitReserve, CommitRelease, Conflict, Answer
  <1>3. CASE Restart
    BY <1>1, <1>3 DEF Restart
  <1> QED BY <1>1, <1>2, <1>3 DEF Next, vars

\* A request whose own state a step leaves alone, and whose row it leaves
\* alone or commits to.
LEMMA StillOvertaken ==
    ASSUME RaceInv, [Next]_vars, NEW r \in Requests, req'[r] = req[r],
           \/ req[r].pc # "loaded"
           \/ row'[req[r].product] = row[req[r].product]
           \/ \E w \in Requests : Winner(r, w)'
    PROVE  Overtaken(r)'
  <1>1. ASSUME NEW w \in Requests, Winner(r, w) PROVE Winner(r, w)'
    BY <1>1, WinnersStay DEF Winner
  <1> QED BY <1>1 DEF RaceInv, Overtaken

LEMMA ReceiveRaces ==
    ASSUME RaceInv, [Next]_vars, NEW r \in Requests, ReceiveReserve(r) \/ ReceiveRelease(r)
    PROVE  \A x \in Requests : Overtaken(x)'
  <1>1. PICK op, p, q, c : Receive(r, op, p, q, c)
    BY DEF ReceiveReserve, ReceiveRelease
  <1>2. /\ req'[r].pc = "received" /\ req'[r].answer = req[r].answer
        /\ req[r].pc = "idle" /\ row' = row
        /\ \A x \in Requests \ {r} : req'[x] = req[x]
    BY <1>1 DEF Receive, RaceInv, IInv, TypeOK, Request
  <1>3. Overtaken(r)'
    BY <1>2 DEF RaceInv, Overtaken
  <1> QED BY <1>2, <1>3, StillOvertaken

\* A request that is answered leaves its row alone or commits to it.
LEMMA AnswerRaces ==
    ASSUME RaceInv, [Next]_vars, NEW r \in Requests, NEW a \in Answers, Answer(r, a),
           req[r].pc # "idle",
           row' = row \/ (a = "ok" /\ \E k : row' = [row EXCEPT ![req[r].product] = k]),
           a = "conflict" => req[r].pc = "loaded" /\ ~Current(r)
    PROVE  \A x \in Requests : Overtaken(x)'
  <1>1. /\ req'[r].pc = "answered" /\ req'[r].answer = a /\ req'[r].product = req[r].product
        /\ \A x \in Requests \ {r} : req'[x] = req[x]
    BY DEF Answer, RaceInv, IInv, TypeOK, Request
  <1>2. Overtaken(r)'
    <2>1. ASSUME a = "conflict" PROVE \E w \in Requests : Winner(r, w)'
      <3>1. PICK w \in Requests : Winner(r, w)
        BY <2>1 DEF RaceInv, Overtaken, Current
      <3> QED BY <1>1, <3>1, WinnersStay DEF Winner
    <2> QED BY <1>1, <2>1 DEF Overtaken, Answers
  <1>3. ASSUME NEW x \in Requests \ {r} PROVE Overtaken(x)'
    <2>1. CASE row' = row \/ req[x].pc # "loaded"
      BY <1>1, <2>1, StillOvertaken
    <2>2. CASE req[x].pc = "loaded" /\ row' # row
      <3>1. PICK k : a = "ok" /\ row' = [row EXCEPT ![req[r].product] = k]
        BY <2>2
      <3>2. CASE req[x].product = req[r].product
        <4>1. Winner(x, r)'
          BY <1>1, <3>1, <3>2 DEF Winner
        <4> QED BY <1>1, <4>1, StillOvertaken
      <3>3. CASE req[x].product # req[r].product
        <4>1. row'[req[x].product] = row[req[x].product]
          BY <2>2, <3>1, <3>3 DEF RaceInv, IInv, TypeOK, SnapshotInv, Snapshot
        <4> QED BY <1>1, <4>1, StillOvertaken
      <3> QED BY <3>2, <3>3
    <2> QED BY <2>1, <2>2
  <1> QED BY <1>2, <1>3

LEMMA LoadRaces ==
    ASSUME RaceInv, [Next]_vars, NEW r \in Requests, Load(r)
    PROVE  \A x \in Requests : Overtaken(x)'
  <1>1. /\ req'[r].pc = "loaded" /\ req'[r].answer = req[r].answer
        /\ req'[r].product = req[r].product /\ req'[r].seen = row[req[r].product]
        /\ row' = row /\ req[r].pc = "received"
        /\ \A x \in Requests \ {r} : req'[x] = req[x]
    BY DEF Load, RaceInv, IInv, TypeOK, Request
  <1>2. Overtaken(r)'
    BY <1>1 DEF RaceInv, Overtaken
  <1> QED BY <1>1, <1>2, StillOvertaken

\* A restart breaks off what was under way: no version read outlives it.
LEMMA RestartRaces ==
    ASSUME RaceInv, [Next]_vars, NEW r \in Requests, Restart
    PROVE  Overtaken(r)'
  <1>1. CASE req[r].pc \in {"received", "loaded"}
    <2>1. req'[r].pc = "answered" /\ req'[r].answer = "lost"
      BY <1>1 DEF Restart, RaceInv, IInv, TypeOK, Request
    <2> QED BY <2>1 DEF Overtaken
  <1>2. CASE req[r].pc \notin {"received", "loaded"}
    <2>1. req'[r] = req[r]
      BY <1>2 DEF Restart
    <2> QED BY <1>2, <2>1, StillOvertaken
  <1> QED BY <1>1, <1>2

LEMMA RaceNext == RaceInv /\ [Next]_vars => RaceInv'
  <1> SUFFICES ASSUME RaceInv, [Next]_vars PROVE \A x \in Requests : Overtaken(x)'
    BY NextHolds DEF RaceInv
  <1>1. CASE UNCHANGED vars
    BY <1>1, StillOvertaken DEF vars
  <1>2. CASE Restart
    BY <1>2, RestartRaces
  <1>3. ASSUME NEW r \in Requests, ReceiveReserve(r) \/ ReceiveRelease(r)
        PROVE  \A x \in Requests : Overtaken(x)'
    BY <1>3, ReceiveRaces
  <1>4. ASSUME NEW r \in Requests, Load(r) PROVE \A x \in Requests : Overtaken(x)'
    BY <1>4, LoadRaces
  <1>5. ASSUME NEW r \in Requests, ProductNotFound(r) \/ Refuse(r) \/ Conflict(r)
        PROVE  \A x \in Requests : Overtaken(x)'
    BY <1>5, AnswerRaces DEF ProductNotFound, Refuse, Conflict, Answers
  <1>6. ASSUME NEW r \in Requests, CommitReserve(r) \/ CommitRelease(r)
        PROVE  \A x \in Requests : Overtaken(x)'
    <2>1. /\ Answer(r, "ok") /\ req[r].pc = "loaded"
          /\ \E k : row' = [row EXCEPT ![req[r].product] = k]
      BY <1>6 DEF CommitReserve, CommitRelease
    <2> QED BY <2>1, AnswerRaces DEF Answers
  <1> QED BY <1>1, <1>2, <1>3, <1>4, <1>5, <1>6 DEF Next, Serve

\* The optimistic lock refuses no request that could have been served: a
\* request is answered 500 only when another one on its product was answered
\* ok, restarts of the service included.
THEOREM ConflictsAreNotSpurious == Spec => []ConflictHasAWinner
  <1>1. Init => RaceInv
    <2> SUFFICES ASSUME Init, NEW r \in Requests PROVE Overtaken(r)
      BY InitHolds DEF RaceInv
    <2> QED BY DEF Init, Idle, Overtaken
  <1>2. RaceInv => ConflictHasAWinner
    <2> SUFFICES ASSUME RaceInv, NEW r \in Requests, req[r].answer = "conflict"
                 PROVE  \E w \in Requests \ {r} :
                            req[w].answer = "ok" /\ req[w].product = req[r].product
      BY DEF ConflictHasAWinner
    <2> QED BY DEF RaceInv, Overtaken, Winner
  <1> QED BY <1>1, <1>2, RaceNext, PTL DEF Spec

(***************************************************************************)
(* Sums over a finite set, as MapThenSumSet computes them.  Induction is by *)
(* the smallest set without the property: one exists among the subsets of  *)
(* a finite set.                                                           *)
(***************************************************************************)
LEMMA SmallestSubset ==
    ASSUME NEW S, IsFiniteSet(S), NEW T, T \subseteq SUBSET S, T # {}
    PROVE  \E U \in T : \A V \in T : ~(V \subseteq U /\ V # U)
  <1>1. T \subseteq FiniteSubsetsOf(S)
    BY FS_Subset DEF FiniteSubsetsOf
  <1>2. IsWellFoundedOn(StrictSubsetOrdering(S), FiniteSubsetsOf(S))
    BY FS_StrictSubsetOrderingWellFounded
  <1>3. PICK U \in T : \A V \in T : ~(<<V, U>> \in StrictSubsetOrdering(S))
    BY <1>1, <1>2, WFMin
  <1> QED BY <1>3 DEF StrictSubsetOrdering

Some(s) == CHOOSE x \in s : TRUE

Unfolds(g, f, S) ==
    g = [s \in SUBSET S |-> IF s = {} THEN 0 ELSE f[Some(s)] + g[s \ {Some(s)}]]

Total(f, S) == (CHOOSE g : Unfolds(g, f, S))[S]

\* The set without one of its elements.
LEMMA SomeFacts ==
    ASSUME NEW s, s # {}
    PROVE  /\ Some(s) \in s
           /\ s \ {Some(s)} \subseteq s /\ s \ {Some(s)} # s
  BY DEF Some

LEMMA UnfoldsAt ==
    ASSUME NEW f, NEW S, NEW g, Unfolds(g, f, S), NEW s, s \subseteq S
    PROVE  g[s] = IF s = {} THEN 0 ELSE f[Some(s)] + g[s \ {Some(s)}]
  BY DEF Unfolds

\* The sum of a set does not depend on the set it is a part of.
LEMMA SumsAgree ==
    ASSUME NEW f, NEW S, NEW T, IsFiniteSet(S), NEW g, NEW h,
           Unfolds(g, f, S), Unfolds(h, f, T), NEW s, s \subseteq S, s \subseteq T
    PROVE  g[s] = h[s]
  <1> DEFINE Bad == {u \in SUBSET (S \cap T) : g[u] # h[u]}
  <1> SUFFICES ASSUME Bad # {} PROVE FALSE
    OBVIOUS
  <1>2. PICK u \in Bad : \A v \in Bad : ~(v \subseteq u /\ v # u)
    <2>1. Bad \subseteq SUBSET S
      OBVIOUS
    <2> HIDE DEF Bad
    <2> QED BY <2>1, SmallestSubset
  <1>3. u \subseteq S /\ u \subseteq T /\ g[u] # h[u]
    OBVIOUS
  <1>4. /\ g[u] = IF u = {} THEN 0 ELSE f[Some(u)] + g[u \ {Some(u)}]
        /\ h[u] = IF u = {} THEN 0 ELSE f[Some(u)] + h[u \ {Some(u)}]
    <2> HIDE DEF Bad
    <2> QED BY <1>3, UnfoldsAt
  <1>5. u # {}
    BY <1>3, <1>4
  <1>6. g[u \ {Some(u)}] = h[u \ {Some(u)}]
    BY <1>2, <1>3, <1>5, SomeFacts
  <1> QED BY <1>3, <1>4, <1>5, <1>6

LEMMA SumsExist ==
    ASSUME NEW f, NEW S, IsFiniteSet(S)
    PROVE  \E g : Unfolds(g, f, S)
  <1> DEFINE Bad == {u \in SUBSET S : \A g : ~Unfolds(g, f, u)}
  <1> SUFFICES ASSUME Bad # {} PROVE FALSE
    OBVIOUS
  <1>1. PICK u \in Bad : \A v \in Bad : ~(v \subseteq u /\ v # u)
    <2>1. Bad \subseteq SUBSET S
      OBVIOUS
    <2> HIDE DEF Bad
    <2> QED BY <2>1, SmallestSubset
  <1>2. u \subseteq S /\ IsFiniteSet(u)
    BY FS_Subset
  <1> DEFINE h(v) == CHOOSE g : Unfolds(g, f, v)
             G == [s \in SUBSET u |-> IF s = {} THEN 0
                                      ELSE f[Some(s)] + h(s \ {Some(s)})[s \ {Some(s)}]]
  <1>3. ASSUME NEW v, v \subseteq u, v # u PROVE Unfolds(h(v), f, v)
    <2>1. v \in SUBSET S /\ v \notin Bad
      BY <1>1, <1>2, <1>3
    <2>2. \E g : Unfolds(g, f, v)
      BY <2>1
    <2> QED BY <2>2
  <1>4. ASSUME NEW v, v \subseteq u, v # u PROVE G[v] = h(v)[v]
    <2>1. Unfolds(h(v), f, v) /\ IsFiniteSet(v)
      BY <1>2, <1>3, <1>4, FS_Subset
    <2>2. h(v)[v] = IF v = {} THEN 0 ELSE f[Some(v)] + h(v)[v \ {Some(v)}]
      BY <2>1, UnfoldsAt
    <2>3. G[v] = IF v = {} THEN 0 ELSE f[Some(v)] + h(v \ {Some(v)})[v \ {Some(v)}]
      BY <1>4
    <2>4. ASSUME v # {} PROVE h(v)[v \ {Some(v)}] = h(v \ {Some(v)})[v \ {Some(v)}]
      <3> DEFINE w == v \ {Some(v)}
      <3>1. w \subseteq v /\ w \subseteq u /\ w # u
        BY <1>4, <2>4, SomeFacts
      <3>2. Unfolds(h(w), f, w)
        BY <1>3, <3>1
      <3> HIDE DEF w, h
      <3>3. h(v)[w] = h(w)[w]
        BY <2>1, <3>1, <3>2, SumsAgree
      <3> QED BY <3>3 DEF w
    <2> HIDE DEF G, h
    <2> QED BY <2>2, <2>3, <2>4
  <1>5. ASSUME NEW s \in SUBSET u, s # {}
        PROVE  h(s \ {Some(s)})[s \ {Some(s)}] = G[s \ {Some(s)}]
    <2>1. s \ {Some(s)} \subseteq u /\ s \ {Some(s)} # u
      BY <1>5, SomeFacts
    <2> HIDE DEF G, h
    <2> QED BY <1>4, <2>1
  <1>6. G = [s \in SUBSET u |-> IF s = {} THEN 0 ELSE f[Some(s)] + G[s \ {Some(s)}]]
    <2> HIDE DEF h
    <2>1. \A s \in SUBSET u : s # {} => h(s \ {Some(s)})[s \ {Some(s)}] = G[s \ {Some(s)}]
      BY <1>5
    <2>2. G = [s \in SUBSET u |-> IF s = {} THEN 0
                                  ELSE f[Some(s)] + h(s \ {Some(s)})[s \ {Some(s)}]]
      OBVIOUS
    <2> HIDE DEF G
    <2> QED BY <2>1, <2>2
  <1>7. Unfolds(G, f, u)
    <2> HIDE DEF G
    <2> QED BY <1>6 DEF Unfolds
  <1> QED BY <1>1, <1>7

LEMMA TotalUnfolds ==
    ASSUME NEW f, NEW S, IsFiniteSet(S)
    PROVE  Total(f, S) = IF S = {} THEN 0 ELSE f[Some(S)] + Total(f, S \ {Some(S)})
  <1> DEFINE h(v) == CHOOSE g : Unfolds(g, f, v)
             w == S \ {Some(S)}
  <1>1. IsFiniteSet(w) /\ w \subseteq S
    BY FS_Subset
  <1>2. Unfolds(h(S), f, S) /\ Unfolds(h(w), f, w)
    <2>1. (\E g : Unfolds(g, f, S)) /\ (\E g : Unfolds(g, f, w))
      BY <1>1, SumsExist
    <2> HIDE DEF w
    <2> QED BY <2>1
  <1> HIDE DEF h
  <1>3. h(S)[S] = IF S = {} THEN 0 ELSE f[Some(S)] + h(S)[w]
    <2>1. PICK k : k = h(S)
      OBVIOUS
    <2>2. Unfolds(k, f, S) /\ S \subseteq S
      BY <1>2, <2>1
    <2>3. k[S] = IF S = {} THEN 0 ELSE f[Some(S)] + k[S \ {Some(S)}]
      BY <2>2, UnfoldsAt
    <2> QED BY <2>1, <2>3
  <1>4. h(S)[w] = h(w)[w]
    <2> HIDE DEF w
    <2> QED BY <1>1, <1>2, SumsAgree
  <1> QED BY <1>3, <1>4 DEF Total, h

LEMMA TotalIsNat ==
    ASSUME NEW S, IsFiniteSet(S), NEW f \in [S -> Nat], NEW s \in SUBSET S
    PROVE  Total(f, s) \in Nat
  <1> DEFINE Bad == {u \in SUBSET S : Total(f, u) \notin Nat}
  <1> SUFFICES ASSUME Bad # {} PROVE FALSE
    OBVIOUS
  <1>1. PICK u \in Bad : \A v \in Bad : ~(v \subseteq u /\ v # u)
    <2>1. Bad \subseteq SUBSET S
      OBVIOUS
    <2> HIDE DEF Bad
    <2> QED BY <2>1, SmallestSubset
  <1>2. IsFiniteSet(u) /\ u \subseteq S /\ Total(f, u) \notin Nat
    BY FS_Subset
  <1>3. u # {}
    <2>1. Total(f, u) # 0
      BY <1>2
    <2> HIDE DEF Bad
    <2> QED BY <1>2, <2>1, TotalUnfolds
  <1>4. Some(u) \in u /\ u \ {Some(u)} \subseteq u /\ u \ {Some(u)} # u
    BY <1>3, SomeFacts
  <1>5. Total(f, u \ {Some(u)}) \in Nat /\ f[Some(u)] \in Nat
    BY <1>1, <1>2, <1>4
  <1> QED BY <1>2, <1>3, <1>5, TotalUnfolds

\* Whichever element is taken out.
LEMMA TotalOfOne ==
    ASSUME NEW S, IsFiniteSet(S), NEW f \in [S -> Nat], NEW s \in SUBSET S, NEW y \in s
    PROVE  Total(f, s) = f[y] + Total(f, s \ {y})
  <1> DEFINE Bad == {u \in SUBSET S : \E z \in u : Total(f, u) # f[z] + Total(f, u \ {z})}
  <1> SUFFICES ASSUME Bad # {} PROVE FALSE
    OBVIOUS
  <1>1. PICK u \in Bad : \A v \in Bad : ~(v \subseteq u /\ v # u)
    <2>1. Bad \subseteq SUBSET S
      OBVIOUS
    <2> HIDE DEF Bad
    <2> QED BY <2>1, SmallestSubset
  <1>2. PICK z \in u : Total(f, u) # f[z] + Total(f, u \ {z})
    OBVIOUS
  <1>3. u \subseteq S /\ IsFiniteSet(u)
    BY FS_Subset
  <1>4. PICK x : x = Some(u)
    OBVIOUS
  <1>5. x \in u /\ Total(f, u) = f[x] + Total(f, u \ {x})
    BY <1>3, <1>4, SomeFacts, TotalUnfolds
  <1>6. x # z
    BY <1>2, <1>5
  <1>7. Total(f, u \ {x}) = f[z] + Total(f, (u \ {x}) \ {z})
    <2>1. u \ {x} \in SUBSET S /\ u \ {x} \notin Bad /\ z \in u \ {x}
      BY <1>1, <1>3, <1>5, <1>6
    <2> QED BY <2>1
  <1>8. Total(f, u \ {z}) = f[x] + Total(f, (u \ {z}) \ {x})
    <2>1. u \ {z} \in SUBSET S /\ u \ {z} \notin Bad /\ x \in u \ {z}
      BY <1>1, <1>3, <1>5, <1>6
    <2> QED BY <2>1
  <1>9. (u \ {x}) \ {z} = (u \ {z}) \ {x}
    OBVIOUS
  <1>10. PICK w \in SUBSET S : w = (u \ {z}) \ {x}
    BY <1>3
  <1>11. Total(f, w) \in Nat /\ f[x] \in Nat /\ f[z] \in Nat
    BY <1>3, <1>5, <1>10, TotalIsNat
  <1>12. Total(f, u) = f[x] + (f[z] + Total(f, w)) /\ Total(f, u \ {z}) = f[x] + Total(f, w)
    BY <1>5, <1>7, <1>8, <1>9, <1>10
  <1> HIDE DEF Bad
  <1> QED BY <1>2, <1>11, <1>12

\* The sum depends on the values of the elements only.
LEMMA TotalSame ==
    ASSUME NEW S, IsFiniteSet(S), NEW f, NEW g, \A x \in S : f[x] = g[x]
    PROVE  Total(f, S) = Total(g, S)
  <1> DEFINE Bad == {u \in SUBSET S : Total(f, u) # Total(g, u)}
  <1> SUFFICES ASSUME Bad # {} PROVE FALSE
    OBVIOUS
  <1>1. PICK u \in Bad : \A v \in Bad : ~(v \subseteq u /\ v # u)
    <2>1. Bad \subseteq SUBSET S
      OBVIOUS
    <2> HIDE DEF Bad
    <2> QED BY <2>1, SmallestSubset
  <1>2. u \subseteq S /\ IsFiniteSet(u) /\ Total(f, u) # Total(g, u)
    BY FS_Subset
  <1>3. u # {}
    BY <1>2, TotalUnfolds
  <1>4. PICK x : x = Some(u)
    OBVIOUS
  <1>5. x \in u /\ u \ {x} \subseteq u /\ u \ {x} # u
    BY <1>3, <1>4, SomeFacts
  <1>6. Total(f, u \ {x}) = Total(g, u \ {x}) /\ f[x] = g[x]
    BY <1>1, <1>2, <1>5
  <1> QED BY <1>2, <1>3, <1>4, <1>6, TotalUnfolds

(***************************************************************************)
(* Clients that release only what they were granted, once, of a service    *)
(* that is not restarted.                                                  *)
(***************************************************************************)
Orderly == Matched /\ ~MayRestart /\ IsFiniteSet(Requests) /\ "none" \notin Requests

\* The reservations Promised adds up, and their quantities.
Held(p) ==
    {c \in Requests :
        /\ req[c].op = "reserve" /\ req[c].answer = "ok"
        /\ req[c].product = p
        /\ \A r \in Requests : req[r].undoes = c => req[r].answer # "ok"}

Units == [c \in Requests |-> req[c].qty]

PromisesAddUp == \A p \in Products : Promised(p) = Total(Units, Held(p))

\* A release gives back a reservation that was granted, and the same units; no
\* other release names it.
Undoing(r) ==
    /\ req[r].op = "release" => req[r].undoes \in Requests
    /\ req[r].undoes \in Requests =>
          /\ req[r].op = "release"
          /\ req[req[r].undoes].op = "reserve" /\ req[req[r].undoes].answer = "ok"
          /\ req[req[r].undoes].product = req[r].product
          /\ req[req[r].undoes].qty = req[r].qty
          /\ \A x \in Requests \ {r} : req[x].undoes # req[r].undoes

Kept(p) ==
    /\ row[p].reserved = Total(Units, Held(p))
    /\ row[p].available + row[p].reserved = Seed[p]

MatchInv == RaceInv /\ (\A r \in Requests : Undoing(r)) /\ \A p \in Products : Kept(p)

LEMMA PromisedIsTotal == PromisesAddUp
  <1> SUFFICES ASSUME NEW p \in Products PROVE Promised(p) = Total(Units, Held(p))
    BY DEF PromisesAddUp
  <1>1. PICK H : H = Held(p)
    OBVIOUS
  <1>2. PICK f : f = Units
    OBVIOUS
  <1> DEFINE Folds(g) == g = [s \in SUBSET H |->
                                 IF s = {} THEN 0
                                 ELSE LET x == CHOOSE x \in s : TRUE
                                      IN  req[x].qty + g[s \ {x}]]
             Adds(g) == Unfolds(g, f, H)
  <1>3. Promised(p) = (CHOOSE g : Folds(g))[H]
    BY <1>1, Zenon DEF Promised, Held, MapThenSumSet, MapThenFoldSet
  <1>4. ASSUME NEW s \in SUBSET H, s # {} PROVE f[Some(s)] = req[Some(s)].qty
    BY <1>1, <1>2, <1>4, SomeFacts DEF Units, Held
  <1>5. ASSUME NEW g PROVE Folds(g) <=> Adds(g)
    BY <1>4 DEF Unfolds, Some
  <1> HIDE DEF Folds, Adds
  <1>6. (CHOOSE g : Folds(g)) = (CHOOSE g : Adds(g))
    BY <1>5, Zenon
  <1> QED BY <1>1, <1>2, <1>3, <1>6 DEF Adds, Total

LEMMA HeldFacts ==
    ASSUME Orderly, IInv, NEW p
    PROVE  /\ Held(p) \subseteq Requests /\ IsFiniteSet(Held(p))
           /\ Units \in [Requests -> Nat]
  <1>1. Held(p) \subseteq Requests
    BY DEF Held
  <1>2. Units \in [Requests -> Nat]
    BY MaxQtyAssumption DEF Units, IInv, TypeOK, Request
  <1> QED BY <1>1, <1>2, FS_Subset DEF Orderly

\* A product whose reservations a step leaves alone.
LEMMA HeldStays ==
    ASSUME Orderly, IInv, NEW p \in Products, Kept(p),
           Held(p)' = Held(p), \A c \in Held(p) : req'[c] = req[c],
           row'[p] = row[p]
    PROVE  Kept(p)'
  <1>1. PICK H : H = Held(p)
    OBVIOUS
  <1>2. PICK f : f = Units
    OBVIOUS
  <1>3. PICK g : g = Units'
    OBVIOUS
  <1>4. \A c \in H : f[c] = g[c]
    BY <1>1, <1>2, <1>3 DEF Units, Held
  <1>5. Total(f, H) = Total(g, H)
    BY <1>1, <1>4, HeldFacts, TotalSame
  <1> QED BY <1>1, <1>2, <1>3, <1>5 DEF Kept

\* Nobody has been granted anything new, and nobody has given anything back.
LEMMA NothingGranted ==
    ASSUME Orderly, MatchInv, NEW r \in Requests, NEW k, req' = [req EXCEPT ![r] = k],
           req[r].answer # "ok", k.answer # "ok", row' = row,
           NEW p \in Products
    PROVE  Kept(p)'
  <1>1. \A x \in Requests \ {r} : req'[x] = req[x]
    BY DEF MatchInv, RaceInv, IInv, TypeOK
  <1>2. req'[r].answer # "ok"
    BY DEF MatchInv, RaceInv, IInv, TypeOK
  <1>3. \A c \in Held(p) : c # r /\ req'[c] = req[c]
    BY <1>1 DEF Held
  <1>4. Held(p)' = Held(p)
    BY <1>1, <1>2 DEF Held
  <1> QED BY <1>3, <1>4, HeldStays DEF MatchInv, RaceInv

\* A reservation is granted: one more is held, and its units are reserved.
LEMMA GrantIsKept ==
    ASSUME Orderly, MatchInv, NEW r \in Requests, CommitReserve(r), NEW p \in Products
    PROVE  Kept(p)'
  <1>0. /\ IInv /\ Kept(p) /\ req \in [Requests -> Request] /\ row \in [Products -> Row]
        /\ \A x \in Requests : Undoing(x) /\ Overtaken(x)
    BY DEF MatchInv, RaceInv, IInv, TypeOK
  <1>1. PICK q : q = req[r].qty
    OBVIOUS
  <1>2. PICK o : o = req[r].product
    OBVIOUS
  <1>3. /\ o \in Products /\ q \in Quantities /\ row[o] \in Row /\ q <= row[o].available
        /\ row' = [row EXCEPT ![o] = Reserved(row[o], q)]
        /\ req[r].pc = "loaded" /\ req[r].op = "reserve" /\ Answer(r, "ok")
    BY <1>0, <1>1, <1>2, CommitReadsCurrent DEF CommitReserve, Fits
  <1>4. /\ \A x \in Requests \ {r} : req'[x] = req[x]
        /\ req'[r].answer = "ok" /\ req'[r].op = "reserve" /\ req'[r].product = o
        /\ req'[r].qty = q /\ req'[r].undoes = req[r].undoes
        /\ req[r].answer # "ok"
    BY <1>0, <1>1, <1>2, <1>3 DEF Answer, Request, Overtaken
  <1>5. \A x \in Requests : req[x].undoes # r /\ req'[x].undoes # r
    BY <1>0, <1>4 DEF Undoing
  <1>6. req[r].undoes \notin Requests
    BY <1>0, <1>3 DEF Undoing
  <1>7. CASE p # o
    <2>1. r \notin Held(p) /\ r \notin Held(p)'
      BY <1>2, <1>4, <1>7 DEF Held
    <2>2. Held(p)' = Held(p)
      BY <1>4, <1>6, <2>1 DEF Held
    <2>3. row'[p] = row[p]
      BY <1>0, <1>3, <1>7
    <2>4. \A c \in Held(p) : req'[c] = req[c]
      BY <1>4, <2>1 DEF Held
    <2> QED BY <1>0, <2>2, <2>3, <2>4, HeldStays
  <1>8. CASE p = o
    <2>1. PICK H : H = Held(p)
      OBVIOUS
    <2>2. PICK f : f = Units
      OBVIOUS
    <2>3. PICK g : g = Units'
      OBVIOUS
    <2>4. r \notin H /\ Held(p)' = H \cup {r}
      BY <1>4, <1>5, <1>6, <1>8, <2>1 DEF Held
    <2>5. /\ H \subseteq Requests /\ IsFiniteSet(H) /\ IsFiniteSet(Requests)
          /\ f \in [Requests -> Nat] /\ g \in [Requests -> Nat]
      <3>1. g = [f EXCEPT ![r] = q]
        BY <1>1, <1>4, <2>2, <2>3 DEF Units
      <3>2. q \in Nat
        BY <1>3, MaxQtyAssumption DEF Quantities
      <3> QED BY <1>0, <2>1, <2>2, <3>1, <3>2, HeldFacts DEF Orderly
    <2>6. Total(f, H) = Total(g, H)
      <3>1. \A c \in H : f[c] = g[c]
        BY <1>4, <2>1, <2>2, <2>3, <2>4 DEF Units, Held
      <3> QED BY <2>5, <3>1, TotalSame
    <2>7. Total(g, H \cup {r}) = q + Total(g, H)
      <3>1. PICK s \in SUBSET Requests : s = H \cup {r}
        BY <2>5
      <3>2. Total(g, s) = g[r] + Total(g, s \ {r})
        BY <2>5, <3>1, TotalOfOne
      <3>3. s \ {r} = H /\ g[r] = q
        BY <1>4, <2>3, <2>4, <3>1 DEF Units
      <3> QED BY <3>1, <3>2, <3>3
    <2>8. row[p].reserved = Total(f, H) /\ row[p].available + row[p].reserved = Seed[p]
      BY <1>0, <2>1, <2>2 DEF Kept
    <2>9. /\ row'[p].reserved = row[p].reserved + q
          /\ row'[p].available = row[p].available - q
          /\ row[p].reserved \in Nat /\ row[p].available \in Nat /\ q \in Nat
      BY <1>0, <1>3, <1>8, MaxQtyAssumption DEF Reserved, Row, Quantities
    <2>10. /\ row'[p].reserved = Total(g, H \cup {r})
           /\ row'[p].available + row'[p].reserved = Seed[p]
      BY <2>6, <2>7, <2>8, <2>9
    <2> QED BY <2>3, <2>4, <2>10 DEF Kept
  <1> QED BY <1>7, <1>8

\* A release is served: one reservation less is held.  It was held until then,
\* so the reserved quantity covers it and the floor of release is not reached.
LEMMA ReturnIsKept ==
    ASSUME Orderly, MatchInv, NEW r \in Requests, CommitRelease(r), NEW p \in Products
    PROVE  Kept(p)'
  <1>0. /\ IInv /\ Kept(p) /\ req \in [Requests -> Request] /\ row \in [Products -> Row]
        /\ \A x \in Requests : Undoing(x) /\ Overtaken(x)
    BY DEF MatchInv, RaceInv, IInv, TypeOK
  <1>1. PICK q : q = req[r].qty
    OBVIOUS
  <1>2. PICK o : o = req[r].product
    OBVIOUS
  <1>3. /\ o \in Products /\ q \in Quantities /\ row[o] \in Row
        /\ row' = [row EXCEPT ![o] = Released(row[o], q)]
        /\ req[r].pc = "loaded" /\ req[r].op = "release" /\ Answer(r, "ok")
    BY <1>0, <1>1, <1>2, CommitReadsCurrent DEF CommitRelease
  <1>4. /\ \A x \in Requests \ {r} : req'[x] = req[x]
        /\ req'[r].answer = "ok" /\ req'[r].op = "release"
        /\ req'[r].undoes = req[r].undoes
        /\ req[r].answer # "ok"
    BY <1>0, <1>3 DEF Answer, Request, Overtaken
  <1>5. PICK c \in Requests : c = req[r].undoes
    BY <1>0, <1>3 DEF Undoing
  <1>6. /\ c # r /\ req[c].op = "reserve" /\ req[c].answer = "ok" /\ req[c].product = o
        /\ req[c].qty = q /\ \A x \in Requests \ {r} : req[x].undoes # c
    BY <1>0, <1>1, <1>2, <1>3, <1>5 DEF Undoing
  <1>7. Held(p)' = Held(p) \ {c}
    BY <1>4, <1>5, <1>6 DEF Held
  <1>8. c \in Held(p) <=> p = o
    BY <1>4, <1>5, <1>6 DEF Held
  <1>9. \A x \in Held(p) : req'[x] = req[x]
    BY <1>3, <1>4 DEF Held
  <1>10. CASE p # o
    <2>1. row'[p] = row[p]
      BY <1>0, <1>3, <1>10
    <2>2. Held(p)' = Held(p)
      BY <1>7, <1>8, <1>10
    <2> QED BY <1>0, <1>9, <2>1, <2>2, HeldStays
  <1>11. CASE p = o
    <2>1. PICK H : H = Held(p)
      OBVIOUS
    <2>2. PICK f : f = Units
      OBVIOUS
    <2>3. PICK g : g = Units'
      OBVIOUS
    <2>4. /\ H \subseteq Requests /\ IsFiniteSet(H) /\ IsFiniteSet(Requests)
          /\ f \in [Requests -> Nat] /\ IsFiniteSet(H \ {c}) /\ H \ {c} \subseteq Requests
      BY <1>0, <2>1, <2>2, HeldFacts, FS_Subset DEF Orderly
    <2>5. Total(f, H \ {c}) = Total(g, H \ {c})
      <3>1. \A x \in H \ {c} : f[x] = g[x]
        BY <1>9, <2>1, <2>2, <2>3 DEF Units, Held
      <3> QED BY <2>4, <3>1, TotalSame
    <2>6. Total(f, H) = q + Total(f, H \ {c}) /\ Total(f, H \ {c}) \in Nat
      <3>1. c \in H /\ f[c] = q
        BY <1>6, <1>8, <1>11, <2>1, <2>2 DEF Units
      <3> QED BY <2>4, <3>1, TotalOfOne, TotalIsNat
    <2>7. row[p].reserved = Total(f, H) /\ row[p].available + row[p].reserved = Seed[p]
      BY <1>0, <2>1, <2>2 DEF Kept
    <2>8. row[p].reserved \in Nat /\ row[p].available \in Nat /\ q \in Nat /\ Seed[p] \in Nat
      BY <1>3, <1>11, MaxQtyAssumption, SeedAssumption DEF Row, Quantities
    <2>9. q <= row[p].reserved
      BY <2>6, <2>7, <2>8
    <2>10. /\ row'[p].reserved = row[p].reserved - q
           /\ row'[p].available = row[p].available + q
      BY <1>0, <1>3, <1>11, <2>9 DEF Released
    <2>11. /\ row'[p].reserved = Total(g, H \ {c})
           /\ row'[p].available + row'[p].reserved = Seed[p]
      BY <2>5, <2>6, <2>7, <2>8, <2>10
    <2> QED BY <1>7, <2>1, <2>3, <2>11 DEF Kept
  <1> QED BY <1>10, <1>11

\* A step that answers or serves a request changes nothing it asks for.
LEMMA UndoingStays ==
    ASSUME Orderly, MatchInv, [Next]_vars,
           \A x \in Requests : /\ req'[x].op = req[x].op /\ req'[x].undoes = req[x].undoes
                               /\ req'[x].product = req[x].product /\ req'[x].qty = req[x].qty,
           NEW r \in Requests
    PROVE  Undoing(r)'
  <1>1. Undoing(r) /\ RaceInv
    BY DEF MatchInv
  <1>2. req[r].undoes \in Requests => req'[req[r].undoes] = req[req[r].undoes]
    BY <1>1, WinnersStay DEF Undoing
  <1> QED BY <1>1, <1>2 DEF Undoing

LEMMA ReceiveReserveUndoes ==
    ASSUME Orderly, MatchInv, NEW r \in Requests, ReceiveReserve(r), NEW x \in Requests
    PROVE  Undoing(x)'
  <1>1. PICK p \in ProductIds, q \in Quantities : Receive(r, "reserve", p, q, "none")
    BY DEF ReceiveReserve
  <1>2. /\ req'[r].op = "reserve" /\ req'[r].undoes = "none"
        /\ \A y \in Requests \ {r} : req'[y] = req[y]
    BY <1>1 DEF Receive, MatchInv, RaceInv, IInv, TypeOK, Request
  <1>3. req[r].answer = "none" /\ \A y \in Requests : Undoing(y)
    BY <1>1 DEF Receive, MatchInv, RaceInv, Overtaken
  <1> QED BY <1>2, <1>3 DEF Undoing, Orderly

LEMMA ReceiveReleaseUndoes ==
    ASSUME Orderly, MatchInv, NEW r \in Requests, ReceiveRelease(r), NEW x \in Requests
    PROVE  Undoing(x)'
  <1>1. PICK c \in Claims : Receive(r, "release", req[c].product, req[c].qty, c)
    BY DEF ReceiveRelease, Orderly
  <1>2. /\ req'[r].op = "release" /\ req'[r].undoes = c
        /\ req'[r].product = req[c].product /\ req'[r].qty = req[c].qty
        /\ \A y \in Requests \ {r} : req'[y] = req[y]
    BY <1>1 DEF Receive, MatchInv, RaceInv, IInv, TypeOK, Request
  <1>3. req[r].answer = "none" /\ \A y \in Requests : Undoing(y)
    BY <1>1 DEF Receive, MatchInv, RaceInv, Overtaken
  <1>4. /\ c \in Requests /\ c # r /\ req[c].op = "reserve" /\ req[c].answer = "ok"
        /\ \A y \in Requests : req[y].undoes # c
    BY <1>3 DEF Claims
  <1>5. CASE x = r
    BY <1>2, <1>4, <1>5 DEF Undoing
  <1>6. CASE x # r
    BY <1>2, <1>3, <1>4, <1>6 DEF Undoing
  <1> QED BY <1>5, <1>6

\* The steps that grant nothing and take nothing back.
LEMMA QuietStep ==
    ASSUME MatchInv, NEW r \in Requests,
           \/ ReceiveReserve(r) \/ ReceiveRelease(r)
           \/ ProductNotFound(r) \/ Load(r) \/ Refuse(r) \/ Conflict(r)
    PROVE  /\ row' = row /\ req[r].answer # "ok"
           /\ \E k : req' = [req EXCEPT ![r] = k] /\ k.answer # "ok"
  <1>1. req[r] \in Request /\ Overtaken(r)
    BY DEF MatchInv, RaceInv, IInv, TypeOK
  <1>2. CASE ReceiveReserve(r) \/ ReceiveRelease(r)
    <2>1. PICK op, p, q, c : Receive(r, op, p, q, c)
      BY <1>2 DEF ReceiveReserve, ReceiveRelease
    <2> DEFINE k == [req[r] EXCEPT !.pc = "received", !.op = op, !.product = p,
                                   !.qty = q, !.undoes = c]
    <2>2. req' = [req EXCEPT ![r] = k] /\ row' = row /\ req[r].answer = "none"
      BY <1>1, <2>1 DEF Receive, Overtaken
    <2>3. k.answer = req[r].answer
      BY <1>1 DEF Request
    <2> HIDE DEF k
    <2> QED BY <2>2, <2>3
  <1>3. CASE ProductNotFound(r) \/ Refuse(r) \/ Conflict(r)
    <2>1. PICK a \in {"not_found", "insufficient", "conflict"} : Answer(r, a)
      BY <1>3 DEF ProductNotFound, Refuse, Conflict
    <2> DEFINE k == [req[r] EXCEPT !.pc = "answered", !.answer = a]
    <2>2. req' = [req EXCEPT ![r] = k] /\ row' = row /\ req[r].answer = "none"
      BY <1>1, <1>3, <2>1 DEF Answer, Overtaken, ProductNotFound, Refuse, Conflict
    <2>3. k.answer = a
      BY <1>1 DEF Request
    <2> HIDE DEF k
    <2> QED BY <2>2, <2>3
  <1>4. CASE Load(r)
    <2> DEFINE k == [req[r] EXCEPT !.pc = "loaded", !.seen = row[req[r].product]]
    <2>2. req' = [req EXCEPT ![r] = k] /\ row' = row /\ req[r].answer = "none"
      BY <1>1, <1>4 DEF Load, Overtaken
    <2>3. k.answer = req[r].answer
      BY <1>1 DEF Request
    <2> HIDE DEF k
    <2> QED BY <2>2, <2>3
  <1> QED BY <1>2, <1>3, <1>4

LEMMA KeptNext ==
    ASSUME Orderly, MatchInv, [Next]_vars, NEW p \in Products
    PROVE  Kept(p)'
  <1>1. CASE UNCHANGED vars
    <2>1. Held(p)' = Held(p) /\ req' = req /\ row' = row
      BY <1>1 DEF vars, Held
    <2> QED BY <2>1, HeldStays DEF MatchInv, RaceInv
  <1>2. ASSUME NEW r \in Requests, CommitReserve(r) PROVE Kept(p)'
    BY <1>2, GrantIsKept
  <1>3. ASSUME NEW r \in Requests, CommitRelease(r) PROVE Kept(p)'
    BY <1>3, ReturnIsKept
  <1>4. ASSUME NEW r \in Requests,
               \/ ReceiveReserve(r) \/ ReceiveRelease(r)
               \/ ProductNotFound(r) \/ Load(r) \/ Refuse(r) \/ Conflict(r)
        PROVE  Kept(p)'
    <2>1. PICK k : req' = [req EXCEPT ![r] = k] /\ k.answer # "ok"
      BY <1>4, QuietStep
    <2> QED BY <1>4, <2>1, QuietStep, NothingGranted
  <1>5. ~Restart
    BY DEF Restart, Orderly
  <1> QED BY <1>1, <1>2, <1>3, <1>4, <1>5 DEF Next, Serve

LEMMA UndoingNext ==
    ASSUME Orderly, MatchInv, [Next]_vars, NEW x \in Requests
    PROVE  Undoing(x)'
  <1>1. CASE UNCHANGED vars
    BY <1>1, UndoingStays DEF vars
  <1>2. ASSUME NEW r \in Requests, ReceiveReserve(r) \/ ReceiveRelease(r) PROVE Undoing(x)'
    BY <1>2, ReceiveReserveUndoes, ReceiveReleaseUndoes
  <1>3. ASSUME NEW r \in Requests, Serve(r) PROVE Undoing(x)'
    <2>1. \/ \E a : Answer(r, a)
          \/ req' = [req EXCEPT ![r] = [@ EXCEPT !.pc = "loaded",
                                                 !.seen = row[req[r].product]]]
      BY <1>3 DEF Serve, ProductNotFound, Load, Refuse, CommitReserve, CommitRelease, Conflict
    <2>2. \A y \in Requests : /\ req'[y].op = req[y].op /\ req'[y].undoes = req[y].undoes
                              /\ req'[y].product = req[y].product /\ req'[y].qty = req[y].qty
      <3>0. req \in [Requests -> Request] /\ req[r] \in Request
        BY DEF MatchInv, RaceInv, IInv, TypeOK
      <3>1. \E k : /\ req' = [req EXCEPT ![r] = k] /\ k.op = req[r].op
                   /\ k.undoes = req[r].undoes /\ k.product = req[r].product
                   /\ k.qty = req[r].qty
        <4>1. ASSUME NEW a, Answer(r, a)
              PROVE  LET k == [req[r] EXCEPT !.pc = "answered", !.answer = a]
                     IN  /\ req' = [req EXCEPT ![r] = k] /\ k.op = req[r].op
                         /\ k.undoes = req[r].undoes /\ k.product = req[r].product
                         /\ k.qty = req[r].qty
          BY <3>0, <4>1 DEF Answer, Request
        <4> DEFINE l == [req[r] EXCEPT !.pc = "loaded", !.seen = row[req[r].product]]
        <4>2. /\ l.op = req[r].op /\ l.undoes = req[r].undoes
              /\ l.product = req[r].product /\ l.qty = req[r].qty
          BY <3>0 DEF Request
        <4>3. (\E a : Answer(r, a)) \/ req' = [req EXCEPT ![r] = l]
          BY <2>1
        <4> HIDE DEF l
        <4> QED BY <4>1, <4>2, <4>3
      <3> QED BY <3>0, <3>1
    <2> QED BY <2>2, UndoingStays
  <1>4. ~Restart
    BY DEF Restart, Orderly
  <1> QED BY <1>1, <1>2, <1>3, <1>4 DEF Next

\* Clients that release what they were granted, once, are never promised more
\* than there is, and the reserved quantity is exactly what they hold: the
\* optimistic lock keeps every update and the floor of release, which forgives
\* releases nobody is owed, is never reached.
THEOREM NothingIsOversold ==
    ASSUME Matched, ~MayRestart, IsFiniteSet(Requests), "none" \notin Requests
    PROVE  Spec => []NoOversell
  <1>1. Orderly
    BY DEF Orderly
  <1>2. Init => MatchInv
    <2> SUFFICES ASSUME Init PROVE MatchInv
      OBVIOUS
    <2>1. RaceInv
      BY InitHolds DEF RaceInv, Init, Idle, Overtaken
    <2>2. \A r \in Requests : Undoing(r)
      BY <1>1 DEF Init, Idle, Undoing, Orderly
    <2>3. ASSUME NEW p \in Products PROVE Kept(p)
      <3>1. Held(p) = {}
        BY DEF Held, Init, Idle
      <3>2. PICK f : f = Units
        OBVIOUS
      <3>3. Total(f, {}) = 0
        BY FS_EmptySet, TotalUnfolds
      <3>4. row[p].reserved = 0 /\ row[p].available = Seed[p] /\ Seed[p] \in Nat
        BY SeedAssumption DEF Init, SeedRow
      <3> QED BY <3>1, <3>2, <3>3, <3>4 DEF Kept
    <2> QED BY <2>1, <2>2, <2>3 DEF MatchInv
  <1>3. MatchInv /\ [Next]_vars => MatchInv'
    BY <1>1, RaceNext, UndoingNext, KeptNext DEF MatchInv
  <1>4. MatchInv /\ PromisesAddUp => NoOversell
    <2> SUFFICES ASSUME MatchInv, PromisesAddUp, NEW p \in Products
                 PROVE  /\ Promised(p) <= Seed[p]
                        /\ row[p].reserved = Promised(p)
                        /\ row[p].available = Seed[p] - Promised(p)
      BY DEF NoOversell
    <2>1. /\ row[p].reserved = Promised(p)
          /\ row[p].available + row[p].reserved = Seed[p]
      BY DEF MatchInv, Kept, PromisesAddUp
    <2>2. row[p].reserved \in Nat /\ row[p].available \in Nat /\ Seed[p] \in Nat
      BY SeedAssumption DEF MatchInv, RaceInv, IInv, TypeOK, Row
    <2> QED BY <2>1, <2>2
  <1> QED BY <1>2, <1>3, <1>4, PromisedIsTotal, PTL DEF Spec

=============================================================================
