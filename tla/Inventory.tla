------------------------------ MODULE Inventory ------------------------------
(***************************************************************************)
(* The inventory service (rest-services/inventory-service): concurrent     *)
(* POST requests that reserve or release stock, each one transaction that  *)
(* reads a product row, computes the new quantities from what it read and  *)
(* commits them under the optimistic lock of Product.version.              *)
(***************************************************************************)
EXTENDS Integers, FiniteSetsExt

CONSTANTS
    Products,     \* the products of data.sql
    ProductIds,   \* the product ids requests may name
    Seed,         \* the quantity each product is seeded with
    MaxQty,       \* the largest quantity of a request
    Requests,     \* the requests, each served once by a thread of its own
    Matched,      \* clients only release what a reservation got them
    MayRestart    \* the service may be restarted

ASSUME ProductsAssumption == Products \subseteq ProductIds
ASSUME SeedAssumption == Seed \in [Products -> Nat]
ASSUME MaxQtyAssumption == MaxQty \in Nat \ {0}
ASSUME ModesAssumption == Matched \in BOOLEAN /\ MayRestart \in BOOLEAN

Quantities == 1 .. MaxQty

Row == [available: Nat, reserved: Nat, version: Nat]

SeedRow(p) == [available |-> Seed[p], reserved |-> 0, version |-> 0]

NoRow == [available |-> 0, reserved |-> 0, version |-> 0]

Answers == {"ok", "insufficient", "conflict", "not_found", "lost"}

\* A request: what it asks, the row its transaction read, the answer it got.
Request ==
    [pc: {"idle", "received", "loaded", "answered"},
     op: {"none", "reserve", "release"},
     product: ProductIds \cup {"none"},
     qty: 0 .. MaxQty,
     undoes: Requests \cup {"none"},    \* the reservation a release gives back
     seen: Row,
     answer: Answers \cup {"none"}]

Idle == [pc |-> "idle", op |-> "none", product |-> "none", qty |-> 0,
         undoes |-> "none", seen |-> NoRow, answer |-> "none"]

VARIABLES
    row,        \* the committed row of each product
    req,        \* the progress of each request
    granted,    \* units whose reservation was answered ok, since the restart
    returned    \* units whose release was answered ok, since the restart

vars == <<row, req, granted, returned>>

Init ==
    /\ row = [p \in Products |-> SeedRow(p)]
    /\ req = [r \in Requests |-> Idle]
    /\ granted = [p \in Products |-> 0]
    /\ returned = [p \in Products |-> 0]

(***************************************************************************)
(* The controller: a request arrives and passes bean validation.           *)
(***************************************************************************)
\* Reservations the client was granted and has not asked to release.
Claims ==
    {c \in Requests :
        /\ req[c].op = "reserve" /\ req[c].answer = "ok"
        /\ \A r \in Requests : req[r].undoes # c}

Receive(r, op, p, q, c) ==
    /\ req[r].pc = "idle"
    /\ req' = [req EXCEPT ![r] = [@ EXCEPT !.pc = "received", !.op = op, !.product = p,
                                          !.qty = q, !.undoes = c]]
    /\ UNCHANGED <<row, granted, returned>>

ReceiveReserve(r) ==
    \E p \in ProductIds, q \in Quantities : Receive(r, "reserve", p, q, "none")

ReceiveRelease(r) ==
    IF Matched
    THEN \E c \in Claims : Receive(r, "release", req[c].product, req[c].qty, c)
    ELSE \E p \in ProductIds, q \in Quantities : Receive(r, "release", p, q, "none")

(***************************************************************************)
(* The transaction of reserve and of release.                              *)
(***************************************************************************)
Answer(r, answer) ==
    req' = [req EXCEPT ![r] = [@ EXCEPT !.pc = "answered", !.answer = answer]]

ProductNotFound(r) ==
    /\ req[r].pc = "received"
    /\ req[r].product \notin Products
    /\ Answer(r, "not_found")
    /\ UNCHANGED <<row, granted, returned>>

\* Variant: reading the row already increments its version.
LoadIncrements(r) ==
    /\ req[r].pc = "received"
    /\ req[r].product \in Products
    /\ row' = [row EXCEPT ![req[r].product].version = @ + 1]
    /\ req' = [req EXCEPT ![r] = [@ EXCEPT !.pc = "loaded", !.seen = row'[req[r].product]]]
    /\ UNCHANGED <<granted, returned>>

Load(r) ==
    /\ req[r].pc = "received"
    /\ req[r].product \in Products
    /\ req' = [req EXCEPT ![r] = [@ EXCEPT !.pc = "loaded", !.seen = row[req[r].product]]]
    /\ UNCHANGED <<row, granted, returned>>

\* Variant: the stock check is off by one.
FitsOneMore(seen, q) == q <= seen.available + 1

Fits(seen, q) == q <= seen.available

Refuse(r) ==
    /\ req[r].pc = "loaded" /\ req[r].op = "reserve"
    /\ ~Fits(req[r].seen, req[r].qty)
    /\ Answer(r, "insufficient")
    /\ UNCHANGED <<row, granted, returned>>

\* Variant: the product has no version to check.
CurrentAlways(r) == TRUE

\* The update's WHERE clause: nobody committed the row since it was read.
Current(r) == row[req[r].product].version = req[r].seen.version

Reserved(seen, q) ==
    [available |-> seen.available - q, reserved |-> seen.reserved + q,
     version |-> seen.version + 1]

\* Variants: no floor under the reserved quantity; units given back twice.
ReleasedBelowZero(seen, q) ==
    [available |-> seen.available + q, reserved |-> seen.reserved - q,
     version |-> seen.version + 1]
ReleasedKeepsReserved(seen, q) ==
    [available |-> seen.available + q, reserved |-> seen.reserved,
     version |-> seen.version + 1]

Released(seen, q) ==
    [available |-> seen.available + q,
     reserved |-> IF q <= seen.reserved THEN seen.reserved - q ELSE 0,
     version |-> seen.version + 1]

CommitReserve(r) ==
    LET p == req[r].product
        q == req[r].qty
    IN  /\ req[r].pc = "loaded" /\ req[r].op = "reserve"
        /\ Fits(req[r].seen, q)
        /\ Current(r)
        /\ row' = [row EXCEPT ![p] = Reserved(req[r].seen, q)]
        /\ granted' = [granted EXCEPT ![p] = @ + q]
        /\ Answer(r, "ok")
        /\ UNCHANGED returned

CommitRelease(r) ==
    LET p == req[r].product
        q == req[r].qty
    IN  /\ req[r].pc = "loaded" /\ req[r].op = "release"
        /\ Current(r)
        /\ row' = [row EXCEPT ![p] = Released(req[r].seen, q)]
        /\ returned' = [returned EXCEPT ![p] = @ + q]
        /\ Answer(r, "ok")
        /\ UNCHANGED granted

\* Variant: a request that lost the race waits for ever.
ConflictWaits(r) == req[r].pc = "loaded" /\ ~Current(r) /\ UNCHANGED vars

\* The row has moved on: the optimistic lock fails the transaction, which the
\* catch-all handler answers with 500.
Conflict(r) ==
    /\ req[r].pc = "loaded"
    /\ req[r].op = "reserve" => Fits(req[r].seen, req[r].qty)
    /\ ~Current(r)
    /\ Answer(r, "conflict")
    /\ UNCHANGED <<row, granted, returned>>

\* The service stops and starts: the in-memory database is seeded anew, and
\* what was under way is never answered.
Restart ==
    /\ MayRestart
    /\ row' = [p \in Products |-> SeedRow(p)]
    /\ req' = [r \in Requests |->
                  IF req[r].pc \in {"received", "loaded"}
                  THEN [req[r] EXCEPT !.pc = "answered", !.answer = "lost"]
                  ELSE req[r]]
    /\ granted' = [p \in Products |-> 0]
    /\ returned' = [p \in Products |-> 0]

Serve(r) ==
    \/ ProductNotFound(r) \/ Load(r) \/ Refuse(r)
    \/ CommitReserve(r) \/ CommitRelease(r) \/ Conflict(r)

Next ==
    \/ \E r \in Requests : ReceiveReserve(r) \/ ReceiveRelease(r) \/ Serve(r)
    \/ Restart

Spec == Init /\ [][Next]_vars

\* Every thread of the server gets to run.
FairSpec == Spec /\ \A r \in Requests : WF_vars(Serve(r))

(***************************************************************************)
(* Properties.                                                             *)
(***************************************************************************)
TypeOK ==
    /\ row \in [Products -> Row]
    /\ req \in [Requests -> Request]
    /\ granted \in [Products -> Nat]
    /\ returned \in [Products -> Nat]

\* No update is lost: the units on hand are those seeded, less those the
\* service told clients it reserved, plus those it told them it released,
\* however the transactions interleave (Product.version).
BooksBalance ==
    \A p \in Products :
        /\ row[p].available + granted[p] = Seed[p] + returned[p]
        /\ row[p].reserved + returned[p] >= granted[p]

\* Serving requests concurrently looks like serving them one at a time.
Ledger == INSTANCE StockLedger WITH
             available <- [p \in Products |-> row[p].available],
             reserved <- [p \in Products |-> row[p].reserved]

ImplementsLedger == Ledger!LedgerSpec

\* A conflict is never spurious: a request is answered 500 only because
\* another one on the same product was answered ok.
ConflictHasAWinner ==
    \A r \in Requests :
        req[r].answer = "conflict" =>
            \E w \in Requests \ {r} :
                req[w].answer = "ok" /\ req[w].product = req[r].product

\* The units promised to clients: granted, and not yet taken back by a release.
Promised(p) ==
    LET held == {c \in Requests :
                   /\ req[c].op = "reserve" /\ req[c].answer = "ok"
                   /\ req[c].product = p
                   /\ \A r \in Requests : req[r].undoes = c => req[r].answer # "ok"}
    IN  MapThenSumSet(LAMBDA c : req[c].qty, held)

\* For clients that release only what they were granted, once: the service
\* never promises more than there is, and the reserved quantity is exactly
\* what is promised, also when a release fails.
NoOversell ==
    \A p \in Products :
        /\ Promised(p) <= Seed[p]
        /\ row[p].reserved = Promised(p)
        /\ row[p].available = Seed[p] - Promised(p)

\* Every request the service received is answered.
EveryRequestIsAnswered ==
    \A r \in Requests : req[r].pc = "received" ~> req[r].pc = "answered"

=============================================================================
