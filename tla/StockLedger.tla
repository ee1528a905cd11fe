----------------------------- MODULE StockLedger -----------------------------
(***************************************************************************)
(* What the inventory service promises: each reservation and each release  *)
(* acts at once on the current stock, as if requests were served one at a  *)
(* time.  A restart of the service forgets everything (the database is in  *)
(* memory) and starts again from the seed data.                            *)
(***************************************************************************)
EXTENDS Integers

CONSTANTS
    Products,     \* the products of data.sql
    Seed,         \* the quantity each is seeded with
    MaxQty        \* the largest quantity of a request

VARIABLES available, reserved

stockVars == <<available, reserved>>

Quantities == 1 .. MaxQty

LedgerInit ==
    /\ available = Seed
    /\ reserved = [p \in Products |-> 0]

ReserveStock(p, q) ==
    /\ q <= available[p]
    /\ available' = [available EXCEPT ![p] = @ - q]
    /\ reserved' = [reserved EXCEPT ![p] = @ + q]

\* Nothing ties a release to a reservation: the units go back to stock, and
\* the reserved quantity stops at zero.
ReleaseStock(p, q) ==
    /\ available' = [available EXCEPT ![p] = @ + q]
    /\ reserved' = [reserved EXCEPT ![p] = IF q <= @ THEN @ - q ELSE 0]

Reseed ==
    /\ available' = Seed
    /\ reserved' = [p \in Products |-> 0]

LedgerNext ==
    \/ \E p \in Products, q \in Quantities : ReserveStock(p, q) \/ ReleaseStock(p, q)
    \/ Reseed

LedgerSpec == LedgerInit /\ [][LedgerNext]_stockVars

=============================================================================
