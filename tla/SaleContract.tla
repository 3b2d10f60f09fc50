---------------------------- MODULE SaleContract ----------------------------
(***************************************************************************)
(* What booking promises about one screening, with no locks, no requests   *)
(* and no failures: an idempotency key buys at most once, it buys in one   *)
(* piece exactly seats that were charged to it, and a seat is sold once    *)
(* until the operator empties the tables.  SeatSale implements this.       *)
(***************************************************************************)
EXTENDS Naturals

CONSTANTS Key,    \* idempotency keys
          Seat

VARIABLES
  charges,   \* approved payments a confirm is working with: keys and seats
  sold       \* the seats sold under each key that has bought

saleVars == <<charges, sold>>

SaleInit ==
  /\ charges = {}
  /\ sold = [k \in {} |-> {}]

\* The gateway approves the payment of S under k (again, after a retry).
Charge(k, S) ==
  /\ charges' = charges \cup {<<k, S>>}
  /\ UNCHANGED sold

\* The confirm that worked with an approval ends.
Settle(k, S) ==
  /\ charges' = charges \ {<<k, S>>}
  /\ UNCHANGED sold

\* k buys S.
Sell(k, S) ==
  /\ <<k, S>> \in charges
  /\ k \notin DOMAIN sold
  /\ \A other \in DOMAIN sold : S \cap sold[other] = {}
  /\ sold' = [x \in DOMAIN sold \cup {k} |-> IF x = k THEN S ELSE sold[x]]
  /\ UNCHANGED charges

\* The operator empties the tables.
Empty ==
  /\ sold' = [k \in {} |-> {}]
  /\ UNCHANGED charges

SaleNext ==
  \/ \E k \in Key, S \in SUBSET Seat : Charge(k, S) \/ Settle(k, S) \/ Sell(k, S)
  \/ Empty

SaleSpec == SaleInit /\ [][SaleNext]_saleVars
==============================================================================
