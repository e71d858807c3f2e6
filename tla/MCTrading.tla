------------------------------ MODULE MCTrading ------------------------------
(***************************************************************************)
(* Finite instances of Trading: two keys, two accounts, two requests.      *)
(***************************************************************************)
EXTENDS Trading, TLC

CONSTANTS k1, k2, alice, bob, r1, r2

MCOpening == alice :> 2 @@ bob :> 0

Order(k, a, side, cost) ==
    [key |-> k, account |-> a, side |-> side, cost |-> cost, valid |-> TRUE, listed |-> TRUE]

(* Requests that compete: for a key, for an account, and for both.           *)
Competing ==
    {Order(k1, alice, "BUY", 2), Order(k1, bob, "SELL", 0), Order(k2, alice, "BUY", 0)}

(* Requests that the code refuses before it reaches the exchange.            *)
Refused ==
    {Order(k1, bob, "BUY", 1),
     [Order(k1, alice, "BUY", 2) EXCEPT !.listed = FALSE],
     Order(k2, NoAccount, "BUY", 1),
     [Order(k2, alice, "SELL", 0) EXCEPT !.valid = FALSE]}

MCCalls == Competing \cup Refused

MCReports ==
    {[status |-> "OPEN", fills |-> FALSE], [status |-> "REJECTED", fills |-> FALSE],
     [status |-> "PARTIALLY_FILLED", fills |-> FALSE], [status |-> "FILLED", fills |-> FALSE],
     [status |-> "PARTIALLY_FILLED", fills |-> TRUE]}
================================================================================
