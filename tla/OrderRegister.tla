---------------------------- MODULE OrderRegister ----------------------------
(***************************************************************************)
(* What execute_trade promises to somebody who knows an idempotency key    *)
(* and nothing of requests, locks, retries and rollbacks: under a key the  *)
(* exchange gets at most one order and the register at most one record;    *)
(* a record is entered after the exchange has its order, agrees with it,   *)
(* and never changes.  Trading implements it.                              *)
(*                                                                         *)
(* It does not promise that an order of the exchange gets a record, that   *)
(* one without a fill stays open or fails, or that a key is used by one    *)
(* caller only.                                                            *)
(***************************************************************************)
CONSTANT Keys   \* idempotency keys

VARIABLES exchange,  \* the exchange's orders: a key and a status
          register   \* the durable orders: a key, their status, their transaction's

vars == <<exchange, register>>

Rejected == "REJECTED"
Filling == {"PARTIALLY_FILLED", "FILLED"}
Statuses == Filling \cup {"OPEN", Rejected}

Init == exchange = {} /\ register = {}

Place(k, s) ==
    /\ \A e \in exchange : e.key # k
    /\ exchange' = exchange \cup {[key |-> k, status |-> s]}
    /\ UNCHANGED register

(* An order may be filled, or filled further, after the exchange's answer.   *)
Fill(e, s) ==
    /\ e.status \in {"OPEN", "PARTIALLY_FILLED"}
    /\ exchange' = (exchange \ {e}) \cup {[key |-> e.key, status |-> s]}
    /\ UNCHANGED register

Record(e, order, txn) ==
    /\ \A x \in register : x.key # e.key
    /\ e.status = Rejected => order = "FAILED"
    /\ order = "FAILED" <=> txn = "FAILED"
    /\ txn = "PROCESSING" => e.status \in Filling
    /\ register' = register \cup {[key |-> e.key, order |-> order, txn |-> txn]}
    /\ UNCHANGED exchange

Next ==
    \/ \E k \in Keys, s \in Statuses : Place(k, s)
    \/ \E e \in exchange : \E s \in Filling : Fill(e, s)
    \/ \E e \in exchange : \E order \in {"PENDING", "FAILED"} :
          \E txn \in {"PENDING", "PROCESSING", "FAILED"} : Record(e, order, txn)

Spec == Init /\ [][Next]_vars
================================================================================
