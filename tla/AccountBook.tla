------------------------------ MODULE AccountBook ------------------------------
(***************************************************************************)
(* What the ledger of the brokerage promises to its callers: a balance for *)
(* each account, moved between two accounts by one indivisible transfer,   *)
(* and no customer account ever debited beyond its balance.  Only a        *)
(* RESERVE account (models/account.py:23) may go below zero.               *)
(*                                                                         *)
(* There are no sessions, row locks or half-read sums here: Ledger has     *)
(* them, and implements this specification.                                *)
(***************************************************************************)
EXTENDS Integers

CONSTANTS Accounts,   \* the rows of the accounts table
          Reserve,    \* those of account_type RESERVE
          Amounts,    \* the amounts callers ask to move
          Opening     \* the balances the book starts from

VARIABLE balance

Init == balance = Opening

Transfer(src, dst, amt) ==
    /\ src # dst
    /\ amt > 0
    /\ src \in Reserve \/ balance[src] >= amt
    /\ balance' = [balance EXCEPT ![src] = @ - amt, ![dst] = @ + amt]

Next == \E src, dst \in Accounts, amt \in Amounts : Transfer(src, dst, amt)

Spec == Init /\ [][Next]_balance
================================================================================
