------------------------------- MODULE MCLedger -------------------------------
(***************************************************************************)
(* Finite instances of Ledger: two customers, one RESERVE account, and the *)
(* calls that can get in each other's way.                                 *)
(***************************************************************************)
EXTENDS Ledger, TLC

CONSTANTS alice, bob, house, ghost, s1, s2, s3

MCAccounts == {alice, bob, house}
MCReserve == {house}
MCOpenCredits == alice :> 3 @@ bob :> 1 @@ house :> 0
MCOpenDebits == alice :> 1 @@ bob :> 0 @@ house :> 3

Debit(a, b, n) == [kind |-> "debit", src |-> a, dst |-> b, amt |-> n]
Credit(b, n) == [kind |-> "credit", src |-> house, dst |-> b, amt |-> n]
Read(a) == [kind |-> "read", src |-> a, dst |-> a, amt |-> 0]

(* The calls that contend: transfers both ways between two customers (a wait *)
(* cycle), two debits that one balance cannot cover together, deposits and   *)
(* reads; and the calls the code rejects: a transfer to oneself, an amount   *)
(* that is not positive, an account that has no row.                         *)
MCOperations ==
    {Debit(alice, bob, 2), Debit(bob, alice, 1),
     Credit(alice, 1), Read(alice),
     Debit(alice, alice, 1), Debit(bob, alice, -1), Debit(ghost, bob, 1), Credit(ghost, 1)}
================================================================================
