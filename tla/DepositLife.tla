----------------------------- MODULE DepositLife -----------------------------
(***************************************************************************)
(* What BankingService promises about a deposit, to somebody who sees the  *)
(* durable row and the bank's transfers and nothing of handlers, retries   *)
(* and callbacks: a row appears once, in PROCESSING, with the name of a    *)
(* transfer the bank has made for it; it completes at most once, and only  *)
(* when that transfer has settled.  Banking implements it.                 *)
(*                                                                         *)
(* It does not promise that a transfer of the bank gets a row.             *)
(***************************************************************************)
CONSTANTS Deposits,   \* calls of deposit_funds
          Transfers,  \* the bank's transfers; t.deposit is what t is for
          NoDeposit   \* "there is no durable row"

VARIABLES bank,    \* transfer -> none, initiated or settled
          deposit  \* deposit -> its durable row

vars == <<bank, deposit>>

Init ==
    /\ bank = [t \in Transfers |-> "none"]
    /\ deposit = [d \in Deposits |-> NoDeposit]

Initiate(t) ==
    /\ bank[t] = "none"
    /\ bank' = [bank EXCEPT ![t] = "initiated"]
    /\ UNCHANGED deposit

Settle(t) ==
    /\ bank[t] = "initiated"
    /\ bank' = [bank EXCEPT ![t] = "settled"]
    /\ UNCHANGED deposit

Open(d, t) ==
    /\ deposit[d] = NoDeposit
    /\ t.deposit = d /\ bank[t] # "none"
    /\ deposit' = [deposit EXCEPT ![d] = [status |-> "PROCESSING", ref |-> t]]
    /\ UNCHANGED bank

Complete(d) ==
    /\ deposit[d] # NoDeposit
    /\ deposit[d].status = "PROCESSING" /\ bank[deposit[d].ref] = "settled"
    /\ deposit' = [deposit EXCEPT ![d].status = "COMPLETED"]
    /\ UNCHANGED bank

Next ==
    \/ \E t \in Transfers : Initiate(t) \/ Settle(t)
    \/ \E d \in Deposits : (\E t \in Transfers : Open(d, t)) \/ Complete(d)

Spec == Init /\ [][Next]_vars
================================================================================
