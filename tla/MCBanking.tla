------------------------------ MODULE MCBanking ------------------------------
(***************************************************************************)
(* Finite instances of Banking: two deposits, each with up to two attempts *)
(* to initiate its transfer, and two callbacks.                            *)
(***************************************************************************)
EXTENDS Banking, TLC

CONSTANTS d1, d2, c1, c2

(* A deposit that goes through, one from a bank account of somebody else,    *)
(* and one in a currency the user has no account for.                        *)
MCCalls ==
    {[owned |-> TRUE, account |-> TRUE],
     [owned |-> FALSE, account |-> TRUE],
     [owned |-> TRUE, account |-> FALSE]}
================================================================================
