---------------------------- MODULE MCPortfolio ----------------------------
(***************************************************************************)
(* Three requests on a pool of two connections: a summary or an order of   *)
(* alice's, and any two others.                                            *)
(***************************************************************************)
EXTENDS Portfolio, TLC

CONSTANTS r1, r2, r3, alice, bob, btc, eth

(* alice has spent 2 of her 5 on 2 units; bob has nothing yet.               *)
MCUnits == alice :> (btc :> 2 @@ eth :> 0) @@ bob :> (btc :> 0 @@ eth :> 0)
MCCredits == alice :> 5 @@ bob :> 0
MCDebits == alice :> 2 @@ bob :> 0

Call(kind, account) ==
    [kind |-> kind, token |-> TRUE, user |-> "active", account |-> account, cash |-> TRUE,
     failsAt |-> 0, error |-> "IntegrityError", asset |-> btc, units |-> 1, money |-> 2]

Failing(c, step, error) == [c EXCEPT !.failsAt = step, !.error = error]

Summary == Call("portfolio", alice)
OtherCurrency == [Summary EXCEPT !.cash = FALSE]
Buy == Call("order", alice)
BuyOther == [Buy EXCEPT !.asset = eth, !.money = 1]
Sell == [Buy EXCEPT !.units = -1, !.money = 3]
Refused == Failing(Buy, 2, "InsufficientFundsError")
Unbalanced == Failing(Buy, 5, "LedgerImbalanceError")
BobSells == [Sell EXCEPT !.account = bob]
BobLooks == Call("portfolio", bob)
Link == Call("link", alice)
LinkTwice == Failing(Link, 1, "BankAccountAlreadyLinkedError")
Login == Call("login", bob)
Register == [Call("register", bob) EXCEPT !.token = FALSE, !.user = "none"]
Registered == Failing(Register, 1, "UserAlreadyExistsError")
NoToken == [Summary EXCEPT !.token = FALSE, !.user = "none"]
Deactivated == [Buy EXCEPT !.user = "inactive"]
Unknown == [Login EXCEPT !.user = "none"]

(* Trades that commit while a summary is read, in every order; then requests *)
(* that compete for connections and for alice's account, failing or not.     *)
MCWorkloads ==
    {r1 :> Summary @@ r2 :> b @@ r3 :> c : b \in {Buy, Sell}, c \in {BuyOther, Sell}}
    \cup {r1 :> OtherCurrency @@ r2 :> Sell @@ r3 :> Register}
    \cup {r1 :> BobLooks @@ r2 :> BobSells @@ r3 :> c : c \in {Summary, LinkTwice}}
    \cup {r1 :> Buy @@ r2 :> Unbalanced @@ r3 :> c : c \in {Refused, NoToken}}
    \cup {r1 :> Sell @@ r2 :> Link @@ r3 :> c : c \in {Login, Unknown, Deactivated, Registered}}
================================================================================
