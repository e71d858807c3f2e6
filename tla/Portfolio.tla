------------------------------ MODULE Portfolio ------------------------------
(***************************************************************************)
(* PortfolioService.get_portfolio_summary next to orders that commit: the  *)
(* positions, the account in the quote currency, its credits and its       *)
(* debits are read by a statement each, of what is committed when it runs, *)
(* with a call of the exchange after the first.                            *)
(*                                                                         *)
(* An order moves units of an asset one way and money the other.  What is  *)
(* committed is the opening amounts and those of the durable orders.       *)
(* Prices, and what is computed from them, are left out: whether there are *)
(* any changes neither the quantities nor the cash that are shown.         *)
(* Today an order with fills fails at its second write (module Trading):   *)
(* the others are here as they are in module Positions.                    *)
(***************************************************************************)
EXTENDS UnitOfWork, FiniteSetsExt

CONSTANTS Assets,         \* rows of assets
          OpeningUnits,   \* account -> asset -> quantity of its owner's position
          OpeningCredits, \* account -> sum of the entries crediting it
          OpeningDebits,  \* account -> sum of the entries debiting it
          Null            \* "no value": not read yet, or NULL

(* What the arguments of an order come to once it has been filled. *)
IsOrder(c) ==
    c.kind = "order" => c.asset \in Assets /\ c.units \in Int \ {0} /\ c.money \in Nat

(* The quote currency of a summary is the caller's choice. *)
IsSummary(c) ==
    c.kind = "portfolio" => c.cash \in BOOLEAN  \* the caller has an account in it

ASSUME ArgumentsAssumption ==
    \A w \in Workloads : \A r \in Requests : IsOrder(w[r]) /\ IsSummary(w[r])
ASSUME OpeningAssumption ==
    /\ OpeningUnits \in [Accounts -> [Assets -> Int]]
    /\ OpeningCredits \in [Accounts -> Nat] /\ OpeningDebits \in [Accounts -> Nat]
    /\ Null \notin Int \cup [Assets -> Int]

VARIABLES seen,   \* request -> what its summary has read
          asOf    \* request -> what was durable when it read the positions

pvars == <<vars, seen, asOf>>

Unseen == [units |-> Null, credits |-> Null, debits |-> Null]

PInit ==
    /\ Init
    /\ seen = [r \in Requests |-> Unseen]
    /\ asOf = [r \in Requests |-> {}]

--------------------------------------------------------------------------------
(* What is committed once the requests of D are.  A definition whose name adds *)
(* a suffix to the next one's is a broken variant of it.                       *)

OrdersOf(D, a) == {r \in D : call[r].kind = "order" /\ call[r].account = a}
OrdersIn(D, a, s) == {r \in OrdersOf(D, a) : call[r].asset = s}
Bought(D, a) == {r \in OrdersOf(D, a) : call[r].units > 0}
Sold(D, a) == {r \in OrdersOf(D, a) : call[r].units < 0}

UnitsBy(calls, O) == SumFunction([r \in O |-> calls[r].units])
Units(O) == UnitsBy(call, O)

MoneyBy(calls, O) == SumFunction([r \in O |-> calls[r].money])
Money(O) == MoneyBy(call, O)

(* A position row stays when its quantity returns to 0. *)
Listed(D, a) == {s \in Assets : OpeningUnits[a][s] # 0 \/ OrdersIn(D, a, s) # {}}

Quantities(D, a) == [s \in Assets |-> OpeningUnits[a][s] + Units(OrdersIn(D, a, s))]

CreditSum(D, a) == OpeningCredits[a] + Money(Sold(D, a))
DebitSumUncoalesced(D, a) ==
    IF OpeningDebits[a] = 0 /\ Bought(D, a) = {} THEN Null
    ELSE OpeningDebits[a] + Money(Bought(D, a))

(* COALESCE makes the sum of no entries 0. *)
DebitSum(D, a) == OpeningDebits[a] + Money(Bought(D, a))

--------------------------------------------------------------------------------
Owner(r) == call[r].account

(* get_by_user: one SELECT of all positions; without any, the summary ends    *)
(* here, and says that there is no cash.  (What a read that raises has read,  *)
(* here and below, nobody is shown.)                                          *)
LoadPositions(r) ==
    /\ IF Listed(durable, Owner(r)) = {}
       THEN Here(r, "positions") /\ ReturnEarly(r) /\ UNCHANGED seen
       ELSE /\ Read(r, "positions")
            /\ seen' = [seen EXCEPT ![r].units = Quantities(durable, Owner(r))]
    /\ asOf' = [asOf EXCEPT ![r] = durable]

(* get_by_user_and_currency: without an account the cash shown is 0. *)
FindAccount(r) ==
    /\ IF call[r].cash THEN Read(r, "account")
       ELSE Here(r, "account") /\ ReturnEarly(r)
    /\ UNCHANGED <<seen, asOf>>

(* get_balance, in its two statements. *)
SumCredits(r) ==
    /\ Read(r, "credits")
    /\ seen' = [seen EXCEPT ![r].credits = CreditSum(durable, Owner(r))]
    /\ UNCHANGED asOf

SumDebitsThenPositions(r) ==
    /\ Read(r, "debits")
    /\ seen' = [seen EXCEPT ![r].debits = DebitSum(durable, Owner(r)),
                            ![r].units = Quantities(durable, Owner(r))]
    /\ asOf' = [asOf EXCEPT ![r] = durable]

SumDebits(r) ==
    /\ Read(r, "debits")
    /\ seen' = [seen EXCEPT ![r].debits = DebitSum(durable, Owner(r))]
    /\ UNCHANGED asOf

Summarise(r) == LoadPositions(r) \/ FindAccount(r) \/ SumCredits(r) \/ SumDebits(r)

(* Everything else is as in UnitOfWork. *)
Request(r) ==
    /\ \/ Arrive(r)
       \/ Authenticate(r)
       \/ Connect(r)
       \/ PoolTimesOut(r)
       \/ LoadUser(r)
       \/ Read(r, "read")
       \/ call[r].kind = "order" /\ ReturnEarly(r)
       \/ LockAccount(r)
       \/ Write(r)
       \/ GatewayAnswers(r)
       \/ GatewayTimesOut(r)
       \/ GatewayFails(r)
       \/ Respond(r)
       \/ Commit(r)
       \/ Abort(r)
    /\ UNCHANGED <<seen, asOf>>

PNext ==
    \/ \E r \in Requests : Summarise(r) \/ Request(r)
    \/ Terminating /\ UNCHANGED <<seen, asOf>>

(* The assumptions of UnitOfWork, about the steps as they are here.          *)
PStep(r) == Summarise(r) \/ (Request(r) /\ Step(r))

PSpec == PInit /\ [][PNext]_pvars /\ \A r \in Requests : WF_pvars(PStep(r))

--------------------------------------------------------------------------------
(* The types; and a summary that answers has read nothing, as its caller has  *)
(* no positions, or no cash, as there is no account, or all three parts.      *)
Answers(r) ==
    \/ Listed(asOf[r], Owner(r)) = {} /\ seen[r] = Unseen
    \/ ~call[r].cash /\ seen[r] = [Unseen EXCEPT !.units = seen[r].units]
    \/ call[r].cash /\ seen[r].units # Null /\ seen[r].credits # Null /\ seen[r].debits # Null

PTypeOK ==
    /\ seen \in [Requests -> [units   : [Assets -> Int] \cup {Null},
                              credits : Int \cup {Null},
                              debits  : Int \cup {Null}]]
    /\ asOf \in [Requests -> SUBSET Requests]
    /\ \A r \in Requests : call[r].kind = "portfolio" /\ pc[r] = "respond" => Answers(r)

(* portfolio_service.py:102-175: the quantities of a summary are those of one *)
(* moment, and its cash, where it has read any, is that of the same moment up *)
(* to the money of orders that have committed since: it may lack what was     *)
(* spent since then, and have what was earned since then, and nothing else.   *)
(* So it never shows the units of a BUY next to the money they cost; it may   *)
(* show the units of a SELL next to the money they brought.                   *)
Cash(D, a) == CreditSum(D, a) - DebitSum(D, a)
CashShown(r) == seen[r].credits - seen[r].debits

OffOnlyByWhatCommits ==
    \A r \in Requests :
        LET since == durable \ asOf[r] IN
        /\ seen[r].units # Null => seen[r].units = Quantities(asOf[r], Owner(r))
        /\ seen[r].debits # Null =>
              /\ CashShown(r) <= Cash(asOf[r], Owner(r)) + Money(Sold(since, Owner(r)))
              /\ CashShown(r) >= Cash(asOf[r], Owner(r)) - Money(Bought(since, Owner(r)))
================================================================================
