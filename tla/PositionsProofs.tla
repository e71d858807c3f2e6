--------------------------- MODULE PositionsProofs ---------------------------
(***************************************************************************)
(* What holds of the positions for any trades, holdings, accounts and      *)
(* answers of the exchange.                                                *)
(*                                                                         *)
(* The argument: a trade that works on a position holds the row lock of    *)
(* the account of the position's owner until its session has ended, and an *)
(* owner has one account.  So while a trade is at its fills nobody else    *)
(* writes or commits that position, and what the trade read of it without  *)
(* a lock is still there when it writes.                                   *)
(***************************************************************************)
EXTENDS Positions, SequenceTheorems, Sums

Working == {"fills", "upsert", "commit"}

LockHeld == \A t \in Trades : pc[t] \in Working => rowLock[Account(t)] = t

(* At its write a trade is at one of its fills, and has read the position as *)
(* it is now.                                                                *)
Current(t) == seen[t] = GetByUserAndAsset(t)

ReadIsCurrent ==
    \A t \in Trades : pc[t] = "upsert" => next[t] <= Len(FillsOf(call[t])) /\ Current(t)

(* Nobody has a version of the position of its own. *)
Uncontended == \A t \in Trades : pc[t] \in Working => ~InFlight(t)

IInv == TypeOK /\ LockHeld /\ ReadIsCurrent /\ FirstFillNeverLost

USE CallsAssumption, AccountsAssumption, MarkersAssumption

(* The fill a trade is at has a whole amount and price.                       *)
LEMMA FillType ==
    ASSUME TypeOK, NEW t \in Trades, next[t] <= Len(FillsOf(call[t]))
    PROVE  Fill(t).amount \in Int /\ Fill(t).price \in Int
<1> DEFINE R == [id : Nat, amount : Int, price : Int]
<1>1. IsCall(call[t])  BY DEF TypeOK
<1>2. call[t].fills \in Seq(R)  BY <1>1 DEF IsCall, Fills
<1>3. <<call[t].total>> \in Seq(R)  BY <1>1 DEF IsCall, Fills
<1>4. FillsOf(call[t]) \in Seq(R)  BY <1>2, <1>3 DEF FillsOf
<1>5. next[t] \in 1 .. Len(FillsOf(call[t]))  BY <1>4 DEF TypeOK
<1>6. FillsOf(call[t])[next[t]] \in R
  <2> HIDE DEF R
  <2> QED BY <1>4, <1>5, ElementOfSeq
<1> QED BY <1>6 DEF Fill

(* Rounding a quotient yields a whole number.                                 *)
LEMMA RoundedType ==
    ASSUME NEW n \in Int, NEW d \in Int, d # 0
    PROVE  Rounded(n, d) \in Int
<1> DEFINE magnitude(x) == IF x < 0 THEN -x ELSE x
           top == 2 * magnitude(n) + magnitude(d)
           bottom == 2 * magnitude(d)
<1>1. top \in Int /\ bottom \in Int /\ bottom > 0  OBVIOUS
<1>2. top \div bottom \in Int
  <2> HIDE DEF top, bottom
  <2> QED BY <1>1
<1>3. Rounded(n, d) = IF (n < 0) # (d < 0) THEN -(top \div bottom) ELSE top \div bottom
  BY DEF Rounded
<1> HIDE DEF top, bottom
<1> QED BY <1>2, <1>3

(* upsert_position turns a position into a position unless it would be flat.  *)
LEMMA UpsertedType ==
    ASSUME NEW old \in Position \cup {NoPosition}, NEW delta \in Int, NEW price \in Int,
           old # NoPosition /\ delta > 0 => old.quantity + delta # 0
    PROVE  Upserted(old, delta, price) \in Position
<1>1. CASE old = NoPosition  BY <1>1 DEF Upserted, Position
<1>2. CASE old # NoPosition /\ delta > 0
  <2>1. old.quantity \in Int /\ old.average \in Int  BY <1>2 DEF Position
  <2>2. old.quantity * old.average \in Int /\ delta * price \in Int  BY <2>1
  <2>3. Rounded(old.quantity * old.average + delta * price, old.quantity + delta) \in Int
    BY <1>2, <2>1, <2>2, RoundedType
  <2> QED BY <1>2, <2>1, <2>3 DEF Upserted, NewAverage, Position
<1>3. CASE old # NoPosition /\ ~(delta > 0)
  BY <1>3 DEF Upserted, NewAverage, Position
<1> QED BY <1>1, <1>2, <1>3

(* Two trades at work are at positions of different accounts.                 *)
LEMMA Alone ==
    ASSUME TypeOK, LockHeld, NEW t \in Trades, NEW u \in Trades,
           pc[t] \in Working, pc[u] \in Working, Holding(t) = Holding(u)
    PROVE  t = u
BY DEF LockHeld, Account

(* Before the first trade the inductive invariant holds.                      *)
LEMMA InitEstablishes == Init => IInv
BY DEF Init, IInv, TypeOK, LockHeld, ReadIsCurrent, FirstFillNeverLost, Working, Phases,
       Outcomes, NewOrder, OrderType

(* A rollback releases one lock and removes one trade's rows.                 *)
LEMMA FailPreserves ==
    ASSUME IInv, NEW t \in Trades, NEW why \in Outcomes \ {"IntegrityError"}, Fail(t, why)
    PROVE  IInv'
<1> USE DEF Fail, Goto, ReleaseLock
<1>0. TypeOK  BY DEF IInv
<1>1. TypeOK'
  <2>1. order' \in [Trades -> OrderType]  BY <1>0 DEF TypeOK, NewOrder, OrderType
  <2>2. pc' \in [Trades -> Phases]  BY <1>0 DEF TypeOK, Phases
  <2>3. rowLock' \in [Accounts -> Trades \cup {Nobody}]  BY <1>0 DEF TypeOK
  <2>4. \A u \in Trades : mine'[u] # NoPosition => pc'[u] \in {"fills", "upsert", "commit"}
    BY <1>0 DEF TypeOK
  <2> QED BY <1>0, <2>1, <2>2, <2>3, <2>4 DEF TypeOK
<1>2. LockHeld'
  <2> SUFFICES ASSUME NEW u \in Trades, pc'[u] \in Working  PROVE (rowLock[Account(u)] = u)'
    BY DEF LockHeld
  <2>1. u # t /\ pc[u] \in Working  BY <1>0 DEF TypeOK, Working
  <2>2. Account(u) \in Accounts  BY <1>0 DEF TypeOK, Account, Holding, IsCall
  <2> QED BY <2>1, <2>2 DEF IInv, LockHeld, Account, Holding
<1>3. ReadIsCurrent'  BY <1>0 DEF IInv, TypeOK, ReadIsCurrent, Current, GetByUserAndAsset, Holding
<1>4. FirstFillNeverLost'  BY <1>0 DEF IInv, TypeOK, FirstFillNeverLost
<1> QED BY <1>1, <1>2, <1>3, <1>4 DEF IInv

(* A request that arrives. *)
LEMMA ArrivePreserves == ASSUME IInv, NEW t \in Trades, Arrive(t) PROVE IInv'
<1> USE DEF Arrive, Goto
<1>0. TypeOK  BY DEF IInv
<1>1. TypeOK'  BY <1>0 DEF TypeOK, Phases
<1>2. LockHeld'  BY <1>0 DEF IInv, TypeOK, LockHeld, Working, Account, Holding
<1>3. ReadIsCurrent'  BY <1>0 DEF IInv, TypeOK, ReadIsCurrent, Current, GetByUserAndAsset, Holding
<1>4. FirstFillNeverLost'  BY DEF IInv, FirstFillNeverLost
<1> QED BY <1>1, <1>2, <1>3, <1>4 DEF IInv

(* The lock is taken when nobody holds it, so nobody loses it.                *)
LEMMA LockAccountPreserves == ASSUME IInv, NEW t \in Trades, LockAccount(t) PROVE IInv'
<1> USE DEF LockAccount, Goto
<1>0. TypeOK  BY DEF IInv
<1>1. Account(t) \in Accounts  BY <1>0 DEF TypeOK, Account, Holding, IsCall
<1>2. TypeOK'  BY <1>0, <1>1 DEF TypeOK, Phases
<1>3. LockHeld'
  <2> SUFFICES ASSUME NEW u \in Trades, pc'[u] \in Working  PROVE (rowLock[Account(u)] = u)'
    BY DEF LockHeld
  <2>1. CASE u = t  BY <1>0, <1>1, <2>1 DEF TypeOK, Account, Holding
  <2>2. CASE u # t
    <3>1. rowLock[Account(u)] = u  BY <1>0, <2>2 DEF IInv, TypeOK, LockHeld
    <3>2. Account(u) # Account(t)  BY <3>1
    <3> QED BY <3>1, <3>2, <1>0 DEF TypeOK, Account, Holding
  <2> QED BY <2>1, <2>2
<1>4. ReadIsCurrent'  BY <1>0 DEF IInv, TypeOK, ReadIsCurrent, Current, GetByUserAndAsset, Holding
<1>5. FirstFillNeverLost'  BY DEF IInv, FirstFillNeverLost
<1> QED BY <1>2, <1>3, <1>4, <1>5 DEF IInv

(* The position is read as it is.                                             *)
LEMMA TakeFillPreserves == ASSUME IInv, NEW t \in Trades, TakeFill(t) PROVE IInv'
<1>0. TypeOK  BY DEF IInv
<1>1. CASE /\ next' = [next EXCEPT ![t] = @ + 1]
           /\ UNCHANGED <<pc, call, seen, mine, order, durable, rowLock, position, outcome>>
  <2>0. pc[t] = "fills"  BY DEF TakeFill
  <2>1. TypeOK'  BY <1>0, <1>1 DEF TypeOK
  <2>2. LockHeld'  BY <1>1 DEF IInv, LockHeld, Account, Holding
  <2>3. ReadIsCurrent'
    BY <1>0, <1>1, <2>0 DEF IInv, TypeOK, ReadIsCurrent, Current, GetByUserAndAsset, Holding
  <2>4. FirstFillNeverLost'  BY <1>1 DEF IInv, FirstFillNeverLost
  <2> QED BY <2>1, <2>2, <2>3, <2>4 DEF IInv
<1>2. CASE Fail(t, "LedgerImbalanceError")  BY <1>2, FailPreserves DEF Outcomes
<1>3. CASE /\ seen' = [seen EXCEPT ![t] = GetByUserAndAsset(t)]
           /\ Goto(t, "upsert")
           /\ UNCHANGED <<call, next, mine, order, durable, rowLock, position, outcome>>
  <2> USE <1>3 DEF Goto
  <2>0. pc[t] = "fills" /\ next[t] <= Len(FillsOf(call[t]))  BY DEF TakeFill
  <2>1. TypeOK'
    <3>1. Holding(t) \in Holdings  BY <1>0 DEF TypeOK, Holding, IsCall
    <3>2. seen' \in [Trades -> Position \cup {NoPosition}]
      BY <1>0, <3>1 DEF TypeOK, GetByUserAndAsset
    <3>3. pc' \in [Trades -> Phases]  BY <1>0 DEF TypeOK, Phases
    <3>4. \A u \in Trades : mine'[u] # NoPosition => pc'[u] \in {"fills", "upsert", "commit"}
      BY <1>0 DEF TypeOK
    <3> QED BY <1>0, <3>2, <3>3, <3>4 DEF TypeOK
  <2>2. LockHeld'  BY <1>0, <2>0 DEF IInv, TypeOK, LockHeld, Working, Account, Holding
  <2>3. ReadIsCurrent'
    BY <1>0, <2>0 DEF IInv, TypeOK, ReadIsCurrent, Current, GetByUserAndAsset, Holding
  <2>4. FirstFillNeverLost'  BY DEF IInv, FirstFillNeverLost
  <2> QED BY <2>1, <2>2, <2>3, <2>4 DEF IInv
<1> QED BY <1>1, <1>2, <1>3 DEF TakeFill

(* The write meets no row it has not read.                                    *)
LEMMA UpsertPositionPreserves == ASSUME IInv, NEW t \in Trades, UpsertPosition(t) PROVE IInv'
<1>0. TypeOK /\ pc[t] = "upsert"  BY DEF IInv, UpsertPosition
<1>1. next[t] <= Len(FillsOf(call[t])) /\ Current(t)  BY <1>0 DEF IInv, ReadIsCurrent
<1>2. ~(seen[t] = NoPosition /\ position[Holding(t)] # NoPosition)
  BY <1>1 DEF Current, GetByUserAndAsset
<1>3. CASE Fail(t, "DivisionByZero")  BY <1>3, FailPreserves DEF Outcomes
<1>4. CASE /\ ~Flat(t)
           /\ mine' = [mine EXCEPT ![t] = Upserted(seen[t], Delta(t), Fill(t).price)]
           /\ order' = [order EXCEPT ![t] = Filled(t)]
           /\ next' = [next EXCEPT ![t] = @ + 1]
           /\ seen' = [seen EXCEPT ![t] = NoPosition]
           /\ Goto(t, "fills")
           /\ UNCHANGED <<call, durable, rowLock, position, outcome>>
  <2> USE <1>4 DEF Goto
  <2>1. Fill(t).amount \in Int /\ Fill(t).price \in Int  BY <1>0, <1>1, FillType
  <2>2. Delta(t) \in Int  BY <2>1 DEF Delta, DeltaOf
  <2>3. seen[t] \in Position \cup {NoPosition}  BY <1>0 DEF TypeOK
  <2>4. seen[t] # NoPosition /\ Delta(t) > 0 => seen[t].quantity + Delta(t) # 0
    BY DEF Flat, ClosesShort
  <2>5. Upserted(seen[t], Delta(t), Fill(t).price) \in Position
    BY <2>1, <2>2, <2>3, <2>4, UpsertedType
  <2>6. Filled(t) \in OrderType
    <3>1. order[t] \in OrderType  BY <1>0 DEF TypeOK
    <3>2. order[t].filled + Fill(t).amount \in Int  BY <2>1, <3>1 DEF OrderType
    <3> DEFINE total == order[t].filled + Fill(t).amount
               status == IF total >= call[t].amount THEN "FILLED" ELSE "PARTIALLY_FILLED"
    <3>3. Filled(t) = [order[t] EXCEPT !.filled = total, !.status = status]  BY DEF Filled
    <3>4. status \in {"PARTIALLY_FILLED", "FILLED"} /\ total \in Int  BY <3>2
    <3> HIDE DEF total, status
    <3> QED BY <3>1, <3>3, <3>4 DEF OrderType
  <2>7. TypeOK'
    <3>1. mine' \in [Trades -> Position \cup {NoPosition}]  BY <1>0, <2>5 DEF TypeOK
    <3>2. order' \in [Trades -> OrderType]  BY <1>0, <2>6 DEF TypeOK
    <3>3. pc' \in [Trades -> Phases]  BY <1>0 DEF TypeOK, Phases
    <3>4. \A u \in Trades : mine'[u] # NoPosition => pc'[u] \in {"fills", "upsert", "commit"}
      BY <1>0 DEF TypeOK
    <3>5. next' \in [Trades -> Nat \ {0}]  BY <1>0 DEF TypeOK
    <3>6. seen' \in [Trades -> Position \cup {NoPosition}]  BY <1>0 DEF TypeOK
    <3> QED BY <1>0, <3>1, <3>2, <3>3, <3>4, <3>5, <3>6 DEF TypeOK
  <2>8. LockHeld'  BY <1>0 DEF IInv, TypeOK, LockHeld, Working, Account, Holding
  <2>9. ReadIsCurrent'  BY <1>0 DEF IInv, TypeOK, ReadIsCurrent, Current, GetByUserAndAsset, Holding
  <2>10. FirstFillNeverLost'  BY DEF IInv, FirstFillNeverLost
  <2> QED BY <2>7, <2>8, <2>9, <2>10 DEF IInv
<1> QED BY <1>2, <1>3, <1>4 DEF UpsertPosition

(* Step 8 writes the order only. *)
LEMMA FinalisePreserves == ASSUME IInv, NEW t \in Trades, Finalise(t) PROVE IInv'
<1> USE DEF Finalise, Goto
<1>0. TypeOK  BY DEF IInv
<1>1. TypeOK'
  <2>1. order[t] \in OrderType  BY <1>0 DEF TypeOK
  <2>2. FinalOrder(t) \in OrderType  BY <2>1 DEF FinalOrder, OrderType
  <2>3. order' \in [Trades -> OrderType]  BY <1>0, <2>2 DEF TypeOK
  <2>4. outcome' \in [Trades -> Outcomes]  BY <1>0 DEF TypeOK, Outcomes
  <2>5. pc' \in [Trades -> Phases]  BY <1>0 DEF TypeOK, Phases
  <2>6. \A u \in Trades : mine'[u] # NoPosition => pc'[u] \in {"fills", "upsert", "commit"}
    BY <1>0 DEF TypeOK
  <2> QED BY <1>0, <2>3, <2>4, <2>5, <2>6 DEF TypeOK
<1>2. LockHeld'  BY <1>0 DEF IInv, TypeOK, LockHeld, Working, Account, Holding
<1>3. ReadIsCurrent'  BY <1>0 DEF IInv, TypeOK, ReadIsCurrent, Current, GetByUserAndAsset, Holding
<1>4. FirstFillNeverLost'  BY <1>0 DEF IInv, TypeOK, FirstFillNeverLost
<1> QED BY <1>1, <1>2, <1>3, <1>4 DEF IInv

(* A commit changes a position nobody else is working on.                     *)
LEMMA CommitPreserves == ASSUME IInv, NEW t \in Trades, Commit(t) PROVE IInv'
<1> USE DEF Commit, Goto, ReleaseLock
<1>0. TypeOK /\ LockHeld /\ pc[t] = "commit"  BY DEF IInv
<1>1. TypeOK'
  <2>1. rowLock' \in [Accounts -> Trades \cup {Nobody}]  BY <1>0 DEF TypeOK
  <2>2. position' \in [Holdings -> Position \cup {NoPosition}]  BY <1>0 DEF TypeOK
  <2>3. pc' \in [Trades -> Phases]  BY <1>0 DEF TypeOK, Phases
  <2>4. \A u \in Trades : mine'[u] # NoPosition => pc'[u] \in {"fills", "upsert", "commit"}
    BY <1>0 DEF TypeOK
  <2> QED BY <1>0, <2>1, <2>2, <2>3, <2>4 DEF TypeOK
<1>2. LockHeld'
  <2> SUFFICES ASSUME NEW u \in Trades, pc'[u] \in Working  PROVE (rowLock[Account(u)] = u)'
    BY DEF LockHeld
  <2>1. u # t /\ pc[u] \in Working  BY <1>0 DEF TypeOK, Working
  <2>2. Account(u) \in Accounts  BY <1>0 DEF TypeOK, Account, Holding, IsCall
  <2> QED BY <1>0, <2>1, <2>2 DEF LockHeld, Account, Holding
<1>3. ReadIsCurrent'
  <2> SUFFICES ASSUME NEW u \in Trades, pc'[u] = "upsert"
               PROVE  (next[u] <= Len(FillsOf(call[u])) /\ Current(u))'
    BY DEF ReadIsCurrent
  <2>1. u # t /\ pc[u] = "upsert"  BY <1>0 DEF TypeOK
  <2>2. Holding(u) # Holding(t)  BY <1>0, <2>1, Alone DEF Working
  <2>3. position'[Holding(u)] = position[Holding(u)]
    <3>1. Holding(u) \in Holdings  BY <1>0 DEF TypeOK, Holding, IsCall
    <3> QED BY <1>0, <2>2, <3>1 DEF TypeOK
  <2>4. next[u] <= Len(FillsOf(call[u])) /\ Current(u)  BY <2>1 DEF IInv, ReadIsCurrent
  <2>5. mine'[u] = mine[u]  BY <1>0, <2>1 DEF TypeOK
  <2> QED BY <2>3, <2>4, <2>5 DEF Current, GetByUserAndAsset, Holding
<1>4. FirstFillNeverLost'  BY DEF IInv, FirstFillNeverLost
<1> QED BY <1>1, <1>2, <1>3, <1>4 DEF IInv

(* Every step keeps the inductive invariant.                                  *)
LEMMA NextPreserves == IInv /\ [Next]_vars => IInv'
<1> SUFFICES ASSUME IInv, [Next]_vars  PROVE IInv'  OBVIOUS
<1>1. ASSUME NEW t \in Trades, Abort(t)  PROVE IInv'
  BY <1>1, FailPreserves DEF Abort, Outcomes
<1>2. ASSUME NEW t \in Trades, Step(t)  PROVE IInv'
  BY <1>2, LockAccountPreserves, TakeFillPreserves, UpsertPositionPreserves, FinalisePreserves,
     CommitPreserves DEF Step
<1>3. CASE UNCHANGED vars
  BY <1>3 DEF vars, IInv, TypeOK, LockHeld, ReadIsCurrent, FirstFillNeverLost, Current,
              GetByUserAndAsset, Account, Holding
<1> QED BY <1>1, <1>2, <1>3, ArrivePreserves DEF Next, Terminating

(* The inductive invariant holds always.                                      *)
THEOREM Inductive == Spec => []IInv
BY InitEstablishes, NextPreserves, PTL DEF Spec

(* Every variable stays in its type: quantities and averages, too, remain     *)
(* whole numbers of the columns' units, as upsert_position never divides by   *)
(* zero and goes on.                                                          *)
THEOREM TypeCorrect == Spec => []TypeOK
BY Inductive, PTL DEF IInv

(* The lock on the owner's account is lock enough for the position: what      *)
(* upsert_position has read without one is current when it writes.            *)
THEOREM ReadCurrent == Spec => []ReadIsCurrent
BY Inductive, PTL DEF IInv

(* No trade is rolled back over the unique constraint on positions.           *)
THEOREM NoFirstFillLost == Spec => []FirstFillNeverLost
BY Inductive, PTL DEF IInv

(* No trade at its fills waits for another one's position row, so the account *)
(* rows are the only locks trades of positions wait for.                      *)
THEOREM NeverWaits == Spec => []Uncontended
<1>1. IInv => Uncontended
  <2> SUFFICES ASSUME IInv, NEW t \in Trades, pc[t] \in Working, InFlight(t)  PROVE FALSE
    BY DEF Uncontended
  <2>1. PICK u \in Trades \ {t} : Holding(u) = Holding(t) /\ mine[u] # NoPosition  BY DEF InFlight
  <2>2. pc[u] \in Working  BY <2>1 DEF IInv, TypeOK, Working
  <2> QED BY <2>1, <2>2, Alone DEF IInv
<1> QED BY <1>1, Inductive, PTL
--------------------------------------------------------------------------------
(* The fills a trade has counted, how much they are and what they make of the *)
(* position's quantity.                                                       *)
Counted(t) == SumFunction([f \in Applied(t) |-> f.amount])
Moved(t) == IF call[t].side = "BUY" THEN Counted(t) ELSE -Counted(t)

Quantity(h) == IF position[h] = NoPosition THEN 0 ELSE position[h].quantity

Covered(t) == order[t].status = "FILLED" <=> order[t].filled >= call[t].amount

Settled(t) ==
    /\ next[t] > Len(FillsOf(call[t]))
    /\ order[t].filled = Counted(t)
    /\ order[t].status = "FILLED" <=>
           order[t].filled >= call[t].amount /\ call[t].status # "REJECTED"
    /\ order[t].txn = "COMPLETED" => order[t].status = "FILLED"

(* A trade's books: its order and its version of the position say the same of *)
(* the fills counted so far, and it comes to a write with a new fill only.    *)
Books(t) ==
    /\ pc[t] \in {"idle", "lock"} => next[t] = 1 /\ order[t] = NewOrder
    /\ pc[t] \in Working =>
          /\ order[t].filled = Counted(t)
          /\ IF mine[t] = NoPosition THEN next[t] = 1
             ELSE mine[t].quantity = Quantity(Holding(t)) + Moved(t)
    /\ pc[t] \in {"fills", "upsert"} => Covered(t) /\ order[t].txn = "PENDING"
    /\ pc[t] = "upsert" => ~SeenFill(t) /\ Balances(t)
    /\ pc[t] = "commit" => Settled(t)
    /\ durable[t] => pc[t] = "done" /\ Settled(t)

FiniteDurable == IsFiniteSet({t \in Trades : durable[t]})

Kept == (\A t \in Trades : Books(t)) /\ FiniteDurable /\ QuantityAgrees

BInv == IInv /\ Kept

(* The fills of an answer: two with one id are the same.                      *)
LEMMA FillsAre ==
    ASSUME TypeOK, NEW t \in Trades
    PROVE  /\ FillsOf(call[t]) \in Seq([id : Nat, amount : Int, price : Int])
           /\ DOMAIN FillsOf(call[t]) = 1 .. Len(FillsOf(call[t]))
           /\ Len(FillsOf(call[t])) \in Nat
           /\ \A i \in DOMAIN FillsOf(call[t]) : /\ FillsOf(call[t])[i].amount \in Int
                                                 /\ FillsOf(call[t])[i].price \in Int
           /\ \A i, j \in DOMAIN FillsOf(call[t]) :
                  FillsOf(call[t])[i].id = FillsOf(call[t])[j].id
                      => FillsOf(call[t])[i] = FillsOf(call[t])[j]
<1> DEFINE R == [id : Nat, amount : Int, price : Int]
<1>1. Fills(call[t].fills) /\ Fills(<<call[t].total>>)  BY DEF TypeOK, IsCall
<1>2. Fills(FillsOf(call[t]))  BY <1>1 DEF FillsOf
<1> DEFINE F == FillsOf(call[t])
<1>3. F \in Seq(R) /\ \A i, j \in DOMAIN F : F[i].id = F[j].id => F[i] = F[j]
  BY <1>2 DEF Fills
<1> HIDE DEF F
<1>4. DOMAIN F = 1 .. Len(F) /\ Len(F) \in Nat
  <2> HIDE DEF R
  <2> QED BY <1>3
<1>5. \A i \in DOMAIN F : F[i] \in R
  <2> HIDE DEF R
  <2> QED BY <1>3, <1>4, ElementOfSeq
<1> QED BY <1>3, <1>4, <1>5 DEF F

(* They are finitely many, and so are those counted so far.                   *)
LEMMA FillsAreFinite ==
    ASSUME TypeOK, NEW t \in Trades
    PROVE  /\ IsFiniteSet(ToSet(FillsOf(call[t])))
           /\ Applied(t) \subseteq ToSet(FillsOf(call[t]))
           /\ IsFiniteSet(Applied(t))
           /\ \A f \in ToSet(FillsOf(call[t])) : f.amount \in Int /\ f.price \in Int
<1> DEFINE F == FillsOf(call[t])
           n == Len(F)
<1>1. /\ DOMAIN F = 1 .. n /\ n \in Nat
      /\ \A i \in DOMAIN F : F[i].amount \in Int /\ F[i].price \in Int
  BY FillsAre
<1>2. Applied(t) = {F[i] : i \in {j \in DOMAIN F : j < next[t]}}  BY DEF Applied
<1> HIDE DEF F
<1>3. [i \in 1 .. n |-> F[i]] \in Surjection(1 .. n, ToSet(F))
  BY <1>1 DEF Surjection, ToSet
<1>4. IsFiniteSet(1 .. n)  BY <1>1, FS_Interval
<1>5. IsFiniteSet(ToSet(F))  BY <1>3, <1>4, FS_Surjection
<1>6. Applied(t) \subseteq ToSet(F)  BY <1>2 DEF ToSet
<1>7. IsFiniteSet(Applied(t))  BY <1>5, <1>6, FS_Subset
<1>8. \A f \in ToSet(F) : f.amount \in Int /\ f.price \in Int  BY <1>1 DEF ToSet
<1> QED BY <1>5, <1>6, <1>7, <1>8 DEF F

(* A trade past its last fill has gone through all of them.                   *)
LEMMA AllApplied ==
    ASSUME TypeOK, NEW t \in Trades, next[t] > Len(FillsOf(call[t]))
    PROVE  Applied(t) = ToSet(FillsOf(call[t]))
<1>1. /\ DOMAIN FillsOf(call[t]) = 1 .. Len(FillsOf(call[t]))
      /\ Len(FillsOf(call[t])) \in Nat /\ next[t] \in Nat
  BY FillsAre DEF TypeOK
<1>2. {j \in DOMAIN FillsOf(call[t]) : j < next[t]} = DOMAIN FillsOf(call[t])  BY <1>1
<1> QED BY <1>2 DEF Applied, ToSet

(* What is counted is a whole number; of no fills it is 0, and of all of them *)
(* what the answer executed.                                                  *)
LEMMA CountedType ==
    ASSUME TypeOK, NEW t \in Trades
    PROVE  /\ Counted(t) \in Int /\ Moved(t) \in Int
           /\ next[t] = 1 => Counted(t) = 0
           /\ next[t] > Len(FillsOf(call[t])) => Counted(t) = Executed(t)
<1> DEFINE of == [f \in Applied(t) |-> f.amount]
<1>1. Counted(t) = SumFunctionOnSet(of, Applied(t))  BY DEF Counted, SumFunction
<1>2. \A f \in Applied(t) : of[f] \in Int  BY FillsAreFinite
<1>3. IsFiniteSet(Applied(t))  BY FillsAreFinite
<1>4. Counted(t) \in Int
  <2> HIDE DEF of
  <2> QED BY <1>1, <1>2, <1>3, SumInt
<1>5. next[t] = 1 => Counted(t) = 0
  <2>1. next[t] = 1 => Applied(t) = {}  BY FillsAre DEF Applied
  <2> HIDE DEF of
  <2> QED BY <1>1, <2>1, SumEmpty
<1>6. next[t] > Len(FillsOf(call[t])) => Counted(t) = Executed(t)
  <2> SUFFICES ASSUME next[t] > Len(FillsOf(call[t]))  PROVE Counted(t) = Executed(t)
    OBVIOUS
  <2>1. Applied(t) = ToSet(FillsOf(call[t]))  BY AllApplied
  <2> QED BY <2>1 DEF Counted, Executed
<1> QED BY <1>4, <1>5, <1>6 DEF Moved

(* A fill not seen before is counted, one seen before has been.               *)
LEMMA CountNext ==
    ASSUME TypeOK, NEW t \in Trades, next[t] <= Len(FillsOf(call[t])),
           call' = call, next'[t] = next[t] + 1
    PROVE  /\ SeenFill(t) <=> Fill(t) \in Applied(t)
           /\ SeenFill(t) => Counted(t)' = Counted(t) /\ Applied(t)' = Applied(t)
           /\ ~SeenFill(t) => /\ Counted(t)' = Counted(t) + Fill(t).amount
                              /\ Applied(t)' = Applied(t) \cup {Fill(t)}
<1> DEFINE F == FillsOf(call[t])
           n == next[t]
<1>1. n \in 1 .. Len(F) /\ Len(F) \in Nat /\ DOMAIN F = 1 .. Len(F)  BY FillsAre DEF TypeOK
<1>2. Applied(t) = {F[i] : i \in {j \in DOMAIN F : j < n}}  BY DEF Applied
<1>3. Applied(t)' = {F[i] : i \in {j \in DOMAIN F : j < n + 1}}  BY DEF Applied
<1>4. Applied(t)' = Applied(t) \cup {F[n]}
  <2> HIDE DEF F, n
  <2>1. {j \in DOMAIN F : j < n + 1} = {j \in DOMAIN F : j < n} \cup {n}  BY <1>1
  <2> QED BY <1>2, <1>3, <2>1
<1>5. SeenFill(t) <=> F[n] \in Applied(t)
  <2>1. SeenFill(t) <=> \E i \in 1 .. n - 1 : F[i].id = F[n].id  BY DEF SeenFill, Fill
  <2>2. \A i \in DOMAIN F : F[i].id = F[n].id => F[i] = F[n]  BY <1>1, FillsAre
  <2> HIDE DEF F, n
  <2> QED BY <1>1, <1>2, <2>1, <2>2
<1>6. SeenFill(t) <=> Fill(t) \in Applied(t)  BY <1>5 DEF Fill
<1>7. CASE SeenFill(t)
  <2>1. Applied(t)' = Applied(t)  BY <1>4, <1>5, <1>7
  <2> QED BY <1>6, <1>7, <2>1 DEF Counted
<1>8. CASE ~SeenFill(t)
  <2> DEFINE before == [f \in Applied(t) |-> f.amount]
             after == [f \in Applied(t)' |-> f.amount]
  <2>1. Counted(t) = SumFunction(before) /\ Counted(t)' = SumFunction(after)  BY DEF Counted
  <2>2. F[n] \notin Applied(t)  BY <1>5, <1>8
  <2>3. /\ IsFiniteSet(Applied(t)) /\ \A f \in Applied(t) : f.amount \in Int
        /\ F[n].amount \in Int
    BY <1>1, FillsAre, FillsAreFinite
  <2>4. /\ DOMAIN before = Applied(t) /\ DOMAIN after = Applied(t) \cup {F[n]}
        /\ \A f \in Applied(t) : after[f] = before[f]
        /\ after[F[n]] = F[n].amount
        /\ \A f \in DOMAIN after : after[f] \in Int
    BY <1>4, <2>3
  <2>5. SumFunction(after) = after[F[n]] + SumFunction(before)
    <3> HIDE DEF before, after, F, n
    <3> QED BY <2>2, <2>3, <2>4, SumExtends
  <2>6. SumFunction(after) = SumFunction(before) + F[n].amount
    <3>1. SumFunction(before) \in Int  BY <2>1, CountedType
    <3> HIDE DEF before, after
    <3> QED BY <2>3, <2>4, <2>5, <3>1
  <2> QED BY <1>4, <1>6, <1>8, <2>1, <2>6 DEF Fill
<1> QED BY <1>7, <1>8
--------------------------------------------------------------------------------
(* The books of a trade of which nothing has changed are still right.         *)
LEMMA BooksKeep ==
    ASSUME NEW u \in Trades, Books(u), call' = call,
           pc'[u] = pc[u], next'[u] = next[u], mine'[u] = mine[u], order'[u] = order[u],
           durable'[u] = durable[u],
           pc[u] \in Working => Quantity(Holding(u))' = Quantity(Holding(u))
    PROVE  Books(u)'
<1>1. Applied(u)' = Applied(u)  BY DEF Applied
<1>2. Counted(u)' = Counted(u) /\ Moved(u)' = Moved(u)  BY <1>1 DEF Counted, Moved
<1>3. Settled(u)' <=> Settled(u)  BY <1>2 DEF Settled
<1>4. Covered(u)' <=> Covered(u)  BY DEF Covered
<1>5. (SeenFill(u)' <=> SeenFill(u)) /\ (Balances(u)' <=> Balances(u))
  BY DEF SeenFill, Balances, Fill, Account, Holding
<1> QED BY <1>2, <1>3, <1>4, <1>5 DEF Books, Holding

(* A step that commits nothing has only its own trade's books to keep.        *)
LEMMA OwnBooksKept ==
    ASSUME BInv, NEW t \in Trades, Books(t)', call' = call, durable' = durable,
           position' = position,
           \A u \in Trades \ {t} : /\ pc'[u] = pc[u] /\ next'[u] = next[u]
                                   /\ mine'[u] = mine[u] /\ order'[u] = order[u]
    PROVE  Kept'
<1>1. \A u \in Trades : Books(u)'
  <2> SUFFICES ASSUME NEW u \in Trades  PROVE Books(u)'
    OBVIOUS
  <2>1. CASE u = t  BY <2>1
  <2>2. CASE u # t
    <3>1. Quantity(Holding(u))' = Quantity(Holding(u))  BY DEF Quantity, Holding
    <3>2. Books(u)  BY DEF BInv, Kept
    <3> QED BY <2>2, <3>1, <3>2, BooksKeep
  <2> QED BY <2>1, <2>2
<1>2. FiniteDurable'  BY DEF BInv, Kept, FiniteDurable
<1>3. QuantityAgrees'
  <2>1. \A u \in Trades : Signed(u)' = Signed(u)  BY DEF Signed, Executed
  <2> SUFFICES ASSUME NEW h \in Holdings
               PROVE  (IF position[h] = NoPosition THEN 0 ELSE position[h].quantity)
                   = SumFunction([u \in {v \in Trades : durable[v] /\ Holding(v)' = h} |-> Signed(u)'])
    BY DEF QuantityAgrees
  <2>2. [u \in {v \in Trades : durable[v] /\ Holding(v)' = h} |-> Signed(u)']
            = [u \in {v \in Trades : durable[v] /\ Holding(v) = h} |-> Signed(u)]
    BY <2>1 DEF Holding
  <2> QED BY <2>2 DEF BInv, Kept, QuantityAgrees
<1> QED BY <1>1, <1>2, <1>3 DEF Kept

(* Before the first trade there is nothing in the books.                      *)
LEMMA InitKept == Init => Kept
<1> SUFFICES ASSUME Init  PROVE Kept
  OBVIOUS
<1>0. TypeOK  BY InitEstablishes DEF IInv
<1>1. \A t \in Trades : Books(t)
  BY DEF Init, Books, Working
<1>2. {t \in Trades : durable[t]} = {}  BY DEF Init
<1>3. QuantityAgrees
  <2> SUFFICES ASSUME NEW h \in Holdings
               PROVE  SumFunction([t \in {u \in Trades : durable[u] /\ Holding(u) = h} |-> Signed(t)]) = 0
    BY DEF Init, QuantityAgrees
  <2> DEFINE of == [t \in {u \in Trades : durable[u] /\ Holding(u) = h} |-> Signed(t)]
  <2>1. DOMAIN of = {}  BY <1>2
  <2> HIDE DEF of
  <2>2. SumFunction(of) = 0  BY <2>1, SumEmpty DEF SumFunction
  <2> QED BY <2>2 DEF of
<1> QED BY <1>1, <1>2, <1>3, FS_EmptySet DEF Kept, FiniteDurable

(* A rollback leaves no books.                                                *)
LEMMA FailKeeps ==
    ASSUME BInv, NEW t \in Trades, NEW why, Fail(t, why), pc[t] # "done"
    PROVE  Kept'
<1>0. TypeOK /\ Books(t)  BY DEF BInv, IInv, Kept
<1>1. pc'[t] = "done" /\ durable' = durable /\ call' = call /\ position' = position
  BY <1>0 DEF Fail, Goto, TypeOK
<1>2. Books(t)'  BY <1>0, <1>1 DEF Books, Working
<1>3. \A u \in Trades \ {t} : /\ pc'[u] = pc[u] /\ next'[u] = next[u]
                              /\ mine'[u] = mine[u] /\ order'[u] = order[u]
  BY <1>0 DEF Fail, Goto, TypeOK
<1> QED BY <1>1, <1>2, <1>3, OwnBooksKept

(* A trade that takes its lock opens its books, with an order and no fills.   *)
LEMMA LockAccountKeeps == ASSUME BInv, NEW t \in Trades, LockAccount(t) PROVE Kept'
<1>0. TypeOK /\ Books(t) /\ pc[t] = "lock"  BY DEF BInv, IInv, Kept, LockAccount
<1>1. /\ pc'[t] = "fills" /\ next' = next /\ mine' = mine /\ order' = order
      /\ durable' = durable /\ call' = call /\ position' = position
  BY <1>0 DEF LockAccount, Goto, TypeOK
<1>2. mine[t] = NoPosition /\ next[t] = 1 /\ order[t] = NewOrder /\ ~durable[t]
  BY <1>0 DEF TypeOK, Books
<1>3. Applied(t)' = Applied(t)  BY <1>1 DEF Applied
<1>4. Counted(t)' = 0  BY <1>0, <1>2, <1>3, CountedType DEF Counted
<1>5. call[t].amount \in Nat \ {0}  BY <1>0 DEF TypeOK, IsCall
<1>6. Books(t)'
  BY <1>1, <1>2, <1>4, <1>5 DEF Books, Covered, NewOrder, Working
<1>7. \A u \in Trades \ {t} : pc'[u] = pc[u]  BY <1>0 DEF LockAccount, Goto, TypeOK
<1> QED BY <1>1, <1>6, <1>7, OwnBooksKept

(* A request that arrives has none. *)
LEMMA ArriveKeeps == ASSUME BInv, NEW t \in Trades, Arrive(t) PROVE Kept'
<1>0. TypeOK /\ Books(t) /\ pc[t] = "idle"  BY DEF BInv, IInv, Kept, Arrive
<1>1. /\ pc'[t] = "lock" /\ next' = next /\ mine' = mine /\ order' = order
      /\ durable' = durable /\ call' = call /\ position' = position
  BY <1>0 DEF Arrive, Goto, TypeOK
<1>2. Books(t)'  BY <1>0, <1>1 DEF Books, Working
<1>3. \A u \in Trades \ {t} : pc'[u] = pc[u]  BY <1>0 DEF Arrive, Goto, TypeOK
<1> QED BY <1>1, <1>2, <1>3, OwnBooksKept

(* Passing over a fill counts nothing; reading the position neither.          *)
LEMMA TakeFillKeeps == ASSUME BInv, NEW t \in Trades, TakeFill(t) PROVE Kept'
<1>0. /\ TypeOK /\ Books(t) /\ pc[t] = "fills" /\ next[t] <= Len(FillsOf(call[t]))
  BY DEF BInv, IInv, Kept, TakeFill
<1>1. CASE /\ SeenFill(t)
           /\ next' = [next EXCEPT ![t] = @ + 1]
           /\ UNCHANGED <<pc, call, seen, mine, order, durable, rowLock, position, outcome>>
  <2>1. next'[t] = next[t] + 1 /\ \A u \in Trades \ {t} : next'[u] = next[u]
    BY <1>0, <1>1 DEF TypeOK
  <2>2. Counted(t)' = Counted(t)  BY <1>0, <1>1, <2>1, CountNext
  <2>3. Moved(t)' = Moved(t)  BY <1>1, <2>2 DEF Moved
  <2>4. mine[t] # NoPosition
    <3>1. next[t] # 1  BY <1>0, <1>1 DEF SeenFill, TypeOK
    <3> QED BY <1>0, <3>1 DEF Books, Working
  <2>5. Books(t)'
    BY <1>0, <1>1, <2>2, <2>3, <2>4 DEF Books, Working, Covered, Quantity, Holding
  <2> QED BY <1>1, <2>1, <2>5, OwnBooksKept
<1>2. CASE Fail(t, "LedgerImbalanceError")  BY <1>0, <1>2, FailKeeps
<1>3. CASE /\ ~SeenFill(t) /\ Balances(t)
           /\ seen' = [seen EXCEPT ![t] = GetByUserAndAsset(t)]
           /\ Goto(t, "upsert")
           /\ UNCHANGED <<call, next, mine, order, durable, rowLock, position, outcome>>
  <2>1. pc'[t] = "upsert" /\ \A u \in Trades \ {t} : pc'[u] = pc[u]
    BY <1>0, <1>3 DEF Goto, TypeOK
  <2>2. Applied(t)' = Applied(t)  BY <1>3 DEF Applied
  <2>3. Counted(t)' = Counted(t) /\ Moved(t)' = Moved(t)  BY <1>3, <2>2 DEF Counted, Moved
  <2>4. ~SeenFill(t)' /\ Balances(t)'
    BY <1>3 DEF SeenFill, Balances, Fill, Account, Holding
  <2>5. Books(t)'
    BY <1>0, <1>3, <2>1, <2>3, <2>4 DEF Books, Working, Covered, Quantity, Holding
  <2> QED BY <1>3, <2>1, <2>5, OwnBooksKept
<1> QED BY <1>1, <1>2, <1>3 DEF TakeFill

(* A fill is counted once in the order and once in the position.              *)
LEMMA UpsertPositionKeeps == ASSUME BInv, NEW t \in Trades, UpsertPosition(t) PROVE Kept'
<1>0. /\ TypeOK /\ Books(t) /\ pc[t] = "upsert"
      /\ next[t] <= Len(FillsOf(call[t])) /\ Current(t)
  BY DEF BInv, IInv, Kept, UpsertPosition, ReadIsCurrent
<1>1. ASSUME NEW why, Fail(t, why)  PROVE Kept'
  BY <1>0, <1>1, FailKeeps
<1>2. CASE /\ mine' = [mine EXCEPT ![t] = Upserted(seen[t], Delta(t), Fill(t).price)]
           /\ order' = [order EXCEPT ![t] = Filled(t)]
           /\ next' = [next EXCEPT ![t] = @ + 1]
           /\ seen' = [seen EXCEPT ![t] = NoPosition]
           /\ Goto(t, "fills")
           /\ UNCHANGED <<call, durable, rowLock, position, outcome>>
           /\ ~Flat(t)
  <2>1. /\ pc'[t] = "fills" /\ next'[t] = next[t] + 1 /\ order'[t] = Filled(t)
        /\ mine'[t] = Upserted(seen[t], Delta(t), Fill(t).price)
        /\ \A u \in Trades \ {t} : /\ pc'[u] = pc[u] /\ next'[u] = next[u]
                                   /\ mine'[u] = mine[u] /\ order'[u] = order[u]
    BY <1>0, <1>2 DEF Goto, TypeOK
  <2>2. Counted(t)' = Counted(t) + Fill(t).amount
    BY <1>0, <1>2, <2>1, CountNext DEF Books
  <2>3. /\ Counted(t) \in Int /\ Moved(t) \in Int
        /\ Fill(t).amount \in Int /\ Fill(t).price \in Int
        /\ next[t] = 1 => Counted(t) = 0
    BY <1>0, CountedType, FillType
  <2>4. Delta(t) \in Int /\ Moved(t)' = Moved(t) + Delta(t)
    BY <1>2, <2>2, <2>3 DEF Moved, Delta, DeltaOf
  <2>5. seen[t] \in Position \cup {NoPosition}  BY <1>0 DEF TypeOK
  <2>6. /\ mine'[t] \in Position
        /\ mine'[t].quantity = (IF seen[t] = NoPosition THEN 0 ELSE seen[t].quantity) + Delta(t)
    <3>1. mine'[t] \in Position
      BY <1>2, <2>1, <2>3, <2>4, <2>5, UpsertedType DEF Flat, ClosesShort
    <3>2. CASE seen[t] = NoPosition  BY <2>1, <2>4, <3>1, <3>2 DEF Upserted
    <3>3. CASE seen[t] # NoPosition  BY <2>1, <3>1, <3>3 DEF Upserted
    <3> QED BY <3>1, <3>2, <3>3
  <2>7. (IF seen[t] = NoPosition THEN 0 ELSE seen[t].quantity) = Quantity(Holding(t)) + Moved(t)
    <3>1. CASE mine[t] # NoPosition
      BY <1>0, <3>1 DEF Books, Working, Current, GetByUserAndAsset
    <3>2. CASE mine[t] = NoPosition
      <4>1. Moved(t) = 0  BY <1>0, <2>3, <3>2 DEF Books, Working, Moved
      <4>2. Holding(t) \in Holdings  BY <1>0 DEF TypeOK, Holding, IsCall
      <4>3. Quantity(Holding(t)) \in Int  BY <1>0, <4>2 DEF TypeOK, Quantity, Position
      <4> QED BY <1>0, <3>2, <4>1, <4>3 DEF Current, GetByUserAndAsset, Quantity
    <3> QED BY <3>1, <3>2
  <2>8. mine'[t] # NoPosition /\ mine'[t].quantity = (Quantity(Holding(t)) + Moved(t))'
    <3>1. Holding(t) \in Holdings  BY <1>0 DEF TypeOK, Holding, IsCall
    <3>2. Quantity(Holding(t)) \in Int  BY <1>0, <3>1 DEF TypeOK, Quantity, Position
    <3>3. Quantity(Holding(t))' = Quantity(Holding(t))  BY <1>2 DEF Quantity, Holding
    <3>4. mine'[t] # NoPosition  BY <2>6 DEF Position
    <3> QED BY <2>3, <2>4, <2>6, <2>7, <3>2, <3>3, <3>4
  <2>9. /\ order'[t].filled = Counted(t)'
        /\ order'[t].status = "FILLED" <=> order'[t].filled >= call[t].amount
        /\ order'[t].txn = "PENDING"
    <3>1. order[t] \in OrderType  BY <1>0 DEF TypeOK
    <3>2. /\ Filled(t).filled = order[t].filled + Fill(t).amount
          /\ Filled(t).txn = order[t].txn
          /\ Filled(t).status = IF order[t].filled + Fill(t).amount >= call[t].amount
                                THEN "FILLED" ELSE "PARTIALLY_FILLED"
      BY <3>1 DEF Filled, OrderType
    <3>3. order[t].filled = Counted(t) /\ order[t].txn = "PENDING"
      BY <1>0 DEF Books, Working
    <3> QED BY <2>1, <2>2, <3>2, <3>3
  <2>10. ~durable[t]  BY <1>0 DEF Books
  <2>11. Books(t)'
    BY <1>2, <2>1, <2>8, <2>9, <2>10 DEF Books, Working, Covered
  <2> QED BY <1>2, <2>1, <2>11, OwnBooksKept
<1> QED BY <1>1, <1>2 DEF UpsertPosition

(* Step 8 closes the order's books.                                           *)
LEMMA FinaliseKeeps == ASSUME BInv, NEW t \in Trades, Finalise(t) PROVE Kept'
<1>0. TypeOK /\ Books(t) /\ pc[t] = "fills" /\ next[t] > Len(FillsOf(call[t]))
  BY DEF BInv, IInv, Kept, Finalise
<1>1. /\ pc'[t] = "commit" /\ order'[t] = FinalOrder(t) /\ next' = next /\ mine' = mine
      /\ durable' = durable /\ call' = call /\ position' = position
      /\ \A u \in Trades \ {t} : pc'[u] = pc[u] /\ order'[u] = order[u]
  BY <1>0 DEF Finalise, Goto, TypeOK
<1>2. Applied(t)' = Applied(t)  BY <1>1 DEF Applied
<1>3. Counted(t)' = Counted(t) /\ Moved(t)' = Moved(t)  BY <1>1, <1>2 DEF Counted, Moved
<1>4. /\ order[t] \in OrderType /\ order[t].filled = Counted(t) /\ order[t].txn = "PENDING"
      /\ order[t].status = "FILLED" <=> order[t].filled >= call[t].amount
  BY <1>0 DEF TypeOK, Books, Working, Covered
<1>5. call[t].status \in {"OPEN", "PARTIALLY_FILLED", "FILLED", "REJECTED"}
  BY <1>0 DEF TypeOK, IsCall
<1>6. /\ FinalOrder(t).filled = order[t].filled
      /\ FinalOrder(t).status = IF call[t].status = "REJECTED" THEN "FAILED" ELSE order[t].status
      /\ FinalOrder(t).txn = "COMPLETED" =>
             call[t].status # "REJECTED" /\ order[t].status = "FILLED"
  BY <1>4, <1>5 DEF FinalOrder, OrderType
<1>7. Settled(t)'  BY <1>0, <1>1, <1>3, <1>4, <1>6 DEF Settled
<1>8. Books(t)'
  BY <1>0, <1>1, <1>3, <1>4, <1>6, <1>7 DEF Books, Working, Quantity, Holding
<1> QED BY <1>1, <1>8, OwnBooksKept

(* With its commit a trade's version of the position becomes the position,    *)
(* and its fills are among the durable ones.                                  *)
LEMMA CommitKeeps == ASSUME BInv, NEW t \in Trades, Commit(t) PROVE Kept'
<1>0. /\ TypeOK /\ LockHeld /\ Kept /\ Books(t) /\ pc[t] = "commit" /\ Settled(t)
      /\ ~durable[t] /\ Holding(t) \in Holdings
  BY DEF BInv, IInv, Kept, Books, Commit, TypeOK, Holding, IsCall
<1>1. /\ pc'[t] = "done" /\ durable'[t] = TRUE /\ call' = call /\ next' = next /\ order' = order
      /\ position'[Holding(t)] = IF mine[t] # NoPosition THEN mine[t] ELSE position[Holding(t)]
      /\ \A h \in Holdings \ {Holding(t)} : position'[h] = position[h]
      /\ \A u \in Trades \ {t} : pc'[u] = pc[u] /\ mine'[u] = mine[u] /\ durable'[u] = durable[u]
  BY <1>0 DEF Commit, Goto, TypeOK
<1>2. \A u \in Trades : Books(u)'
  <2> SUFFICES ASSUME NEW u \in Trades  PROVE Books(u)'
    OBVIOUS
  <2>1. CASE u = t
    <3>1. Applied(t)' = Applied(t)  BY <1>1 DEF Applied
    <3>2. Counted(t)' = Counted(t)  BY <3>1 DEF Counted
    <3>3. Settled(t)'  BY <1>0, <1>1, <3>2 DEF Settled
    <3> QED BY <2>1, <1>1, <3>3 DEF Books, Working
  <2>2. CASE u # t
    <3>1. pc[u] \in Working => Quantity(Holding(u))' = Quantity(Holding(u))
      <4> SUFFICES ASSUME pc[u] \in Working
                   PROVE  Quantity(Holding(u))' = Quantity(Holding(u))
        OBVIOUS
      <4>1. Holding(u) # Holding(t)  BY <1>0, <2>2, Alone DEF Working
      <4>2. Holding(u) \in Holdings  BY <1>0 DEF TypeOK, Holding, IsCall
      <4> QED BY <1>1, <4>1, <4>2 DEF Quantity, Holding
    <3>2. Books(u)  BY <1>0 DEF Kept
    <3> QED BY <1>1, <2>2, <3>1, <3>2, BooksKeep
  <2> QED BY <2>1, <2>2
<1>3. {u \in Trades : durable'[u]} = {u \in Trades : durable[u]} \cup {t}
  BY <1>1
<1>4. FiniteDurable'  BY <1>0, <1>3, FS_AddElement DEF Kept, FiniteDurable
<1>5. \A u \in Trades : Signed(u)' = Signed(u) /\ Holding(u)' = Holding(u)
  BY <1>1 DEF Signed, Executed, Holding
<1>6. \A u \in Trades : Signed(u) \in Int
  <2> SUFFICES ASSUME NEW u \in Trades  PROVE Executed(u) \in Int
    BY DEF Signed
  <2> DEFINE of == [f \in ToSet(FillsOf(call[u])) |-> f.amount]
  <2>1. /\ IsFiniteSet(ToSet(FillsOf(call[u]))) /\ DOMAIN of = ToSet(FillsOf(call[u]))
        /\ \A f \in ToSet(FillsOf(call[u])) : of[f] \in Int
    BY <1>0, FillsAreFinite
  <2>2. Executed(u) = SumFunctionOnSet(of, DOMAIN of)  BY DEF Executed, SumFunction
  <2> HIDE DEF of
  <2> QED BY <2>1, <2>2, SumInt
<1>7. Quantity(Holding(t))' = Quantity(Holding(t)) + Signed(t)
  <2>1. /\ Counted(t) = Executed(t) /\ (next[t] = 1 => Counted(t) = 0)
    BY <1>0, CountedType DEF Settled
  <2>2. Moved(t) = Signed(t)  BY <2>1 DEF Moved, Signed
  <2>3. Quantity(Holding(t)) \in Int  BY <1>0 DEF TypeOK, Quantity, Position
  <2>4. CASE mine[t] # NoPosition
    BY <1>0, <1>1, <1>5, <2>2, <2>4 DEF Books, Working, Quantity
  <2>5. CASE mine[t] = NoPosition
    <3>1. Signed(t) = 0  BY <1>0, <2>1, <2>5 DEF Books, Working, Signed
    <3>2. Quantity(Holding(t))' = Quantity(Holding(t))  BY <1>1, <1>5, <2>5 DEF Quantity
    <3> QED BY <2>3, <3>1, <3>2
  <2> QED BY <2>4, <2>5
<1>8. QuantityAgrees'
  <2> DEFINE of(h) == [u \in {v \in Trades : durable[v] /\ Holding(v) = h} |-> Signed(u)]
             ofNow(h) == [u \in {v \in Trades : durable'[v] /\ Holding(v) = h} |-> Signed(u)]
  <2>1. \A h \in Holdings : Quantity(h) = SumFunction(of(h))
    BY <1>0 DEF Kept, QuantityAgrees, Quantity
  <2> SUFFICES ASSUME NEW h \in Holdings  PROVE Quantity(h)' = SumFunction(ofNow(h))
    <3>1. ASSUME NEW h \in Holdings
          PROVE  [u \in {v \in Trades : durable'[v] /\ Holding(v)' = h} |-> Signed(u)'] = ofNow(h)
      BY <1>5
    <3> QED BY <3>1 DEF QuantityAgrees, Quantity
  <2>2. CASE h # Holding(t)
    <3>1. ofNow(h) = of(h)  BY <1>1, <2>2
    <3>2. Quantity(h)' = Quantity(h)  BY <1>1, <2>2 DEF Quantity
    <3> QED BY <2>1, <3>1, <3>2
  <2>3. CASE h = Holding(t)
    <3>1. /\ DOMAIN of(h) = {v \in Trades : durable[v] /\ Holding(v) = h}
          /\ DOMAIN ofNow(h) = DOMAIN of(h) \cup {t}
          /\ t \notin DOMAIN of(h)
          /\ \A u \in DOMAIN of(h) : ofNow(h)[u] = of(h)[u]
          /\ ofNow(h)[t] = Signed(t)
          /\ \A u \in DOMAIN ofNow(h) : ofNow(h)[u] \in Int
      BY <1>0, <1>1, <1>6, <2>3
    <3>2. IsFiniteSet(DOMAIN of(h))
      <4>1. DOMAIN of(h) \in SUBSET {u \in Trades : durable[u]}  BY <3>1
      <4> HIDE DEF of
      <4> QED BY <1>0, <4>1, FS_Subset DEF Kept, FiniteDurable
    <3>3. SumFunction(ofNow(h)) = Signed(t) + SumFunction(of(h))
      <4> HIDE DEF of, ofNow
      <4> QED BY <3>1, <3>2, SumExtends
    <3>4. Quantity(h) = SumFunction(of(h)) /\ Quantity(h) \in Int
      BY <1>0, <2>1 DEF TypeOK, Quantity, Position
    <3>5. Quantity(h)' = Quantity(h) + Signed(t)  BY <1>5, <1>7, <2>3 DEF Quantity
    <3> HIDE DEF of, ofNow
    <3> QED BY <1>6, <3>3, <3>4, <3>5
  <2> QED BY <2>2, <2>3
<1> QED BY <1>2, <1>4, <1>8 DEF Kept

(* Every step keeps the books.                                                *)
LEMMA NextKeeps == BInv /\ [Next]_vars => BInv'
<1> SUFFICES ASSUME BInv, [Next]_vars  PROVE Kept'
  BY NextPreserves DEF BInv
<1>1. ASSUME NEW t \in Trades, Abort(t)  PROVE Kept'
  BY <1>1, FailKeeps DEF Abort
<1>2. ASSUME NEW t \in Trades, Step(t)  PROVE Kept'
  BY <1>2, LockAccountKeeps, TakeFillKeeps, UpsertPositionKeeps, FinaliseKeeps, CommitKeeps
  DEF Step
<1>3. CASE UNCHANGED vars
  <2>1. \A t \in Trades : Books(t)'
    BY <1>3, BooksKeep DEF vars, BInv, Kept, Quantity, Holding
  <2>2. FiniteDurable'  BY <1>3 DEF vars, BInv, Kept, FiniteDurable
  <2>3. QuantityAgrees'
    BY <1>3 DEF vars, BInv, Kept, QuantityAgrees, Signed, Executed, Holding
  <2> QED BY <2>1, <2>2, <2>3 DEF Kept
<1> QED BY <1>1, <1>2, <1>3, ArriveKeeps DEF Next, Terminating

(* The books are always right. *)
THEOREM BooksAreKept == Spec => []BInv
<1>1. Init => BInv  BY InitEstablishes, InitKept DEF BInv
<1> QED BY <1>1, NextKeeps, PTL DEF Spec

(* However trades, rollbacks and crashes interleave, a position's quantity is *)
(* the sum of the fills of the committed trades: no update is lost, no fill   *)
(* is applied twice and none of a trade that was rolled back.                 *)
THEOREM QuantitiesAgree == Spec => []QuantityAgrees
BY BooksAreKept, PTL DEF BInv, Kept

(* A committed order has counted each fill of its answer once, and says it is *)
(* FILLED, if it is a BUY, exactly when they cover it, and its transaction    *)
(* COMPLETED only then.                                                       *)
THEOREM OrdersAgree == Spec => []FilledAgrees
<1>1. BInv => FilledAgrees
  BY CountedType DEF BInv, IInv, Kept, Books, Settled, FilledAgrees
<1> QED BY <1>1, BooksAreKept, PTL
--------------------------------------------------------------------------------
(* Division rounds down.                                                      *)
LEMMA DivBetween ==
    ASSUME NEW m \in Int, NEW b \in Int, b > 0, NEW k \in Int
    PROVE  /\ m \div b \in Int
           /\ k * b <= m => k <= m \div b
           /\ m < (k + 1) * b => m \div b <= k
<1>1. PICK x \in Int : x = m \div b /\ b * x <= m /\ m < b * x + b
  OBVIOUS
<1>2. ASSUME k * b <= m, x < k  PROVE FALSE
  <2>1. (x + 1) * b <= k * b  BY <1>2
  <2> QED BY <1>1, <1>2, <2>1
<1>3. ASSUME m < (k + 1) * b, k < x  PROVE FALSE
  <2>1. (k + 1) * b <= x * b  BY <1>3
  <2> QED BY <1>1, <1>3, <2>1
<1> QED BY <1>1, <1>2, <1>3

(* A rounded quotient is between whole numbers the quotient is between.       *)
LEMMA RoundedBetween ==
    ASSUME NEW n \in Int, NEW d \in Int, d > 0, NEW lo \in Int, NEW hi \in Int,
           lo * d <= n, n <= hi * d
    PROVE  lo <= Rounded(n, d) /\ Rounded(n, d) <= hi
<1>1. lo * (2 * d) = 2 * (lo * d) /\ hi * (2 * d) = 2 * (hi * d)  OBVIOUS
<1>2. lo * d \in Int /\ hi * d \in Int  OBVIOUS
<1>3. CASE n >= 0
  <2> DEFINE top == 2 * n + d
             size == top \div (2 * d)
  <2>1. Rounded(n, d) = size  BY <1>3 DEF Rounded
  <2>2. lo * (2 * d) <= top /\ top < (hi + 1) * (2 * d)
    <3>1. (hi + 1) * (2 * d) = hi * (2 * d) + 2 * d  OBVIOUS
    <3> QED BY <1>1, <1>2, <3>1
  <2>3. top \in Int /\ 2 * d \in Int /\ 2 * d > 0  OBVIOUS
  <2>4. lo <= top \div (2 * d) /\ top \div (2 * d) <= hi
    <3> HIDE DEF top
    <3> QED BY <2>2, <2>3, DivBetween
  <2> QED BY <2>1, <2>4
<1>4. CASE n < 0
  <2> DEFINE top == 2 * (-n) + d
             size == top \div (2 * d)
  <2>1. Rounded(n, d) = -size  BY <1>4 DEF Rounded
  <2>2. (-hi) * (2 * d) <= top /\ top < (-lo + 1) * (2 * d)
    <3>1. (-lo + 1) * (2 * d) = 2 * d - lo * (2 * d) /\ (-hi) * (2 * d) = -(hi * (2 * d))
      OBVIOUS
    <3> QED BY <1>1, <1>2, <3>1
  <2>3. top \in Int /\ 2 * d \in Int /\ 2 * d > 0  OBVIOUS
  <2>4. top \div (2 * d) \in Int /\ -hi <= top \div (2 * d) /\ top \div (2 * d) <= -lo
    <3> HIDE DEF top
    <3> QED BY <2>2, <2>3, DivBetween
  <2>5. size \in Int /\ -hi <= size /\ size <= -lo  BY <2>4
  <2> HIDE DEF size
  <2> QED BY <2>1, <2>5
<1> QED BY <1>3, <1>4

(* The cost of a position and of a purchase, over both quantities, is between *)
(* the two prices.                                                            *)
LEMMA AverageBetween ==
    ASSUME NEW q \in Int, q >= 0, NEW d \in Int, d > 0, NEW a \in Int, NEW p \in Int,
           NEW lo \in Int, NEW hi \in Int, lo <= a, a <= hi, lo <= p, p <= hi
    PROVE  /\ lo <= Rounded(q * a + d * p, q + d)
           /\ Rounded(q * a + d * p, q + d) <= hi
<1>1. q * lo <= q * a /\ q * a <= q * hi  OBVIOUS
<1>2. d * lo <= d * p /\ d * p <= d * hi  OBVIOUS
<1>3. lo * (q + d) = q * lo + d * lo /\ hi * (q + d) = q * hi + d * hi  OBVIOUS
<1>4. /\ q * lo \in Int /\ q * a \in Int /\ q * hi \in Int
      /\ d * lo \in Int /\ d * p \in Int /\ d * hi \in Int
  OBVIOUS
<1>5. lo * (q + d) <= q * a + d * p /\ q * a + d * p <= hi * (q + d)
  BY <1>1, <1>2, <1>3, <1>4
<1>6. q * a + d * p \in Int /\ q + d \in Int /\ q + d > 0  BY <1>4
<1> DEFINE n == q * a + d * p
           b == q + d
<1>7. n \in Int /\ b \in Int /\ b > 0 /\ lo * b <= n /\ n <= hi * b  BY <1>5, <1>6
<1>8. lo <= Rounded(n, b) /\ Rounded(n, b) <= hi
  <2> HIDE DEF n, b
  <2> QED BY <1>7, RoundedBetween
<1> QED BY <1>8
--------------------------------------------------------------------------------
(* What the exchange never does and the code does not check: an execution of  *)
(* a negative amount.  (create_double_entry refuses a negative value, which   *)
(* it has not if its price is negative too.)                                  *)
NoNegativeFills ==
    \A c \in Calls : \A i \in DOMAIN FillsOf(c) : FillsOf(c)[i].amount >= 0

(* The prices a trade's version of the position is made of. *)
Prices(t) ==
    {f.price : f \in Applied(t)}
        \cup (IF position[Holding(t)] # NoPosition THEN {position[Holding(t)].average} ELSE {})

AverageKnown(t) ==
    LET old == position[Holding(t)] IN
    /\ call[t].side = "SELL" /\ old # NoPosition => mine[t].average = old.average
    /\ call[t].side = "BUY" /\ Quantity(Holding(t)) >= 0 =>
          /\ mine[t].quantity >= 0
          /\ \E p, q \in Prices(t) : p <= mine[t].average /\ mine[t].average <= q

Averages == \A t \in Trades : pc[t] \in Working /\ mine[t] # NoPosition => AverageKnown(t)

(* Prices are whole numbers. *)
LEMMA PricesAre ==
    ASSUME TypeOK, NEW t \in Trades
    PROVE  Prices(t) \subseteq Int
<1>1. \A f \in Applied(t) : f.price \in Int  BY FillsAreFinite
<1>2. Holding(t) \in Holdings  BY DEF TypeOK, Holding, IsCall
<1>3. position[Holding(t)] # NoPosition => position[Holding(t)].average \in Int
  BY <1>2 DEF TypeOK, Position
<1> QED BY <1>1, <1>3 DEF Prices

(* A trade whose version of the position and fills are as they were knows the *)
(* average it knew.                                                           *)
LEMMA AverageKeeps ==
    ASSUME NEW u \in Trades, AverageKnown(u), call' = call, mine'[u] = mine[u],
           Applied(u)' = Applied(u), position'[Holding(u)] = position[Holding(u)]
    PROVE  AverageKnown(u)'
<1>1. Holding(u)' = Holding(u)  BY DEF Holding
<1>2. position[Holding(u)]' = position[Holding(u)]  BY <1>1
<1>3. Prices(u)' = Prices(u)  BY <1>2 DEF Prices
<1> QED BY <1>2, <1>3 DEF AverageKnown, Quantity

(* The fill a trade writes has a positive amount.                             *)
LEMMA AmountPositive ==
    ASSUME NoNegativeFills, BInv, NEW t \in Trades, pc[t] = "upsert"
    PROVE  Fill(t).amount > 0
<1>1. /\ TypeOK /\ Books(t) /\ next[t] <= Len(FillsOf(call[t]))
  BY DEF BInv, IInv, Kept, ReadIsCurrent
<1>2. Fill(t).amount \in Int /\ Fill(t).price \in Int  BY <1>1, FillType
<1>3. Fill(t).price * Fill(t).amount > 0  BY <1>1 DEF Books, Balances
<1>4. Fill(t).amount >= 0
  <2>1. next[t] \in DOMAIN FillsOf(call[t])  BY <1>1, FillsAre DEF TypeOK
  <2>2. call[t] \in Calls  BY <1>1 DEF TypeOK
  <2> QED BY <2>1, <2>2 DEF NoNegativeFills, Fill
<1>5. Fill(t).amount # 0
  <2> SUFFICES ASSUME Fill(t).amount = 0  PROVE FALSE
    OBVIOUS
  <2>1. Fill(t).price * 0 = 0  BY <1>2
  <2> QED BY <1>3, <2>1
<1> QED BY <1>2, <1>4, <1>5

(* A fill moves the average no further than to its own price.                 *)
LEMMA UpsertAverages ==
    ASSUME NoNegativeFills, BInv, Averages, NEW t \in Trades, pc[t] = "upsert", ~Flat(t),
           mine'[t] = Upserted(seen[t], Delta(t), Fill(t).price),
           next'[t] = next[t] + 1, call' = call, position' = position
    PROVE  AverageKnown(t)'
<1> DEFINE old == position[Holding(t)]
           h == Holding(t)
<1>1. /\ TypeOK /\ Books(t) /\ next[t] <= Len(FillsOf(call[t])) /\ Current(t)
      /\ call[t].side \in {"BUY", "SELL"} /\ h \in Holdings
  BY DEF BInv, IInv, Kept, ReadIsCurrent, TypeOK, IsCall, Holding
<1>2. Fill(t).amount \in Int /\ Fill(t).price \in Int /\ Fill(t).amount > 0
  BY <1>1, FillType, AmountPositive
<1>3. h' = h /\ (Quantity(h))' = Quantity(h)  BY DEF Holding, Quantity
<1>4. Applied(t)' = Applied(t) \cup {Fill(t)}  BY <1>1, CountNext DEF Books
<1>5. Prices(t)' = Prices(t) \cup {Fill(t).price}  BY <1>3, <1>4 DEF Prices
<1>6. Prices(t) \subseteq Int  BY <1>1, PricesAre
<1>7. old \in Position \cup {NoPosition} /\ seen[t] \in Position \cup {NoPosition}
  BY <1>1 DEF TypeOK
<1>8. seen[t] = IF mine[t] # NoPosition THEN mine[t] ELSE old
  BY <1>1 DEF Current, GetByUserAndAsset
<1>9. mine[t] # NoPosition => AverageKnown(t)  BY DEF Averages, Working
<1>10. CASE call[t].side = "SELL"
  <2> SUFFICES ASSUME old # NoPosition  PROVE mine'[t].average = old.average
    BY <1>3, <1>10 DEF AverageKnown
  <2>1. seen[t] # NoPosition /\ seen[t].average = old.average
    BY <1>8, <1>9, <1>10 DEF AverageKnown
  <2>2. ~(Delta(t) > 0)  BY <1>2, <1>10 DEF Delta, DeltaOf
  <2> QED BY <2>1, <2>2 DEF Upserted, NewAverage
<1>11. CASE call[t].side = "BUY"
  <2> SUFFICES ASSUME Quantity(h) >= 0
               PROVE  /\ mine'[t].quantity >= 0
                      /\ \E p, q \in Prices(t) \cup {Fill(t).price} :
                             p <= mine'[t].average /\ mine'[t].average <= q
    BY <1>3, <1>5, <1>11 DEF AverageKnown
  <2>1. Delta(t) = Fill(t).amount  BY <1>11 DEF Delta, DeltaOf
  <2>2. CASE seen[t] = NoPosition
    <3>1. mine'[t] = [quantity |-> Fill(t).amount, average |-> Fill(t).price]
      BY <1>2, <2>1, <2>2 DEF Upserted
    <3>2. mine'[t].quantity >= 0 /\ mine'[t].average = Fill(t).price  BY <1>2, <3>1
    <3>3. Fill(t).price <= Fill(t).price  BY <1>2
    <3> QED BY <3>2, <3>3
  <2>3. CASE seen[t] # NoPosition
    <3> DEFINE a == seen[t].average
               d == Fill(t).amount
               p == Fill(t).price
    <3>1. PICK lo, hi \in Prices(t) : lo <= a /\ a <= hi
      <4>1. CASE mine[t] # NoPosition  BY <1>8, <1>9, <1>11, <4>1 DEF AverageKnown
      <4>2. CASE mine[t] = NoPosition
        <5>1. old # NoPosition /\ a = old.average /\ a \in Int
          BY <1>7, <1>8, <2>3, <4>2 DEF Position
        <5>2. a \in Prices(t) /\ a <= a  BY <5>1 DEF Prices
        <5> QED BY <5>2
      <4> QED BY <4>1, <4>2
    <3>2. seen[t].quantity >= 0
      <4>1. CASE mine[t] # NoPosition  BY <1>8, <1>9, <1>11, <4>1 DEF AverageKnown
      <4>2. CASE mine[t] = NoPosition  BY <1>8, <2>3, <4>2 DEF Quantity
      <4> QED BY <4>1, <4>2
    <3>3. seen[t].quantity \in Int /\ a \in Int  BY <1>7, <2>3 DEF Position
    <3>4. /\ mine'[t].quantity = seen[t].quantity + d
          /\ mine'[t].average = Rounded(seen[t].quantity * a + d * p, seen[t].quantity + d)
      BY <1>2, <2>1, <2>3 DEF Upserted, NewAverage
    <3>5. lo \in Int /\ hi \in Int  BY <1>6
    <3>6. PICK l, u \in {lo, hi, p} : l <= a /\ l <= p /\ a <= u /\ p <= u
      BY <1>2, <3>1, <3>3, <3>5
    <3>7. l \in Int /\ u \in Int  BY <1>2, <3>5
    <3>8. d \in Int /\ d > 0 /\ p \in Int  BY <1>2
    <3>9. l <= mine'[t].average /\ mine'[t].average <= u
      <4> HIDE DEF a, d, p
      <4> QED BY <3>2, <3>3, <3>4, <3>6, <3>7, <3>8, AverageBetween
    <3> QED BY <1>2, <3>2, <3>3, <3>4, <3>9
  <2> QED BY <2>2, <2>3
<1> QED BY <1>1, <1>10, <1>11

(* Every step keeps what is known of averages.                                *)
LEMMA NextAverages ==
    ASSUME NoNegativeFills, BInv, Averages, [Next]_vars
    PROVE  Averages'
<1>0. TypeOK /\ LockHeld /\ \A t \in Trades : Books(t)  BY DEF BInv, IInv, Kept
<1>1. ASSUME NEW u \in Trades, call' = call, mine'[u] = mine[u],
             Applied(u)' = Applied(u), position'[Holding(u)] = position[Holding(u)],
             pc[u] \in Working, mine'[u] # NoPosition
      PROVE  AverageKnown(u)'
  BY <1>1, AverageKeeps DEF Averages
<1>2. ASSUME NEW u \in Trades, call' = call, next'[u] = next[u]
      PROVE  Applied(u)' = Applied(u)
  BY <1>2 DEF Applied
<1>3. ASSUME NEW t \in Trades, NEW why, Fail(t, why)  PROVE Averages'
  <2> SUFFICES ASSUME NEW u \in Trades, pc'[u] \in Working, mine'[u] # NoPosition
               PROVE  AverageKnown(u)'
    BY DEF Averages
  <2>1. u # t /\ pc[u] \in Working /\ mine'[u] = mine[u]
    BY <1>0, <1>3 DEF Fail, Goto, TypeOK, Working
  <2>2. call' = call /\ next' = next /\ position' = position  BY <1>3 DEF Fail
  <2> QED BY <1>1, <1>2, <2>1, <2>2
<1>4. ASSUME NEW t \in Trades, Arrive(t) \/ LockAccount(t) \/ Finalise(t)  PROVE Averages'
  <2> SUFFICES ASSUME NEW u \in Trades, pc'[u] \in Working, mine'[u] # NoPosition
               PROVE  AverageKnown(u)'
    BY DEF Averages
  <2>1. call' = call /\ next' = next /\ position' = position /\ mine' = mine
    BY <1>4 DEF Arrive, LockAccount, Finalise
  <2>2. pc[u] \in Working  BY <1>0, <2>1 DEF TypeOK, Working
  <2> QED BY <1>1, <1>2, <2>1, <2>2
<1>5. ASSUME NEW t \in Trades, TakeFill(t)  PROVE Averages'
  <2>1. CASE Fail(t, "LedgerImbalanceError")  BY <1>3, <2>1
  <2>2. CASE ~Fail(t, "LedgerImbalanceError")
    <3> SUFFICES ASSUME NEW u \in Trades, pc'[u] \in Working, mine'[u] # NoPosition
                 PROVE  AverageKnown(u)'
      BY DEF Averages
    <3>1. /\ call' = call /\ position' = position /\ mine' = mine
          /\ next' = next \/ (SeenFill(t) /\ next' = [next EXCEPT ![t] = @ + 1])
      BY <1>5, <2>2 DEF TakeFill
    <3>2. pc[u] \in Working  BY <1>0, <3>1 DEF TypeOK, Working
    <3>3. Applied(u)' = Applied(u)
      <4>1. CASE next'[u] = next[u]  BY <1>2, <3>1, <4>1
      <4>2. CASE next'[u] # next[u]
        <5>1. u = t /\ SeenFill(t) /\ next'[t] = next[t] + 1  BY <1>0, <3>1, <4>2 DEF TypeOK
        <5>2. next[t] <= Len(FillsOf(call[t]))  BY <1>5 DEF TakeFill
        <5> QED BY <1>0, <3>1, <5>1, <5>2, CountNext
      <4> QED BY <4>1, <4>2
    <3> QED BY <1>1, <3>1, <3>2, <3>3
  <2> QED BY <2>1, <2>2
<1>6. ASSUME NEW t \in Trades, UpsertPosition(t)  PROVE Averages'
  <2>1. CASE \E why : Fail(t, why)  BY <1>3, <2>1
  <2>2. CASE ~\E why : Fail(t, why)
    <3> SUFFICES ASSUME NEW u \in Trades, pc'[u] \in Working, mine'[u] # NoPosition
                 PROVE  AverageKnown(u)'
      BY DEF Averages
    <3>1. /\ call' = call /\ position' = position /\ ~Flat(t) /\ pc[t] = "upsert"
          /\ mine' = [mine EXCEPT ![t] = Upserted(seen[t], Delta(t), Fill(t).price)]
          /\ next' = [next EXCEPT ![t] = @ + 1]
      BY <1>6, <2>2 DEF UpsertPosition
    <3>2. CASE u = t
      <4>1. /\ mine'[t] = Upserted(seen[t], Delta(t), Fill(t).price)
            /\ next'[t] = next[t] + 1
        BY <1>0, <3>1 DEF TypeOK
      <4> QED BY <3>1, <3>2, <4>1, UpsertAverages
    <3>3. CASE u # t
      <4>1. mine'[u] = mine[u] /\ next'[u] = next[u]  BY <1>0, <3>1, <3>3 DEF TypeOK
      <4>2. pc[u] \in Working  BY <1>0, <4>1 DEF TypeOK, Working
      <4> QED BY <1>1, <1>2, <3>1, <4>1, <4>2
    <3> QED BY <3>2, <3>3
  <2> QED BY <2>1, <2>2
<1>7. ASSUME NEW t \in Trades, Commit(t)  PROVE Averages'
  <2> SUFFICES ASSUME NEW u \in Trades, pc'[u] \in Working, mine'[u] # NoPosition
               PROVE  AverageKnown(u)'
    BY DEF Averages
  <2>1. u # t /\ pc[u] \in Working /\ mine'[u] = mine[u] /\ pc[t] \in Working
    BY <1>0, <1>7 DEF Commit, Goto, TypeOK, Working
  <2>2. Holding(u) # Holding(t) /\ Holding(u) \in Holdings
    BY <1>0, <2>1, Alone DEF TypeOK, Holding, IsCall
  <2>3. call' = call /\ next' = next /\ position'[Holding(u)] = position[Holding(u)]
    BY <1>0, <1>7, <2>2 DEF Commit, TypeOK
  <2> QED BY <1>1, <1>2, <2>1, <2>3
<1>8. CASE UNCHANGED vars
  <2> SUFFICES ASSUME NEW u \in Trades, pc'[u] \in Working, mine'[u] # NoPosition
               PROVE  AverageKnown(u)'
    BY DEF Averages
  <2> QED BY <1>1, <1>2, <1>8 DEF vars
<1> QED BY <1>3, <1>4, <1>5, <1>6, <1>7, <1>8 DEF Next, Step, Abort, Terminating

(* The commit that makes a trade durable publishes its version of the position. *)
LEMMA CommitAverages ==
    ASSUME BInv, Averages, [Next]_vars, NEW t \in Trades,
           durable'[t], ~durable[t], mine[t] # NoPosition
    PROVE  AverageMoves(t)
<1>0. TypeOK /\ Holding(t) \in Holdings  BY DEF BInv, IInv, TypeOK, Holding, IsCall
<1>1. Commit(t)
  <2>1. ASSUME NEW u \in Trades, Arrive(u) \/ Step(u) \/ Abort(u), ~Commit(u)
        PROVE  durable' = durable
    BY <2>1 DEF Step, Arrive, LockAccount, TakeFill, UpsertPosition, Finalise, Abort, Fail
  <2>2. PICK u \in Trades : Commit(u)  BY <2>1 DEF Next, Terminating, vars
  <2>3. u = t  BY <1>0, <2>2 DEF Commit, TypeOK
  <2> QED BY <2>2, <2>3
<1>2. pc[t] \in Working /\ position'[Holding(t)] = mine[t]
  BY <1>0, <1>1 DEF Commit, TypeOK, Working
<1>3. AverageKnown(t)  BY <1>2 DEF Averages
<1>4. Prices(t) \subseteq {f.price : f \in ToSet(FillsOf(call[t]))}
          \cup (IF position[Holding(t)] # NoPosition THEN {position[Holding(t)].average} ELSE {})
  BY <1>0, FillsAreFinite DEF Prices
<1>5. call[t].side \in {"BUY", "SELL"}  BY <1>0 DEF TypeOK, IsCall
<1>6. CASE call[t].side = "SELL"  BY <1>2, <1>3, <1>6 DEF AverageMoves, AverageKnown
<1>7. CASE call[t].side = "BUY"
  BY <1>2, <1>3, <1>4, <1>7 DEF AverageMoves, AverageKnown, Quantity
<1> QED BY <1>5, <1>6, <1>7

(* Unless the exchange executes negative amounts, a trade that commits leaves *)
(* the average cost of a position that is not short between what it was and   *)
(* the prices paid, and a sale leaves it where it was, whatever the roundings *)
(* of its fills and the other trades.                                         *)
THEOREM AveragesStayBetween ==
    ASSUME NoNegativeFills
    PROVE  Spec => AverageStaysBetween
<1>1. Init => Averages  BY DEF Init, Averages
<1>2. BInv /\ Averages /\ [Next]_vars => Averages'  BY NextAverages
<1>3. BInv /\ Averages /\ [Next]_vars =>
          [\A t \in Trades : durable'[t] /\ ~durable[t] /\ mine[t] # NoPosition
               => AverageMoves(t)]_vars
  BY CommitAverages
<1> QED BY <1>1, <1>2, <1>3, BooksAreKept, PTL DEF Spec, AverageStaysBetween
--------------------------------------------------------------------------------
(* A trade's work is the only work on its position. *)
WorkOf(t) == [of |-> call[t], applied |-> Applied(t), version |-> mine[t]]

WorkIsOf ==
    /\ \A t \in Trades : mine[t] # NoPosition => WorkOn(Holding(t)) = {WorkOf(t)}
    /\ \A h \in Holdings :
           (\A t \in Trades : Holding(t) = h => mine[t] = NoPosition) => WorkOn(h) = {}

(* At most one trade has a version of a position of its own.                  *)
LEMMA OneWriter == IInv => WorkIsOf
<1> SUFFICES ASSUME IInv  PROVE WorkIsOf
  OBVIOUS
<1>1. ASSUME NEW t \in Trades, mine[t] # NoPosition
      PROVE  WorkOn(Holding(t)) = {WorkOf(t)}
  <2>1. \A u \in Trades : Holding(u) = Holding(t) /\ mine[u] # NoPosition => u = t
    BY <1>1, Alone DEF IInv, TypeOK, Working
  <2>2. {u \in Trades : Holding(u) = Holding(t) /\ mine[u] # NoPosition} = {t}
    BY <1>1, <2>1
  <2> QED BY <2>2 DEF WorkOn, WorkOf
<1>2. ASSUME NEW h \in Holdings, \A t \in Trades : Holding(t) = h => mine[t] = NoPosition
      PROVE  WorkOn(h) = {}
  BY <1>2 DEF WorkOn
<1> QED BY <1>1, <1>2 DEF WorkIsOf

(* Before the first trade nobody works on a position.                         *)
LEMMA InitBook == Init => Book!Init
BY DEF Init, Book!Init, WorkOn

(* What neither a version nor a new fill changes is not seen in the book.     *)
LEMMA Unnoticed ==
    ASSUME position' = position, call' = call, mine' = mine,
           \A t \in Trades : mine[t] # NoPosition => Applied(t)' = Applied(t)
    PROVE  UNCHANGED <<position, [h \in Holdings |-> WorkOn(h)]>>
<1>1. ASSUME NEW h \in Holdings  PROVE WorkOn(h)' = WorkOn(h)
  BY DEF WorkOn, Holding
<1> QED BY <1>1

(* A trade's step leaves the work on other positions as it is.                *)
LEMMA OtherWork ==
    ASSUME NEW t \in Trades, NEW h \in Holdings, h # Holding(t), call' = call,
           \A u \in Trades \ {t} : mine'[u] = mine[u] /\ next'[u] = next[u]
    PROVE  WorkOn(h)' = WorkOn(h)
<1>1. \A u \in Trades \ {t} : Applied(u)' = Applied(u)  BY DEF Applied
<1>2. \A u \in Trades : Holding(u) = h => u # t  OBVIOUS
<1> QED BY <1>1, <1>2 DEF WorkOn, Holding

(* A trade that ends takes its work off the book.                             *)
LEMMA WorkEnds ==
    ASSUME IInv, NEW t \in Trades, mine[t] # NoPosition, call' = call, next' = next,
           mine' = [mine EXCEPT ![t] = NoPosition]
    PROVE  [h \in Holdings |-> WorkOn(h)]'
               = [[h \in Holdings |-> WorkOn(h)] EXCEPT ![Holding(t)] = {}]
<1>1. \A u \in Trades : mine'[u] = IF u = t THEN NoPosition ELSE mine[u]
  BY DEF IInv, TypeOK
<1>2. \A u \in Trades : Holding(u) = Holding(t) /\ mine[u] # NoPosition => u = t
  BY Alone DEF IInv, TypeOK, Working
<1>3. WorkOn(Holding(t))' = {}
  <2>1. {u \in Trades : Holding(u)' = Holding(t)' /\ mine'[u] # NoPosition} = {}
    BY <1>1, <1>2 DEF Holding
  <2> QED BY <2>1 DEF WorkOn
<1>4. \A h \in Holdings : h # Holding(t) => WorkOn(h)' = WorkOn(h)  BY <1>1, OtherWork
<1>5. Holding(t)' = Holding(t)  BY DEF Holding
<1> HIDE DEF WorkOn
<1>6. [h \in Holdings |-> WorkOn(h)]' = [h \in Holdings |-> WorkOn(h)']  OBVIOUS
<1> QED BY <1>3, <1>4, <1>5, <1>6

(* A rollback takes the work on a position off, if there was any.             *)
LEMMA FailBook ==
    ASSUME BInv, NEW t \in Trades, NEW why \in Outcomes, Fail(t, why)
    PROVE  [Book!Next]_<<position, [h \in Holdings |-> WorkOn(h)]>>
<1> USE DEF Fail
<1>0. TypeOK  BY DEF BInv, IInv
<1>1. Holding(t) \in Holdings  BY <1>0 DEF TypeOK, Holding, IsCall
<1>2. CASE mine[t] = NoPosition
  <2>1. mine' = mine  BY <1>0, <1>2 DEF TypeOK
  <2>2. \A u \in Trades : Applied(u)' = Applied(u)  BY DEF Applied
  <2> QED BY <2>1, <2>2, Unnoticed
<1>3. CASE mine[t] # NoPosition
  <2>1. [h \in Holdings |-> WorkOn(h)]'
            = [[h \in Holdings |-> WorkOn(h)] EXCEPT ![Holding(t)] = {}]
    BY <1>3, WorkEnds DEF BInv
  <2>2. Book!RollBack(Holding(t))  BY <2>1 DEF Book!RollBack
  <2> QED BY <1>1, <2>2 DEF Book!Next
<1> QED BY <1>2, <1>3

(* A trade that has written a position commits its work, with all its fills.  *)
LEMMA CommitBook ==
    ASSUME BInv, WorkIsOf, NEW t \in Trades, Commit(t)
    PROVE  [Book!Next]_<<position, [h \in Holdings |-> WorkOn(h)]>>
<1> USE DEF Commit
<1>0. TypeOK  BY DEF BInv, IInv
<1>1. Holding(t) \in Holdings  BY <1>0 DEF TypeOK, Holding, IsCall
<1>2. CASE mine[t] = NoPosition
  <2>1. mine' = mine /\ position' = position  BY <1>0, <1>1, <1>2 DEF TypeOK
  <2>2. \A u \in Trades : Applied(u)' = Applied(u)  BY DEF Applied
  <2> QED BY <2>1, <2>2, Unnoticed
<1>3. CASE mine[t] # NoPosition
  <2>1. [h \in Holdings |-> WorkOn(h)]'
            = [[h \in Holdings |-> WorkOn(h)] EXCEPT ![Holding(t)] = {}]
    BY <1>3, WorkEnds DEF BInv
  <2>2. Applied(t) = ToSet(FillsOf(call[t]))
    BY <1>0, AllApplied DEF BInv, Kept, Books, Settled
  <2>3. WorkOn(Holding(t)) = {WorkOf(t)}  BY <1>3 DEF WorkIsOf
  <2>4. position' = [position EXCEPT ![Holding(t)] = mine[t]]  BY <1>3
  <2>5. Book!Commit(Holding(t), WorkOf(t))
    BY <2>1, <2>2, <2>4 DEF Book!Commit, WorkOf
  <2>6. WorkOf(t) \in [h \in Holdings |-> WorkOn(h)][Holding(t)]  BY <1>1, <2>3
  <2> QED BY <1>1, <2>5, <2>6 DEF Book!Next
<1> QED BY <1>2, <1>3
(* A fill seen before is skipped, a refused one rolls back.                   *)
LEMMA TakeFillBook ==
    ASSUME BInv, NEW t \in Trades, TakeFill(t)
    PROVE  [Book!Next]_<<position, [h \in Holdings |-> WorkOn(h)]>>
<1>0. TypeOK /\ next[t] <= Len(FillsOf(call[t]))  BY DEF BInv, IInv, TakeFill
<1>1. CASE /\ SeenFill(t)
           /\ next' = [next EXCEPT ![t] = @ + 1]
           /\ UNCHANGED <<pc, call, seen, mine, order, durable, rowLock, position, outcome>>
  <2>1. next'[t] = next[t] + 1 /\ \A u \in Trades \ {t} : next'[u] = next[u]
    BY <1>0, <1>1 DEF TypeOK
  <2>2. Applied(t)' = Applied(t)  BY <1>0, <1>1, <2>1, CountNext
  <2>3. \A u \in Trades \ {t} : Applied(u)' = Applied(u)  BY <1>1, <2>1 DEF Applied
  <2> QED BY <1>1, <2>2, <2>3, Unnoticed
<1>2. CASE Fail(t, "LedgerImbalanceError")  BY <1>2, FailBook DEF Outcomes
<1>3. CASE UNCHANGED <<call, next, mine, position>>
  <2>1. \A u \in Trades : Applied(u)' = Applied(u)  BY <1>3 DEF Applied
  <2> QED BY <1>3, <2>1, Unnoticed
<1> QED BY <1>1, <1>2, <1>3 DEF TakeFill

(* The first write begins the work on a position, the next ones continue it   *)
(* from what the trade has written itself; each is of a fill not yet applied. *)
LEMMA UpsertPositionBook ==
    ASSUME BInv, WorkIsOf, WorkIsOf', NEW t \in Trades, UpsertPosition(t)
    PROVE  [Book!Next]_<<position, [h \in Holdings |-> WorkOn(h)]>>
<1> DEFINE H == Holding(t)
           f == Fill(t)
<1>0. /\ TypeOK /\ Books(t) /\ pc[t] = "upsert" /\ ~SeenFill(t)
      /\ next[t] <= Len(FillsOf(call[t])) /\ seen[t] = GetByUserAndAsset(t)
  BY DEF BInv, IInv, Kept, UpsertPosition, ReadIsCurrent, Books, Current
<1>1. ASSUME NEW why \in Outcomes, Fail(t, why)
      PROVE  [Book!Next]_<<position, [h \in Holdings |-> WorkOn(h)]>>
  BY <1>1, FailBook
<1>2. CASE /\ ~Flat(t) /\ ~InFlight(t)
           /\ mine' = [mine EXCEPT ![t] = Upserted(seen[t], Delta(t), Fill(t).price)]
           /\ next' = [next EXCEPT ![t] = @ + 1]
           /\ UNCHANGED <<call, durable, rowLock, position, outcome>>
  <2>0. H \in Holdings /\ call[t] \in Calls  BY <1>0 DEF TypeOK, Holding, IsCall
  <2>1. /\ next'[t] = next[t] + 1 /\ mine'[t] = Upserted(seen[t], Delta(t), f.price)
        /\ \A u \in Trades \ {t} : mine'[u] = mine[u] /\ next'[u] = next[u]
    BY <1>0, <1>2 DEF TypeOK
  <2>2. f \notin Applied(t) /\ Applied(t)' = Applied(t) \cup {f}
    BY <1>0, <1>2, <2>1, CountNext
  <2>3. f \in ToSet(FillsOf(call[t]))
    <3>1. next[t] \in DOMAIN FillsOf(call[t])  BY <1>0, FillsAre DEF TypeOK
    <3> QED BY <3>1 DEF ToSet, Fill
  <2>4. mine'[t] # NoPosition
    <3>1. Delta(t) \in Int /\ f.price \in Int  BY <1>0, FillType DEF Delta, DeltaOf
    <3>2. mine'[t] \in Position
      BY <1>0, <1>2, <2>1, <3>1, UpsertedType DEF TypeOK, Flat, ClosesShort
    <3> QED BY <3>2 DEF Position
  <2>5. WorkOn(H)' = {WorkOf(t)'}  BY <2>4 DEF WorkIsOf
  <2>6. \A h \in Holdings : h # H => WorkOn(h)' = WorkOn(h)  BY <1>2, <2>1, OtherWork
  <2>7. WorkOf(t)' = [of |-> call[t], applied |-> Applied(t) \cup {f},
                      version |-> Upserted(seen[t], DeltaOf(call[t], f), f.price)]
    BY <1>2, <2>1, <2>2 DEF WorkOf, Delta
  <2>8. [h \in Holdings |-> WorkOn(h)]'
            = [[h \in Holdings |-> WorkOn(h)] EXCEPT ![H] = {WorkOf(t)'}]
    <3>1. [h \in Holdings |-> WorkOn(h)]' = [h \in Holdings |-> WorkOn(h)']  OBVIOUS
    <3>2. Holding(t)' = Holding(t)  BY <1>2 DEF Holding
    <3> QED BY <2>5, <2>6, <3>1, <3>2
  <2>9. ~ClosesShort(seen[t], DeltaOf(call[t], f))  BY <1>2 DEF Flat, Delta
  <2>10. CASE mine[t] = NoPosition
    <3>1. seen[t] = position[H]  BY <1>0, <2>10 DEF GetByUserAndAsset
    <3>2. Applied(t) = {}
      <4>1. next[t] = 1  BY <1>0, <2>10 DEF Books, Working
      <4> QED BY <1>0, <4>1, FillsAre DEF Applied
    <3>3. [h \in Holdings |-> WorkOn(h)][H] = {}
      BY <1>2, <2>0, <2>10 DEF WorkIsOf, InFlight
    <3>4. call[t].holding = H  BY DEF Holding
    <3>5. Book!Begin(H, call[t], f)
      BY <1>2, <2>7, <2>8, <2>9, <3>1, <3>2, <3>3, <3>4 DEF Book!Begin
    <3> QED BY <2>0, <2>3, <3>5 DEF Book!Next
  <2>11. CASE mine[t] # NoPosition
    <3>1. seen[t] = mine[t]  BY <1>0, <2>11 DEF GetByUserAndAsset
    <3>2. WorkOf(t) \in [h \in Holdings |-> WorkOn(h)][H]
      BY <2>0, <2>11 DEF WorkIsOf
    <3>3. Book!Continue(H, WorkOf(t), f)
      <4>1. /\ WorkOf(t).of = call[t] /\ WorkOf(t).applied = Applied(t)
            /\ WorkOf(t).version = seen[t]
        BY <3>1 DEF WorkOf
      <4> QED BY <1>2, <2>2, <2>7, <2>8, <2>9, <4>1 DEF Book!Continue
    <3>4. f \in ToSet(FillsOf(WorkOf(t).of))  BY <2>3 DEF WorkOf
    <3> QED BY <2>0, <3>2, <3>3, <3>4 DEF Book!Next
  <2> QED BY <2>10, <2>11
<1> QED BY <1>1, <1>2 DEF UpsertPosition, Outcomes

(* Every step of the trades is a step of the book or is not seen in it.       *)
LEMMA BookStep ==
    BInv /\ WorkIsOf /\ WorkIsOf' /\ [Next]_vars
        => [Book!Next]_<<position, [h \in Holdings |-> WorkOn(h)]>>
<1> SUFFICES ASSUME BInv, WorkIsOf, WorkIsOf', [Next]_vars
             PROVE  [Book!Next]_<<position, [h \in Holdings |-> WorkOn(h)]>>
  OBVIOUS
<1>1. CASE UNCHANGED <<call, next, mine, position>>
  <2>1. \A t \in Trades : Applied(t)' = Applied(t)  BY <1>1 DEF Applied
  <2> QED BY <1>1, <2>1, Unnoticed
<1>2. ASSUME NEW t \in Trades, Arrive(t) \/ LockAccount(t) \/ Finalise(t)
      PROVE  UNCHANGED <<call, next, mine, position>>
  BY <1>2 DEF Arrive, LockAccount, Finalise
<1>3. ASSUME NEW t \in Trades, Abort(t)
      PROVE  [Book!Next]_<<position, [h \in Holdings |-> WorkOn(h)]>>
  BY <1>3, FailBook DEF Abort, Outcomes
<1>4. CASE UNCHANGED vars  BY <1>1, <1>4 DEF vars
<1> QED BY <1>1, <1>2, <1>3, <1>4, TakeFillBook, UpsertPositionBook, CommitBook
        DEF Next, Step, Terminating

(* Seen from a position, the trades run one after the other, whatever their   *)
(* interleaving: the positions implement PositionBook.                        *)
THEOREM Refinement == Spec => ImplementsPositionBook
<1>1. BInv => WorkIsOf  BY OneWriter DEF BInv
<1> QED BY <1>1, InitBook, BookStep, BooksAreKept, PTL DEF Spec, ImplementsPositionBook, Book!Spec
================================================================================
