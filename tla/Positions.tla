------------------------------ MODULE Positions ------------------------------
(***************************************************************************)
(* Steps 7 and 8 of TradingService.execute_trade: the fills of an answer   *)
(* of the exchange, with the position each is applied to.  A trade holds   *)
(* its account's row lock from step 4 to the end of its session; reading   *)
(* the position takes no lock, writing it takes one, and its first INSERT  *)
(* meets the unique constraint on user and asset.                          *)
(*                                                                         *)
(* CreditAccount is the account a fill's ledger entry credits.  The source *)
(* passes the debited account itself, which create_double_entry refuses;   *)
(* other values give the code that follows the entry something to do.      *)
(* Quantities and prices are integers, in units of the columns' scale.     *)
(***************************************************************************)
EXTENDS Integers, Sequences, SequencesExt

CONSTANTS Trades,         \* calls of execute_trade
          Holdings,       \* pairs of a user and an asset
          Accounts,       \* accounts in the quote currency
          AccountOf,      \* the account a holding's owner has: onboarding makes one
          CreditAccount,  \* the account credited by a fill's entry, per debited account
          Calls,          \* orders with the answers the exchange gives them
          Nobody,         \* "no trade holds the account row"
          NoPosition      \* "there is no row"

Fills(F) ==
    /\ F \in Seq([id : Nat, amount : Int, price : Int])
    /\ \A i, j \in DOMAIN F : F[i].id = F[j].id => F[i] = F[j]

IsCall(c) ==
    /\ c.holding \in Holdings /\ c.side \in {"BUY", "SELL"} /\ c.amount \in Nat \ {0}
    /\ c.status \in {"OPEN", "PARTIALLY_FILLED", "FILLED", "REJECTED"}
    /\ Fills(c.fills) /\ Fills(<<c.total>>)

ASSUME CallsAssumption == \A c \in Calls : IsCall(c)
ASSUME AccountsAssumption ==
    AccountOf \in [Holdings -> Accounts] /\ CreditAccount \in [Accounts -> Accounts]
ASSUME MarkersAssumption ==
    Nobody \notin Trades /\ NoPosition \notin [quantity : Int, average : Int]

VARIABLES pc,        \* where each trade is in its handler
          call,      \* its order and the exchange's answer
          next,      \* the fill it is at
          seen,      \* the position it read for that fill
          mine,      \* the position row as it has written it
          order,     \* its Order row and the status of its Transaction
          durable,   \* whether they are committed
          rowLock,   \* account row -> the trade holding it FOR UPDATE
          position,  \* the committed positions
          outcome    \* how the handler ended

vars == <<pc, call, next, seen, mine, order, durable, rowLock, position, outcome>>

Position == [quantity : Int, average : Int]

Phases == {"idle", "lock", "fills", "upsert", "commit", "done"}

Outcomes == {"none", "created", "LedgerImbalanceError", "IntegrityError", "DivisionByZero",
             "Aborted"}

NewOrder == [filled |-> 0, status |-> "PENDING", txn |-> "PENDING"]

OrderType == [filled : Int,
              status : {"PENDING", "PARTIALLY_FILLED", "FILLED", "FAILED"},
              txn    : {"PENDING", "PROCESSING", "COMPLETED", "FAILED"}]

Init ==
    /\ pc = [t \in Trades |-> "idle"]
    /\ call \in [Trades -> Calls]
    /\ next = [t \in Trades |-> 1]
    /\ seen = [t \in Trades |-> NoPosition]
    /\ mine = [t \in Trades |-> NoPosition]
    /\ order = [t \in Trades |-> NewOrder]
    /\ durable = [t \in Trades |-> FALSE]
    /\ rowLock = [a \in Accounts |-> Nobody]
    /\ position = [h \in Holdings |-> NoPosition]
    /\ outcome = [t \in Trades |-> "none"]

--------------------------------------------------------------------------------
Goto(t, phase) == pc' = [pc EXCEPT ![t] = phase]

Holding(t) == call[t].holding
Account(t) == AccountOf[Holding(t)]

ReleaseLock(t) ==
    rowLock' = [a \in Accounts |-> IF rowLock[a] = t THEN Nobody ELSE rowLock[a]]

(* A definition whose name adds a suffix to the next one's is a broken variant *)
(* of it, which some property must refute.                                     *)
FailKeepingLock(t, why) ==
    /\ Goto(t, "done")
    /\ outcome' = [outcome EXCEPT ![t] = why]
    /\ mine' = [mine EXCEPT ![t] = NoPosition]
    /\ seen' = [seen EXCEPT ![t] = NoPosition]
    /\ order' = [order EXCEPT ![t] = NewOrder]
    /\ UNCHANGED <<call, next, durable, rowLock, position>>

(* An exception leaves the handler and get_db rolls back. *)
Fail(t, why) ==
    /\ Goto(t, "done")
    /\ outcome' = [outcome EXCEPT ![t] = why]
    /\ mine' = [mine EXCEPT ![t] = NoPosition]
    /\ seen' = [seen EXCEPT ![t] = NoPosition]
    /\ order' = [order EXCEPT ![t] = NewOrder]
    /\ ReleaseLock(t)
    /\ UNCHANGED <<call, next, durable, position>>

Arrive(t) ==
    /\ pc[t] = "idle"
    /\ Goto(t, "lock")
    /\ UNCHANGED <<call, next, seen, mine, order, durable, rowLock, position, outcome>>

LockAccountShared(t) ==
    /\ pc[t] = "lock"
    /\ rowLock' = [rowLock EXCEPT ![Account(t)] = t]
    /\ Goto(t, "fills")
    /\ UNCHANGED <<call, next, seen, mine, order, durable, position, outcome>>

(* Steps 4 to 6 of a trade that gets an answer: what else can happen in them *)
(* is in module Trading.                                                     *)
LockAccount(t) ==
    /\ pc[t] = "lock"
    /\ rowLock[Account(t)] = Nobody
    /\ rowLock' = [rowLock EXCEPT ![Account(t)] = t]
    /\ Goto(t, "fills")
    /\ UNCHANGED <<call, next, seen, mine, order, durable, position, outcome>>

--------------------------------------------------------------------------------
(* Step 7.  A FILLED answer without fill events gets one made of its totals. *)
FillsOf(c) == IF c.fills = <<>> /\ c.status = "FILLED" THEN <<c.total>> ELSE c.fills

Fill(t) == FillsOf(call[t])[next[t]]

SeenFillNever(t) == FALSE

SeenFill(t) == \E i \in 1 .. next[t] - 1 : FillsOf(call[t])[i].id = Fill(t).id

(* create_double_entry's guard. *)
Balances(t) == Fill(t).price * Fill(t).amount > 0 /\ CreditAccount[Account(t)] # Account(t)

GetByUserAndAssetUnflushed(t) == position[Holding(t)]

(* A session sees its own version of a row if it has written one: it does not *)
(* flush by itself (autoflush=False), the repository does at every write.     *)
GetByUserAndAsset(t) == IF mine[t] # NoPosition THEN mine[t] ELSE position[Holding(t)]

(* A fill seen before is skipped.  Otherwise its execution and its ledger    *)
(* entry are inserted and the position is read.                              *)
TakeFill(t) ==
    /\ pc[t] = "fills" /\ next[t] <= Len(FillsOf(call[t]))
    /\ \/ /\ SeenFill(t)
          /\ next' = [next EXCEPT ![t] = @ + 1]
          /\ UNCHANGED <<pc, call, seen, mine, order, durable, rowLock, position, outcome>>
       \/ /\ ~SeenFill(t) /\ ~Balances(t)
          /\ Fail(t, "LedgerImbalanceError")
       \/ /\ ~SeenFill(t) /\ Balances(t)
          /\ seen' = [seen EXCEPT ![t] = GetByUserAndAsset(t)]
          /\ Goto(t, "upsert")
          /\ UNCHANGED <<call, next, mine, order, durable, rowLock, position, outcome>>

DeltaOf(c, f) == IF c.side = "BUY" THEN f.amount ELSE -f.amount
Delta(t) == DeltaOf(call[t], Fill(t))

(* PostgreSQL rounds to the column's scale, halves away from zero. *)
Rounded(n, d) ==
    LET magnitude(x) == IF x < 0 THEN -x ELSE x
        size == (2 * magnitude(n) + magnitude(d)) \div (2 * magnitude(d))
    IN  IF (n < 0) # (d < 0) THEN -size ELSE size

NewAverageAlways(old, delta, price) ==
    IF old.quantity + delta = 0 THEN old.average
    ELSE Rounded(old.quantity * old.average + delta * price, old.quantity + delta)

NewAverage(old, delta, price) ==
    IF delta > 0
    THEN Rounded(old.quantity * old.average + delta * price, old.quantity + delta)
    ELSE old.average

Upserted(old, delta, price) ==
    IF old = NoPosition
    THEN [quantity |-> delta, average |-> IF delta > 0 THEN price ELSE 0]
    ELSE [quantity |-> old.quantity + delta, average |-> NewAverage(old, delta, price)]

(* apply_fill *)
Filled(t) ==
    LET total == order[t].filled + Fill(t).amount
    IN  [order[t] EXCEPT !.filled = total,
                         !.status = IF total >= call[t].amount THEN "FILLED"
                                    ELSE "PARTIALLY_FILLED"]

(* Whoever has written the row and not ended makes a writer wait. *)
InFlight(t) == \E u \in Trades \ {t} : Holding(u) = Holding(t) /\ mine[u] # NoPosition

ClosesShort(old, delta) == old # NoPosition /\ delta > 0 /\ old.quantity + delta = 0

Flat(t) == ClosesShort(seen[t], Delta(t))

(* upsert_position and apply_fill.  The new average is computed before       *)
(* anything is written, and a BUY that leaves no quantity divides by it.     *)
UpsertPosition(t) ==
    /\ pc[t] = "upsert"
    /\ \/ Flat(t) /\ Fail(t, "DivisionByZero")
       \/ /\ ~Flat(t) /\ ~InFlight(t)
          /\ IF seen[t] = NoPosition /\ position[Holding(t)] # NoPosition
             THEN Fail(t, "IntegrityError")
             ELSE /\ mine' = [mine EXCEPT ![t] = Upserted(seen[t], Delta(t), Fill(t).price)]
                  /\ order' = [order EXCEPT ![t] = Filled(t)]
                  /\ next' = [next EXCEPT ![t] = @ + 1]
                  /\ seen' = [seen EXCEPT ![t] = NoPosition]
                  /\ Goto(t, "fills")
                  /\ UNCHANGED <<call, durable, rowLock, position, outcome>>

--------------------------------------------------------------------------------
(* Step 8: the transaction follows the order, not the answer. *)
FinalOrderAsAnswered(t) ==
    CASE call[t].status = "REJECTED" -> [order[t] EXCEPT !.status = "FAILED", !.txn = "FAILED"]
      [] call[t].status = "FILLED" -> [order[t] EXCEPT !.txn = "COMPLETED"]
      [] call[t].status = "PARTIALLY_FILLED" -> [order[t] EXCEPT !.txn = "PROCESSING"]
      [] OTHER -> order[t]

FinalOrder(t) ==
    CASE call[t].status = "REJECTED" -> [order[t] EXCEPT !.status = "FAILED", !.txn = "FAILED"]
      [] call[t].status \in {"FILLED", "PARTIALLY_FILLED"} ->
             [order[t] EXCEPT !.txn = IF order[t].status = "FILLED" THEN "COMPLETED"
                                      ELSE "PROCESSING"]
      [] OTHER -> order[t]

Finalise(t) ==
    /\ pc[t] = "fills" /\ next[t] > Len(FillsOf(call[t]))
    /\ order' = [order EXCEPT ![t] = FinalOrder(t)]
    /\ Goto(t, "commit")
    /\ outcome' = [outcome EXCEPT ![t] = "created"]
    /\ UNCHANGED <<call, next, seen, mine, durable, rowLock, position>>

CommitKeepingRow(t) ==
    /\ pc[t] = "commit"
    /\ durable' = [durable EXCEPT ![t] = TRUE]
    /\ position' = [position EXCEPT ![Holding(t)] = IF mine[t] # NoPosition THEN mine[t] ELSE @]
    /\ ReleaseLock(t)
    /\ Goto(t, "done")
    /\ UNCHANGED <<call, next, seen, mine, order, outcome>>

Commit(t) ==
    /\ pc[t] = "commit"
    /\ durable' = [durable EXCEPT ![t] = TRUE]
    /\ position' = [position EXCEPT ![Holding(t)] = IF mine[t] # NoPosition THEN mine[t] ELSE @]
    /\ mine' = [mine EXCEPT ![t] = NoPosition]
    /\ ReleaseLock(t)
    /\ Goto(t, "done")
    /\ UNCHANGED <<call, next, seen, order, outcome>>

(* A cancelled request, a lost connection, a crash. *)
Abort(t) ==
    /\ pc[t] \notin {"idle", "done"}
    /\ Fail(t, "Aborted")

Step(t) ==
    \/ LockAccount(t)
    \/ TakeFill(t)
    \/ UpsertPosition(t)
    \/ Finalise(t)
    \/ Commit(t)

Terminating ==
    /\ \A t \in Trades : pc[t] = "done"
    /\ UNCHANGED vars

Next ==
    \/ \E t \in Trades : Arrive(t) \/ Step(t) \/ Abort(t)
    \/ Terminating

(* The event loop runs every handler. *)
Fairness == \A t \in Trades : WF_vars(Step(t))

Spec == Init /\ [][Next]_vars /\ Fairness

--------------------------------------------------------------------------------
(* The values every variable may take; only a trade under way has written a   *)
(* position row that is not committed.                                        *)
TypeOK ==
    /\ pc \in [Trades -> Phases]
    /\ call \in [Trades -> Calls]
    /\ next \in [Trades -> Nat \ {0}]
    /\ seen \in [Trades -> Position \cup {NoPosition}]
    /\ mine \in [Trades -> Position \cup {NoPosition}]
    /\ \A t \in Trades : mine[t] # NoPosition => pc[t] \in {"fills", "upsert", "commit"}
    /\ order \in [Trades -> OrderType]
    /\ durable \in [Trades -> BOOLEAN]
    /\ rowLock \in [Accounts -> Trades \cup {Nobody}]
    /\ position \in [Holdings -> Position \cup {NoPosition}]
    /\ outcome \in [Trades -> Outcomes]

Executed(t) == SumFunction([f \in ToSet(FillsOf(call[t])) |-> f.amount])

Signed(t) == IF call[t].side = "BUY" THEN Executed(t) ELSE -Executed(t)

(* models/order.py:196: the stored quantity is what the durable executions    *)
(* add up to, although a fill is applied to a position that was read without  *)
(* a lock: no update is lost, no fill is applied twice, none half.            *)
QuantityAgrees ==
    \A h \in Holdings :
        (IF position[h] = NoPosition THEN 0 ELSE position[h].quantity)
            = SumFunction([t \in {u \in Trades : durable[u] /\ Holding(u) = h} |-> Signed(t)])

(* trading_service.py:221 and order_repository.py:55: a durable order has     *)
(* counted each fill of its answer once; its transaction is COMPLETED only if *)
(* it is FILLED; and a BUY is FILLED exactly when its fills cover it.         *)
(* (When a SELL is covered is left open: the code compares its amount with    *)
(* the base units of its fills, and models/order.py:101 has it in quote       *)
(* currency.)                                                                 *)
FilledAgrees ==
    \A t \in Trades : durable[t] =>
        /\ order[t].filled = Executed(t)
        /\ order[t].txn = "COMPLETED" => order[t].status = "FILLED"
        /\ order[t].status = "FILLED" => call[t].status # "REJECTED"
        /\ call[t].side = "BUY" /\ call[t].status # "REJECTED" =>
               (order[t].status = "FILLED" <=> Executed(t) >= call[t].amount)

(* trading_service.py:146: no trade that the exchange has filled is rolled    *)
(* back because another trade inserts the same position first.                *)
FirstFillNeverLost == \A t \in Trades : outcome[t] # "IntegrityError"

(* order_repository.py:108: however its fills are rounded, a BUY into a       *)
(* position that is not short moves the average to somewhere between what it  *)
(* was and the prices paid, and a SELL does not move it.                      *)
AverageMoves(t) ==
    LET old == position[Holding(t)]
        new == position'[Holding(t)].average
        prices == {f.price : f \in ToSet(FillsOf(call[t]))}
                    \cup (IF old # NoPosition THEN {old.average} ELSE {})
    IN  /\ call[t].side = "SELL" /\ old # NoPosition => new = old.average
        /\ call[t].side = "BUY" /\ (old = NoPosition \/ old.quantity >= 0) =>
               /\ \E p \in prices : p <= new
               /\ \E p \in prices : new <= p

AverageStaysBetween ==
    [][\A t \in Trades : durable'[t] /\ ~durable[t] /\ mine[t] # NoPosition => AverageMoves(t)]_vars

(* The fills a trade has gone through, as a set: one seen before adds nothing. *)
Applied(t) ==
    {FillsOf(call[t])[i] : i \in {j \in DOMAIN FillsOf(call[t]) : j < next[t]}}

(* What the trades under way have done to a position. *)
WorkOn(h) ==
    {[of |-> call[t], applied |-> Applied(t), version |-> mine[t]] :
        t \in {u \in Trades : Holding(u) = h /\ mine[u] # NoPosition}}

(* Seen from a position, trades run one after the other: each starts from     *)
(* what the ones before it have committed, applies each of its fills once,    *)
(* and shows all of it or nothing, although it reads without a lock.          *)
Book == INSTANCE PositionBook
            WITH FillsIn <- LAMBDA c : ToSet(FillsOf(c)),
                 Fits <- LAMBDA old, c, f : ~ClosesShort(old, DeltaOf(c, f)),
                 After <- LAMBDA old, c, f : Upserted(old, DeltaOf(c, f), f.price),
                 work <- [h \in Holdings |-> WorkOn(h)]

ImplementsPositionBook == Book!Spec

(* Trades that wait for an account row all end.                               *)
EveryTradeEnds == \A t \in Trades : pc[t] # "idle" ~> pc[t] = "done"
================================================================================
