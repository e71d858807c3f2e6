# Crypto brokerage: specifications, model checks and proofs

These modules specify the parts of the brokerage whose correctness depends on
interleavings, on failures and on external systems. Each is translated from the
Python sources under `src/`; the file and lines behind every definition are in
`PROJECT.json` (`map`). Comments `file.py:n` in the modules refer to those files.

## 1. The system

A FastAPI application. Every request runs in one unit of work, `get_db`
(`core/database.py:43-60`): a session that is committed when the handler has
returned (with the FastAPI version the project pins, after the reply was sent)
and rolled back by any exception. PostgreSQL runs it under READ COMMITTED.

| Component | State | Operations | Interacts with | Modelled in |
|---|---|---|---|---|
| Ledger and account repositories | `ledger_entries` (append-only), row locks on `accounts` | `get_balance`, `get_balance_for_update`, `create_double_entry` | called by the services inside their session | `AccountBook`, `Ledger` |
| Trading service | `orders`, `transactions`, `trade_executions` | `execute_trade`, `_process_fill` | repositories, exchange gateway | `Trading`, `Positions` |
| Exchange gateway | attempts in progress | `submit_order`, `get_instrument_prices` (both retried) | the exchange | `Trading`, `UnitOfWork` |
| Banking service | deposit rows of `transactions` | `deposit_funds`, `confirm_deposit`, `withdraw_funds` | repositories, banking gateway, callbacks | `Banking` |
| Banking gateway | attempts in progress | `initiate_transfer` (retried) | the bank | `Banking` |
| Onboarding service | `users`, `user_profiles`, `accounts`, `bank_accounts` | `register_user`, `link_bank_account` | repositories | `Onboarding` |
| Unit of work | a session, its connection out of a pool, its row locks | checkout, commit, rollback, close | everything | `UnitOfWork`; its commit and rollback in every module |
| Positions | `positions`, `orders.filled_amount` | `upsert_position`, `apply_fill` | fills of the trading service | `PositionBook`, `Positions` |
| Portfolio service | none | `get_portfolio_summary` | positions, balances, prices | `Portfolio` |
| Authentication, API layer | none | `get_current_user`, `login`, `register`, exception handlers | unit of work, services | `UnitOfWork` (partly) |
| Domain events, migration, settings | - | - | - | not modelled (section 8) |

### Hard behaviours, and what makes each component correct

* **Ledger.** A balance is derived by two SUM statements, each with its own
  snapshot, from rows nobody locks; the only protection is a lock on the
  *account* row, and an INSERT takes foreign-key locks on two such rows.
  Correct: no customer is overdrawn, a balance read under the lock stays exact
  until the commit, an unlocked read does not overstate, and transfers that wait
  for each other end.
* **Trading.** Requests race on an idempotency key and on an account; an
  exchange reached through a retrying gateway may act and not be heard; nothing
  is durable until after the reply. Correct: one order per key, in the database
  and at the exchange, a record that agrees with the exchange's order for its key, and
  with the very call if nobody else uses the key.
* **Banking.** The bank has the transfer before the row is durable, and tells
  about it through callbacks that may come early, twice or together. Correct:
  nothing is completed that has not settled, what was confirmed stays confirmed,
  and a deposit whose callback was missed is listed as pending (it is not: section 5).
* **Positions.** A position is read without a lock and written back with values
  computed from what was read; its first INSERT meets a unique constraint; its
  average is rounded at every fill. Correct: no update is lost, no fill counts
  twice or half, no trade is lost to another one's INSERT, averages lie between
  the prices paid.
* **Onboarding.** Checks that are not atomic with the INSERTs they guard.
  Correct: one user per address, whole registrations or none, no refusal
  because of somebody who rolled back.
* **Unit of work.** A pool of connections that each request holds from its first
  statement over gateway calls and waits for row locks until after the reply; an
  end by an exception, by a cancellation that no `except Exception` sees, or by a
  crash. Correct: no lock outlives its connection's session, nobody who was told of
  an error left a row, endpoints behind `get_current_user` take a connection only for
  a valid token and write only for an active user (`login` and `register` are open
  and use the same pool), and requests end however small the pool.
* **Portfolio.** A summary shows positions, credits and debits that are read by three
  statements with a snapshot each, with a call of the exchange between them. Correct:
  its quantities are those of one moment, and its cash differs from that moment's only
  by what the orders that commit in between spend and earn.

The complete list, with lines and with the properties for each, is `hazards` in
`PROJECT.json`.

## 2. The modules

**`AccountBook`** is the abstract promise of the ledger: a balance per account
and one atomic action, `Transfer`, enabled only when the source is a RESERVE
account or can pay.

**`Ledger`** is one action per SQL statement. `pc` is the place of a session in
lock, first SUM, second SUM, check, post, the two foreign-key checks, commit;
`forUpdate` and `keyShare` are PostgreSQL's row locks, `credits` and `debits`
what the two SUM queries return of the committed entries. A `debit` session
follows the documented path (`account_repository.py:61-67`), a `credit` session
posts from a RESERVE account without the lock (`confirm_deposit`'s steps
4), a `read` session only derives a balance (`GET /accounts/{id}`, the
portfolio). No service of the repository runs the whole debit path yet
(`withdraw_funds` raises before its entry, a trade's entry is refused), so the
module is about the protocol the repositories implement and prescribe.
`Balance(a)` maps it to `AccountBook`: every commit is one transfer of the book.

**`Trading`** is `execute_trade` with `create_order` around it: `Lookup` is
steps 1-3, `LockAccount` step 4, `InsertOrder` step 5 (waiting for, and failing
on, the unique index), `Submit`, `RetryOrGiveUp`, `GatewayFails` and
`GatewayAnswers` step 6, `ProcessFills` step 7, `Finalise` step 8, then
`Respond` and `Commit`. `row` is the Order row with its Transaction row;
`wire` holds the submissions the exchange has not received, `placed` its orders.
`Fail` is `get_db`'s rollback. `ProcessFills` has one outcome, because
`create_double_entry` refuses an entry with one account on both sides and
`_process_fill` passes one on both sides. A replay of a committed order by
another user is the same action: the lookup does not ask who owns the key.

**`Banking`** is `deposit_funds` (`Validate`, `InitiateTransfer`, the retry
actions, `GatewayAnswers`, `Commit`) and `confirm_deposit` (`GetByReference`,
`UpdateStatus`, `CommitConfirmation`). `bank` is what has become of each attempt's
request: on its way (`sent`), received, settled. `Receive` may come in time, after the
attempt was given up or the deposit rolled back, or never. `txn` is the row; `rowLock` the lock an
uncommitted UPDATE holds on it. Rows marked FAILED are always rolled back by the
re-raise, so no FAILED row is ever durable and that guard never fires. A REVERSED
status is never written.

**`Onboarding`** is `register_user` and `link_bank_account`; `written` and
`durable` are the tables in which a request has a row, `Lower` is `str.lower`.

**`Positions`** is steps 7 and 8 with `_process_fill`, `upsert_position` and
`apply_fill`: `TakeFill` deduplicates, posts the entry and reads the position,
`UpsertPosition` writes it and the order, `Finalise` is step 8. `mine` is the row
as a trade has written it, `position` what is committed. `CreditAccount` is the
account a fill's entry credits. Where it is the debited account, as at
`trading_service.py:296`, the entry is refused and nothing follows (`bob` in the
run); where it is another one, the rest of the code runs. That part is
therefore about code that exists and is not reached yet, in the session and
under the lock it will be reached in. Lookup, key and gateway are `Trading`'s.

**`UnitOfWork`** is a request from the token to the close of its session:
`Authenticate` and `LoadUser` are `get_current_user` (for `login`, only the latter, by
e-mail address; for `register`, neither), `Connect` the checkout of a connection at the session's first statement, then the
handler as the sequence of its awaits (`Steps`), then `Respond`, which may raise,
and `Commit`. `Fail` is `get_db`'s rollback and the exception handler that makes
the status, `Abort` what reaches `finally` without a reply. Which step of a
handler raises, and what, is part of the call, since it depends on data that are
the other modules'. So this module is about what all handlers share, and the
services' modules about what they do.

**`Portfolio`** extends it by what a summary reads. `LoadPositions`, `FindAccount`,
`SumCredits` and `SumDebits` are the statements of `get_portfolio_summary` and
`get_balance`; each sees the orders that are durable at that moment. It ends early
without positions, and reads no sum without an account in the quote currency the caller
asked for (`portfolio_service.py:105, 174`). An order moves units of an asset one way and
an amount of money the other. Prices are left out: with or without them the summary
shows the same quantities and the same cash, which its fields keep apart, and its
property is about those.

**`OrderRegister`** is the abstract promise of `execute_trade` to somebody who
knows a key: orders at the exchange, and a register of records that are written
once, after the exchange has its order, and agree with it. It leaves open what an
order without a fill becomes, where the code and its docstring differ (section 5), and
whose order a key's is. `Trading` implements it,
with `placed` as the exchange and the durable rows as the register.

**`DepositLife`** is the abstract promise of `BankingService`: a row that appears
once, in PROCESSING with a transfer made for it, and completes once, after that
has settled. `Banking` implements it, with a row that is not committed mapped to none,
and a request that is on its way to no transfer.

**`PositionBook`** is the abstract promise about positions: one trade at a time works on
a position, from what is committed, applies each of its fills once and shows all of
its work or none. It has no locks, and leaves open how a fill changes a
position (`After`) and when it cannot (`Fits`). `Positions` implements it, with the
versions of the trades under way as the work.

**`MC*`** give the constants values. **`*Proofs`** hold the theorems, and **`Sums`**
what those about positions and summaries need of the community modules' `SumFunction`.
In each module a definition whose name extends that of the following one
(`SelectWithoutLock` before `SelectForUpdate`) is a broken variant of it:
substituted for it, it must make a property fail, which shows that the property
depends on that code. None of them is part of a specification.

## 3. The runs

| Run | What it checks |
|---|---|
| `ledger` | three sessions, each any of eight calls; type, no overdraft, exactness of the locked balance, reads that do not overstate, termination, refinement of `AccountBook` |
| `trading` | two requests over seven calls and five answers of the exchange, two attempts; the six safety properties, termination, refinement of `OrderRegister` |
| `positions` | three trades of up to three fills on two positions of one account, and on one of an account whose entries are refused; four invariants, the averages, termination, refinement of `PositionBook` |
| `banking` | two deposits of two attempts, two callbacks; four safety properties, termination, refinement of `DepositLife` |
| `portfolio` | three requests on two connections: a summary next to two orders that commit, three orders of one account, or orders next to links, registrations and logins, some of which fail; six invariants, termination |
| `onboarding` | three requests, each a registration under one of three spellings or a link; four invariants and termination |
| `trading_duplicate`, `trading_imbalance`, `trading_unrecorded`, `banking_twice`, `banking_unfound`, `onboarding_twice` | one statement of the documentation each that the code does not keep (section 5) |

### Bounds

* `MaxAttempts` is 2 where the code has 3: one attempt
  that is lost or late, and one after it, is all the properties tell apart. The
  proofs are for every number of attempts.
* Two or three requests, trades, sessions, deposits and callbacks: a race needs
  two, a chain of waits three, which `ledger`, `onboarding` and `positions` have. The arguments include the calls each guard refuses.
* Ledger: balances of 2 and 1, amounts 2, 1 and -1: both a payment the balance covers
  once and not twice, and a wait cycle between two customers.
* Positions: amounts 1 and 2 at prices 1 to 5, so that averages round, a SELL
  goes short, a BUY closes a short (and is rolled back by the division), and a
  position is created, grown and reduced by three trades in any order.
* Portfolio: two connections for three requests is the smallest pool that is
  shared and too small; alice has two units and money, bob neither, so that his
  summary returns early unless his order has committed and his sum of credits is of
  one entry or none. The workloads are chosen, not all: two BUYs, two SELLs and one
  of each around a summary, in one asset and in two; a summary in a currency alice has
  no account in, next to a SELL and a registration; orders that wait for one account and
  fail at the check or at the last write; callers without token, deactivated, unknown, or
  registered already.
* Requests do not repeat: a caller that comes again is another request with the
  same arguments.

## 4. Fairness

Weak fairness of each handler's own steps: the event loop runs every coroutine
that can run, the HTTP clients time out by themselves (10 and 15 seconds), and
`RetryOrGiveUp` is that timeout. PostgreSQL's deadlock detector is fair too.
Nothing is assumed of arrivals, of cancellation and crashes (`Abort`), of the
exchange or of the bank: the termination properties hold if these never act.
In `UnitOfWork` the pool's own timeout (30 seconds) is not assumed either: a
connection comes free because whoever has one ends without needing a second.
The wait for it is weakly fair in `Connect`, although the pool may be full again
and again: with finitely many requests, which do not come back, it is not.

## 5. Where the code and its documentation disagree

1. `trading_duplicate`: a duplicate key found by the index is an uncaught
   `IntegrityError`, not `DuplicateIdempotencyKeyError` (`ARCHITECTURE.md:133-136`).
2. `trading_imbalance`: every fill raises `LedgerImbalanceError`, which "should
   never be raised in production" (`exceptions.py:124`): both legs of the entry
   name one account (`trading_service.py:294-310`).
3. `trading_unrecorded`: an order the exchange has filled may be left without
   any row, and the reconciliation of `trading_service.py:74-77` cannot start.
4. `banking_twice`: the idempotency guard of `confirm_deposit` reads without a
   lock, and two callbacks pass it (`banking_service.py:172`).
5. `banking_unfound`: `get_pending` does not list PROCESSING deposits, the only
   ones a missed callback leaves (`transaction_repository.py:66-72`).
6. `onboarding_twice`: a bank account can be linked twice
   (`onboarding_service.py:98`; the table has no unique constraint).

Met on the way and not given a run: a transfer the bank has accepted may be left
without a row, as in 3, although `banking_service.py:38` says that it can be
reconciled after a crash and `:125` marks the row FAILED, a mark the re-raise rolls
back (`DepositLife` promises no row for a transfer); `deposit_funds` does not check that the bank
account is ACTIVE (`banking_service.py:78` says so); `link_bank_account` calls no
gateway (`onboarding_service.py:99`); an order that the exchange leaves open without a
fill stays PENDING (`trading_service.py:66` says FAILED; `RecordAgreesWithExchange` and
`OrderRegister` leave both possible, so they hold of the code and would of the
docstring); the amount of a SELL is in quote currency for `models/order.py:101` and
`trading_service.py:113` and in base units for `schemas/order.py:16`, while
`apply_fill` compares it with filled base units, so `FilledAgrees` says when an order is
covered for BUYs only; an idempotency key is looked up without its owner
(`order_repository.py:24-26`), so that a caller may be given somebody else's order, and,
if somebody else's request with the key was rolled back after the exchange had
its order, a record may be about that order (TLC refutes that every record is
about its own call, and `RecordAgreesWithExchange` therefore says so under
the condition `KeyIsItsOwn`); a lost race on an e-mail address is an
`IntegrityError`, not a `UserAlreadyExistsError`; fill ids are deduplicated
within one answer only, as `external_fill_id` has no unique constraint; a BUY that
closes a short position divides by zero (`order_repository.py:129`), although
shorts are allowed (`models/order.py:217`); `get_portfolio_summary` reports no cash
to a user without positions (`portfolio_service.py:105-106`), nor to one without an
account in the quote currency asked for (`:173-174`); without prices it
reports every position as a total loss (`portfolio_service.py:142-146`); it may show
the units of a SELL and the money they brought; `GET /auth/me` calls itself protected
(`auth.py:99`) and asks for no token, though it only raises; the HTTP client that each
request's gateway makes is never closed (`deps.py:77, 82`); a SELL locks and checks
the quote-currency account and not the asset sold (`trading_service.py:139`); the
exchange is sent the symbol BTCBRL whatever the asset (`trading_service.py:188`).

## 6. Proofs

All for any number of accounts, sessions, requests, callbacks and attempts. The
assumptions are the named `ASSUME`s of the modules: types of the constants,
the marker values not being members of the sets they mark, and for `Ledger`
customers that start without debt. Each proof module defines an inductive
invariant `IInv`, proves that `Init` establishes and each action preserves it
(one lemma per action, put together in `NextPreserves`), and derives the
theorems.

* **`LedgerProofs`**: `TypeCorrect`, `Solvency`, `LockedBalance`, `ReadSound`,
  `Refinement`. `NoOverdraft` is not inductive: a commit preserves it only if the
  balance that was checked is still the balance. So `IInv` says that a debiting
  session past its SELECT holds the row lock (`LockHeld`), that an INSERT under
  way holds its key-share locks (`KeysHeld`), that the two kinds of lock
  exclude each other (`LocksConflict`), and from these that what it has read is
  still exact: crediting an account takes its key-share lock too, which is why
  the *account* lock protects the *entries*.
* **`TradingProofs`**: `KeyUnique`, `AccountSerial`, `ExchangeUnique`,
  `RecordTrue`, `NoResubmission`, `TypeCorrect`, `Refinement`. A written row holds its account's
  lock (`LockHeld`) and its key; what the exchange answered remains true of its
  order as that only fills (`AnswerKnown`), so the record agrees when written
  (`RecordKnown`) and for ever. The order at the exchange was placed by a request with
  the key, which is one with the record's call where the key is its own.
  `Refinement` takes each action to a step of `OrderRegister`: `Commit` to `Record`
  by `RecordKnown` and the uniqueness of keys, the exchange's to `Place` and `Fill`,
  every other one to a stutter.
* **`BankingProofs`**: `CreditsConfirmed`, `ConfirmationsHold`, `OnlyCompletes`,
  `TypeCorrect`, `Refinement`. A durable row names a transfer of its own deposit
  (`DurableNamed`), an attempt not yet made has no transfer (`NotAsked`), and a
  callback that has passed the guard is about a settled one (`CallbackPhase`,
  `RowHeld`). In `Refinement` a transfer begins when the bank receives it (`BankStep`),
  whatever its deposit is doing by then.
* **`OnboardingProofs`**: `UniqueEmail`, `Justified`, `Atomic`, `TypeCorrect`. Two
  requests never hold the index entry of one address, whether written or durable
  (`OneEntry`), and what a request has written follows from where it is (`Progress`).
* **`PositionsProofs`**: `TypeCorrect`, `ReadCurrent`, `NoFirstFillLost`,
  `NeverWaits`, `QuantitiesAgree`, `OrdersAgree`, `AveragesStayBetween`, `Refinement`.
  Two trades at their fills on one position would hold one account's
  lock (`LockHeld`, `Alone`), so what was read without a lock is current when it is
  written (`ReadIsCurrent`). The proof needs that an owner has one account
  (`AccountOf` is a function), which onboarding is the only code to create; an
  owner with accounts in two currencies could lose updates.
  `QuantityAgrees` is not inductive: it speaks of committed trades only, and a commit
  keeps it because the trade's own version is right. So `Books` says of a trade under
  way that its version has the committed quantity plus the fills it has counted, each
  once, as has its order; that is kept because a fill that is taken is new
  (`~SeenFill`) and what was read is current (`CountNext`, `UpsertPositionKeeps`).
  `BInv` is `IInv` with the books and `QuantityAgrees`. For the averages, `Averages`
  bounds a version's average by the prices applied so far: a rounded quotient stays
  between two whole numbers that its exact value lies between (`RoundedBetween`), a
  weighted mean with weights that are not negative lies between what it is the mean of
  (`AverageBetween`). This theorem has a hypothesis, `NoNegativeFills`: the code checks
  that amount times price is positive, not either of them, and with both negative
  the mean is no mean. An exchange reports no such execution; the run's calls have none.
  `Refinement` takes the first write of a trade to `Begin`, the later ones to `Continue`
  (what the trade reads is then its own version, which the repository has flushed), and
  its end to `Commit` or `RollBack`; there is one work per position by `Alone`, and a
  commit has all fills by `AllApplied`.
* **`UnitOfWorkProofs`**: `TypeCorrect`, `DurableReported`, `LocksConnected`,
  `ProtectedOnly`. A session has a connection exactly in the phases from the user to the
  commit, which are entered with a token or for an open endpoint, and left behind the
  first of them as an active user or for a registration (`SessionPhase`); locks and
  uncommitted rows belong to requests past that phase (`LocksOfWorking`,
  `RowsOfWorking`); a request that is about to commit has been told of success
  (`ReportedFirst`).
* **`PortfolioProofs`**: `SafeWithSummaries`, `SummaryInOrder`, `SummariesRead`,
  `SummaryTypeCorrect`, `SummaryOffOnlyByWhatCommits`. Every step here is one of
  `UnitOfWork` (`StepsOfUnitOfWork`, a lemma and no more than that: the module is built
  so), which carries its invariants over. Those about the summaries start from
  `SummaryInOrder`: the parts a summary has read are those of sets of durable orders, each
  contained in the next and all in what is durable now. A read that raises is no
  exception, as nobody reads after it. `SummariesRead` says which parts it has read where,
  over the two early ends. A set of orders that grows adds the money of its BUYs to the
  debits and of its SELLs to the credits (`MoneySince`), so the cash shown is that of the
  positions' moment, less at most what was spent since and plus at most what was earned.
* **`Sums`**: a sum over a finite set is its value at one member plus the sum over the
  rest; sums of equal functions, of two parts and of terms that are not negative. The library
  defines the sum by a recursive function over subsets whose existence has to be
  proved first. An induction theorem would need an operator as parameter, so each proof
  takes instead the smallest finite subset for which the claim fails, which exists as
  strict inclusion of finite sets is well-founded (`SmallestSubset`).

Only model-checked: termination (`EverySessionEnds`, `EveryRequestEnds`,
`EveryTradeEnds`, `HandlersEnd`), since liveness under fairness is beyond the
prover. Every other property of the passing runs is a theorem, and the invariants
that strengthen them (`BInv` and `Averages` among them) were runs of TLC first.

## 7. Abstractions to know about

* `HttpExchangeGateway` and `HttpBankingGateway` do no I/O today: they return a
  FILLED order and a new transfer id. The models follow the interface
  (`integrations/base.py`), the retry policies and the error mapping, so they
  cover what those classes are documented to become; the answers of today's
  classes are among the answers modelled.
* A submission or a request for a transfer whose attempt failed may still be received
  later, also after an error status. This allows more than some exchanges and banks do.
* `Respond` may raise: `OrderRead` reads `Order.executions`, which is loaded
  lazily in an async session.
* Nothing in the repository calls `deposit_funds` or `confirm_deposit`; `Banking`
  lets any caller do so at any time about any settled transfer.
* `Positions` computes averages exactly before it rounds them; Python's decimals
  keep 28 digits. A fill id stands for one fill (`Fills`).
* In `UnitOfWork` the reads between two awaits that matter are one step; the asset
  lookups of a summary are part of its first step. That a step fails is chosen
  with the call, before anything runs.
* In `Portfolio` an order whose last write succeeds stands for one whose fills have
  been accepted. Today every fill is refused (section 5, 2), so, as in `Positions`,
  that part is about code that exists and is not reached yet.
* In `Trading` balances do not change, as no path of that service commits an
  entry; `Ledger` has the balances that do.

## 8. Not modelled

`withdraw_funds` (it locks a random account id and raises), password hashing and
the making and decoding of tokens (library calls; their verdict is part of a
call), settings, routing and serialisation, domain events (nothing publishes
them), KYC (nothing enforces it), read-only listings, `get_order_status` and
`get_transfer_status` (no caller), prices and the percentages computed from them,
`pool_recycle`, the lifetime of HTTP clients. Migrations run once, forward; their
constraints are in the modules.

## 9. Plan

1. Done: the modules of section 2 and their proofs.
2. `Trading` composed with `Positions`, once a fill's ledger entry is accepted: the
   balances would then change under the lock, and `OrderRegister` could promise that
   the records' fills are those of the ledger and of `PositionBook`.
