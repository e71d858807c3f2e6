------------------------------- MODULE Trading -------------------------------
(***************************************************************************)
(* TradingService.execute_trade under concurrency: requests that race on   *)
(* an idempotency key and on an account row, an exchange reached through a *)
(* gateway that retries, answers that come late or never, and a unit of    *)
(* work (get_db) that commits only after the reply has been sent and rolls *)
(* back at any exception, cancelled request or lost connection.            *)
(*                                                                         *)
(* Amounts, prices and symbols are abstracted to what the control flow     *)
(* reads of them: cost is amount * price (0 for a MARKET order), a report  *)
(* of the exchange is its status and whether it lists fill events.  The    *)
(* balance under the row lock is Opening: module Ledger models how it is   *)
(* derived, and no path of this service commits a ledger entry.            *)
(***************************************************************************)
EXTENDS Integers

CONSTANTS Requests,     \* calls of execute_trade
          Keys,         \* idempotency keys
          Accounts,     \* accounts in the quote currency
          NoAccount,    \* the caller has none
          Nobody,       \* "no request holds the account row"
          Calls,        \* the arguments requests come with
          Reports,      \* what the exchange may answer
          NoReport,     \* "no answer yet"
          Opening,      \* derived balance of each account
          MaxAttempts   \* stop_after_attempt of the gateway's retry policy

CallType == [key     : Keys,
             account : Accounts \cup {NoAccount},
             side    : {"BUY", "SELL"},
             cost    : Nat,
             valid   : BOOLEAN,     \* amount > 0, and a price if LIMIT
             listed  : BOOLEAN]     \* asset_id is a row of assets

ReportType == [status : {"OPEN", "PARTIALLY_FILLED", "FILLED", "REJECTED"},
               fills  : BOOLEAN]

ASSUME CallsAssumption == Calls \subseteq CallType
ASSUME ReportsAssumption == Reports \subseteq ReportType /\ NoReport \notin ReportType
ASSUME AccountsAssumption == NoAccount \notin Accounts /\ Opening \in [Accounts -> Nat]
ASSUME RequestsAssumption == Nobody \notin Requests
ASSUME AttemptsAssumption == MaxAttempts \in Nat \ {0}

VARIABLES pc,         \* where each request is in the handler
          call,       \* its arguments
          row,        \* its Order and Transaction rows, and whether they are durable
          rowLock,    \* account row -> the request holding it FOR UPDATE
          attempt,    \* submissions of the gateway so far
          answer,     \* the exchange's answer to the attempt in progress
          wire,       \* submissions sent that the exchange has not received
          placed,     \* the exchange's orders
          outcome     \* what the caller is told, or the exception

vars == <<pc, call, row, rowLock, attempt, answer, wire, placed, outcome>>

Phases == {"idle", "lookup", "lock", "insert", "submit", "awaiting", "fills",
           "respond", "commit", "done"}

Outcomes == {"none", "created", "replayed", "InvalidOrderError", "AccountNotFoundError",
             "InsufficientFundsError", "IntegrityError", "GatewayError",
             "LedgerImbalanceError", "SerializationError", "Aborted"}

NoRow == [db |-> "none", order |-> "none", txn |-> "none"]

RowType == [db    : {"none", "written", "committed"},
            order : {"none", "PENDING", "FAILED"},
            txn   : {"none", "PENDING", "PROCESSING", "FAILED"}]

Init ==
    /\ pc = [r \in Requests |-> "idle"]
    /\ call \in [Requests -> Calls]
    /\ row = [r \in Requests |-> NoRow]
    /\ rowLock = [a \in Accounts |-> Nobody]
    /\ attempt = [r \in Requests |-> 0]
    /\ answer = [r \in Requests |-> NoReport]
    /\ wire = {}
    /\ placed = {}
    /\ outcome = [r \in Requests |-> "none"]

--------------------------------------------------------------------------------
Goto(r, phase) == pc' = [pc EXCEPT ![r] = phase]

Key(r) == call[r].key
SameKey(q, r) == Key(q) = Key(r)
Written(r) == row[r].db = "written"
Committed(r) == row[r].db = "committed"

ReleaseLock(r) ==
    rowLock' = [a \in Accounts |-> IF rowLock[a] = r THEN Nobody ELSE rowLock[a]]

(* A definition whose name adds a suffix to the next one's is a broken variant *)
(* of it, which some property must refute.                                     *)
FailKeepingLock(r, why) ==
    /\ Goto(r, "done")
    /\ outcome' = [outcome EXCEPT ![r] = why]
    /\ row' = [row EXCEPT ![r] = NoRow]
    /\ attempt' = [attempt EXCEPT ![r] = 0]
    /\ answer' = [answer EXCEPT ![r] = NoReport]
    /\ UNCHANGED <<call, rowLock, wire, placed>>

(* An exception leaves the handler: get_db rolls back, the rows are gone. *)
Fail(r, why) ==
    /\ Goto(r, "done")
    /\ outcome' = [outcome EXCEPT ![r] = why]
    /\ row' = [row EXCEPT ![r] = NoRow]
    /\ ReleaseLock(r)
    /\ attempt' = [attempt EXCEPT ![r] = 0]
    /\ answer' = [answer EXCEPT ![r] = NoReport]
    /\ UNCHANGED <<call, wire, placed>>

Arrive(r) ==
    /\ pc[r] = "idle"
    /\ Goto(r, "lookup")
    /\ UNCHANGED <<call, row, rowLock, attempt, answer, wire, placed, outcome>>

(* Steps 1 to 3: an order committed under the key is returned as it is;     *)
(* otherwise the arguments are validated and the account is looked up.      *)
Lookup(r) ==
    /\ pc[r] = "lookup"
    /\ \/ /\ \E q \in Requests : Committed(q) /\ SameKey(q, r)
          /\ Goto(r, "respond")
          /\ outcome' = [outcome EXCEPT ![r] = "replayed"]
          /\ UNCHANGED <<call, row, rowLock, attempt, answer, wire, placed>>
       \/ /\ ~\E q \in Requests : Committed(q) /\ SameKey(q, r)
          /\ IF ~call[r].valid THEN Fail(r, "InvalidOrderError")
             ELSE IF call[r].account = NoAccount THEN Fail(r, "AccountNotFoundError")
             ELSE /\ Goto(r, "lock")
                  /\ UNCHANGED <<call, row, rowLock, attempt, answer, wire, placed, outcome>>

(* Step 4: only a BUY with a price is checked against the balance. *)
Covered(c) == c.side = "BUY" /\ c.cost > 0 => Opening[c.account] >= c.cost

LockAccountShared(r) ==
    /\ pc[r] = "lock"
    /\ IF Covered(call[r])
       THEN /\ rowLock' = [rowLock EXCEPT ![call[r].account] = r]
            /\ Goto(r, "insert")
            /\ UNCHANGED <<call, row, attempt, answer, wire, placed, outcome>>
       ELSE Fail(r, "InsufficientFundsError")

LockAccount(r) ==
    /\ pc[r] = "lock"
    /\ rowLock[call[r].account] = Nobody
    /\ IF Covered(call[r])
       THEN /\ rowLock' = [rowLock EXCEPT ![call[r].account] = r]
            /\ Goto(r, "insert")
            /\ UNCHANGED <<call, row, attempt, answer, wire, placed, outcome>>
       ELSE Fail(r, "InsufficientFundsError")

(* Step 5: the Order and its Transaction.  The unique index makes an INSERT  *)
(* wait for a session that has written the key and not ended, then fails on  *)
(* a committed key; the foreign key refuses an unlisted asset.               *)
KeyInFlight(r) == \E q \in Requests \ {r} : Written(q) /\ SameKey(q, r)
KeyTakenIgnored(r) == FALSE

KeyTaken(r) == \E q \in Requests \ {r} : Committed(q) /\ SameKey(q, r)

NewRow == [db |-> "written", order |-> "PENDING", txn |-> "PENDING"]

InsertOrderNoIndex(r) ==
    /\ pc[r] = "insert"
    /\ row' = [row EXCEPT ![r] = NewRow]
    /\ Goto(r, "submit")
    /\ UNCHANGED <<call, rowLock, attempt, answer, wire, placed, outcome>>

InsertOrder(r) ==
    /\ pc[r] = "insert"
    /\ ~KeyInFlight(r)
    /\ IF KeyTaken(r) \/ ~call[r].listed
       THEN Fail(r, "IntegrityError")
       ELSE /\ row' = [row EXCEPT ![r] = NewRow]
            /\ Goto(r, "submit")
            /\ UNCHANGED <<call, rowLock, attempt, answer, wire, placed, outcome>>

--------------------------------------------------------------------------------
(* Step 6: the gateway.  A submission carries the client_order_id; what is   *)
(* on the wire may be received at any later time, or never.                  *)
ClientOrderIdPerRequest(r) == r

ClientOrderId(r) == Key(r)

Submit(r) ==
    /\ pc[r] = "submit"
    /\ attempt' = [attempt EXCEPT ![r] = @ + 1]
    /\ wire' = wire \cup {[request |-> r, attempt |-> attempt[r] + 1]}
    /\ Goto(r, "awaiting")
    /\ UNCHANGED <<call, row, rowLock, answer, placed, outcome>>

RetryForever(r) ==
    /\ pc[r] = "awaiting"
    /\ Goto(r, "submit")
    /\ answer' = [answer EXCEPT ![r] = NoReport]
    /\ UNCHANGED <<call, row, rowLock, attempt, wire, placed, outcome>>

(* The attempt failed with a timeout or a rate limit: retry, or give up.    *)
(* Whatever was sent stays on the wire, where it may yet be received.       *)
RetryOrGiveUp(r) ==
    /\ pc[r] = "awaiting"
    /\ IF attempt[r] < MaxAttempts
       THEN /\ Goto(r, "submit")
            /\ answer' = [answer EXCEPT ![r] = NoReport]
            /\ UNCHANGED <<call, row, rowLock, attempt, wire, placed, outcome>>
       ELSE Fail(r, "GatewayError")

(* Any other gateway error is not retried. *)
GatewayFails(r) ==
    /\ pc[r] = "awaiting"
    /\ Fail(r, "GatewayError")

GatewayAnswers(r) ==
    /\ pc[r] = "awaiting"
    /\ answer[r] # NoReport
    /\ Goto(r, "fills")
    /\ UNCHANGED <<call, row, rowLock, attempt, answer, wire, placed, outcome>>

(* The exchange deduplicates on client_order_id and answers whoever still    *)
(* listens; an order it has placed may fill later, untold.                   *)
Answer(m, report) ==
    answer' = IF pc[m.request] = "awaiting" /\ attempt[m.request] = m.attempt
              THEN [answer EXCEPT ![m.request] = report]
              ELSE answer

ExchangePlaces(m) ==
    /\ m \in wire
    /\ ~\E p \in placed : p.client = ClientOrderId(m.request)
    /\ wire' = wire \ {m}
    /\ \E report \in Reports :
          /\ placed' = placed \cup {[client  |-> ClientOrderId(m.request),
                                     request |-> m.request,
                                     report  |-> report]}
          /\ Answer(m, report)
    /\ UNCHANGED <<pc, call, row, rowLock, attempt, outcome>>

ExchangeDeduplicates(m) ==
    /\ m \in wire
    /\ \E p \in placed : p.client = ClientOrderId(m.request) /\ Answer(m, p.report)
    /\ wire' = wire \ {m}
    /\ UNCHANGED <<pc, call, row, rowLock, attempt, placed, outcome>>

ExchangeFills(p) ==
    /\ p \in placed
    /\ p.report.status \in {"OPEN", "PARTIALLY_FILLED"}
    /\ \E report \in Reports :
          /\ report.status \in {"PARTIALLY_FILLED", "FILLED"}
          /\ placed' = (placed \ {p}) \cup {[p EXCEPT !.report = report]}
    /\ UNCHANGED <<pc, call, row, rowLock, attempt, answer, wire, outcome>>

--------------------------------------------------------------------------------
(* Step 7.  A FILLED report without fill events gets a synthetic one.  Both  *)
(* legs of a fill's ledger entry name the locked account, so the guard of    *)
(* create_double_entry raises at the first fill, before upsert_position and  *)
(* apply_fill: no branch goes on from here.                                  *)
HasFill(report) == report.fills \/ report.status = "FILLED"

ProcessFills(r) ==
    /\ pc[r] = "fills"
    /\ HasFill(answer[r])
    /\ Fail(r, "LedgerImbalanceError")

(* Step 8, for a report with no fill: the order is still PENDING. *)
FinalRowOpenProcesses(report) ==
    CASE report.status = "REJECTED" ->
             [NewRow EXCEPT !.order = "FAILED", !.txn = "FAILED"]
      [] OTHER -> [NewRow EXCEPT !.txn = "PROCESSING"]

FinalRow(report) ==
    CASE report.status = "REJECTED" ->
             [NewRow EXCEPT !.order = "FAILED", !.txn = "FAILED"]
      [] report.status \in {"PARTIALLY_FILLED", "FILLED"} ->
             [NewRow EXCEPT !.txn = "PROCESSING"]
      [] OTHER -> NewRow

Finalise(r) ==
    /\ pc[r] = "fills"
    /\ ~HasFill(answer[r])
    /\ row' = [row EXCEPT ![r] = FinalRow(answer[r])]
    /\ Goto(r, "respond")
    /\ outcome' = [outcome EXCEPT ![r] = "created"]
    /\ UNCHANGED <<call, rowLock, attempt, answer, wire, placed>>

(* create_order: the reply is built and sent before the dependency commits;  *)
(* building it may raise (it reads Order.executions, which is not loaded).   *)
Respond(r) ==
    /\ pc[r] = "respond"
    /\ \/ /\ Goto(r, "commit")
          /\ UNCHANGED <<call, row, rowLock, attempt, answer, wire, placed, outcome>>
       \/ Fail(r, "SerializationError")

Commit(r) ==
    /\ pc[r] = "commit"
    /\ Goto(r, "done")
    /\ row' = [row EXCEPT ![r].db = IF @ = "written" THEN "committed" ELSE @]
    /\ ReleaseLock(r)
    /\ attempt' = [attempt EXCEPT ![r] = 0]
    /\ answer' = [answer EXCEPT ![r] = NoReport]
    /\ UNCHANGED <<call, wire, placed, outcome>>

(* A cancelled request, a lost connection, a crash: at any await, the commit *)
(* included.                                                                 *)
Abort(r) ==
    /\ pc[r] \notin {"idle", "done"}
    /\ Fail(r, "Aborted")

Step(r) ==
    \/ Lookup(r)
    \/ LockAccount(r)
    \/ InsertOrder(r)
    \/ Submit(r)
    \/ RetryOrGiveUp(r)
    \/ GatewayFails(r)
    \/ GatewayAnswers(r)
    \/ ProcessFills(r)
    \/ Finalise(r)
    \/ Respond(r)
    \/ Commit(r)

Exchange ==
    \/ \E m \in wire : ExchangePlaces(m) \/ ExchangeDeduplicates(m)
    \/ \E p \in placed : ExchangeFills(p)

Terminating ==
    /\ \A r \in Requests : pc[r] = "done"
    /\ UNCHANGED vars

Next ==
    \/ \E r \in Requests : Arrive(r) \/ Step(r) \/ Abort(r)
    \/ Exchange
    \/ Terminating

(* The event loop runs every handler, and the gateway's HTTP client times    *)
(* out by itself: nothing is assumed of the exchange.                        *)
Fairness == \A r \in Requests : WF_vars(Step(r))

Spec == Init /\ [][Next]_vars /\ Fairness

--------------------------------------------------------------------------------
TypeOK ==
    /\ pc \in [Requests -> Phases]
    /\ call \in [Requests -> Calls]
    /\ row \in [Requests -> RowType]
    /\ rowLock \in [Accounts -> Requests \cup {Nobody}]
    /\ attempt \in [Requests -> 0..MaxAttempts]
    /\ answer \in [Requests -> ReportType \cup {NoReport}]
    /\ wire \subseteq [request : Requests, attempt : 1..MaxAttempts]
    /\ placed \subseteq [client : Keys, request : Requests, report : ReportType]
    /\ outcome \in [Requests -> Outcomes]

(* Whatever requests race past the lookup of step 1, at most one of those     *)
(* with the same key ever has an order, in progress or durable.               *)
OneOrderPerKey ==
    \A q, r \in Requests :
        (q # r /\ SameKey(q, r)) => (row[q].db = "none" \/ row[r].db = "none")

(* No two orders of one account are in progress together: the row lock taken  *)
(* in step 4 is held over the gateway call until the commit or rollback.      *)
OneTradePerAccount ==
    \A q, r \in Requests :
        (q # r /\ Written(q) /\ Written(r)) => call[q].account # call[r].account

(* Retries of the gateway, late deliveries, rolled-back requests and callers  *)
(* that come again with the same key: the exchange has one order for the key. *)
OneExchangeOrderPerKey ==
    \A p, q \in placed : SameKey(p.request, q.request) => p = q

(* trading_service.py:239: a durable order is one the exchange has, and for   *)
(* the very call it records, if nobody else used its key for another one; it  *)
(* is FAILED if the exchange has rejected it, it and its transaction fail     *)
(* together, and a transaction in process is one the exchange has begun to    *)
(* fill.  (What becomes of an order without a fill is left open: the code     *)
(* leaves it PENDING, and its docstring, :66, says FAILED.)                   *)
KeyIsItsOwn(r) == \A q \in Requests : SameKey(q, r) => call[q] = call[r]

RecordAgreesWithExchange ==
    \A r \in Requests : Committed(r) =>
        \E p \in placed :
            /\ SameKey(p.request, r)
            /\ KeyIsItsOwn(r) => call[p.request] = call[r]
            /\ p.report.status = "REJECTED" => row[r].order = "FAILED"
            /\ row[r].order = "FAILED" <=> row[r].txn = "FAILED"
            /\ row[r].txn = "PROCESSING" => p.report.status \in {"PARTIALLY_FILLED", "FILLED"}

(* Once an order is durable, no request submits its key to the exchange again *)
(* although its own lookup may have been done before the commit.              *)
NeverResubmitted ==
    [][\A q, r \in Requests :
          (Committed(q) /\ SameKey(q, r)) => attempt'[r] <= attempt[r]]_vars

(* A request that has arrived ends, without the exchange ever answering: the  *)
(* account lock and the index entry of its key cannot wait for each other.    *)
EveryRequestEnds == \A r \in Requests : pc[r] # "idle" ~> pc[r] = "done"

(* What a caller may rely on for its key, whatever happens to requests:       *)
(* trading_service.py:68-77 as one register of orders.                        *)
Register == INSTANCE OrderRegister
    WITH exchange <- {[key |-> p.client, status |-> p.report.status] : p \in placed},
         register <- {[key |-> Key(r), order |-> row[r].order, txn |-> row[r].txn] :
                         r \in {q \in Requests : Committed(q)}}

ImplementsOrderRegister == Register!Spec

--------------------------------------------------------------------------------
(* What the repository's documentation says and the code does not do.         *)

(* ARCHITECTURE.md:133-136: of two racing INSERTs the second one is caught    *)
(* and converted to DuplicateIdempotencyKeyError.                             *)
DuplicateKeyConverted ==
    \A r \in Requests : outcome[r] = "IntegrityError" => ~call[r].listed

(* exceptions.py:124: LedgerImbalanceError is never raised in production.     *)
LedgerAlwaysBalances ==
    \A r \in Requests : outcome[r] # "LedgerImbalanceError"

(* trading_service.py:74-77: an order the exchange has filled has a record    *)
(* from which its fills can be processed again.                               *)
FilledOrderIsRecorded ==
    \A p \in placed :
        (p.report.status = "FILLED" /\ \A r \in Requests : SameKey(r, p.request) => pc[r] = "done")
            => \E r \in Requests : SameKey(r, p.request) /\ Committed(r)
================================================================================
