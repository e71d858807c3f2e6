------------------------------- MODULE Banking -------------------------------
(***************************************************************************)
(* BankingService.deposit_funds and confirm_deposit: a handler that keeps  *)
(* its Transaction row uncommitted while the bank already has the          *)
(* transfer, and callbacks that look the row up by the transfer's id,      *)
(* possibly before it is durable, possibly several at once.                *)
(*                                                                         *)
(* Who calls confirm_deposit (a webhook, a reconciliation job) is not in   *)
(* the repository: any call about a settled transfer, at any time and any  *)
(* number of times, is allowed.  Amounts and currencies do not influence   *)
(* the control flow and are left out; no ledger entry is posted.           *)
(***************************************************************************)
EXTENDS Integers

CONSTANTS Deposits,     \* calls of deposit_funds
          Callbacks,    \* calls of confirm_deposit
          Calls,        \* the arguments deposits come with
          NoTransfer,   \* reference_id is NULL
          Nobody,       \* "no session has updated the transaction row"
          MaxAttempts   \* stop_after_attempt of the gateway's retry policy

CallType == [owned   : BOOLEAN,    \* the bank account is one of the user's
             account : BOOLEAN]    \* the user has an account in the currency

(* The bank's ids: each attempt of the gateway to initiate one gets its own. *)
Transfers == [deposit : Deposits, attempt : 1..MaxAttempts]

ASSUME CallsAssumption == Calls \subseteq CallType
ASSUME TransferAssumption == NoTransfer \notin Transfers
ASSUME CallbacksAssumption == Nobody \notin Callbacks
ASSUME AttemptsAssumption == MaxAttempts \in Nat \ {0}

VARIABLES pc,        \* where each deposit is in its handler
          call,      \* its arguments
          attempt,   \* attempts of the gateway so far
          txn,       \* its Transaction row, and whether it is durable
          outcome,   \* what its caller is told, or the exception
          bank,      \* transfer -> none, on its way, or as the bank has it
          cpc,       \* where each callback is
          about,     \* the transfer it is about
          rowLock,   \* transaction row -> the callback that has updated it
          verdict    \* how the callback ended

depositVars == <<pc, call, attempt, outcome>>
callbackVars == <<cpc, about, rowLock, verdict>>
vars == <<pc, call, attempt, txn, outcome, bank, cpc, about, rowLock, verdict>>

Phases == {"idle", "validate", "transfer", "awaiting", "commit", "done"}
CallbackPhases == {"idle", "lookup", "update", "commit", "done"}

Outcomes == {"none", "initiated", "BankAccountNotFoundError", "AccountNotFoundError",
             "GatewayError", "Aborted"}
Verdicts == {"none", "unknown", "already", "confirmed", "aborted"}

NoRow == [db |-> "none", status |-> "none", ref |-> NoTransfer]

Written(status, ref) == [db |-> "written", status |-> status, ref |-> ref]

RowType == [db     : {"none", "written", "committed"},
            status : {"none", "PENDING", "PROCESSING", "COMPLETED"},
            ref    : Transfers \cup {NoTransfer}]

Init ==
    /\ pc = [d \in Deposits |-> "idle"]
    /\ call \in [Deposits -> Calls]
    /\ attempt = [d \in Deposits |-> 0]
    /\ txn = [d \in Deposits |-> NoRow]
    /\ outcome = [d \in Deposits |-> "none"]
    /\ bank = [t \in Transfers |-> "none"]
    /\ cpc = [c \in Callbacks |-> "idle"]
    /\ about = [c \in Callbacks |-> NoTransfer]
    /\ rowLock = [d \in Deposits |-> Nobody]
    /\ verdict = [c \in Callbacks |-> "none"]

--------------------------------------------------------------------------------
(* deposit_funds.  A definition whose name adds a suffix to the next one's is *)
(* a broken variant of it, which some property must refute.                   *)

Goto(d, phase) == pc' = [pc EXCEPT ![d] = phase]

Durable(d) == txn[d].db = "committed"

Current(d) == [deposit |-> d, attempt |-> attempt[d]]

Received(t) == bank[t] \in {"initiated", "settled"}

(* An exception leaves the handler: the except branch may have marked the row *)
(* FAILED, and get_db rolls the row back.                                     *)
Fail(d, why) ==
    /\ Goto(d, "done")
    /\ outcome' = [outcome EXCEPT ![d] = why]
    /\ txn' = [txn EXCEPT ![d] = NoRow]
    /\ UNCHANGED <<call, attempt, bank, callbackVars>>

Arrive(d) ==
    /\ pc[d] = "idle"
    /\ Goto(d, "validate")
    /\ UNCHANGED <<call, attempt, txn, outcome, bank, callbackVars>>

(* The two checks, then the INSERT of the PENDING row. *)
Validate(d) ==
    /\ pc[d] = "validate"
    /\ \/ ~call[d].owned /\ Fail(d, "BankAccountNotFoundError")
       \/ call[d].owned /\ ~call[d].account /\ Fail(d, "AccountNotFoundError")
       \/ /\ call[d].owned /\ call[d].account
          /\ txn' = [txn EXCEPT ![d] = Written("PENDING", NoTransfer)]
          /\ Goto(d, "transfer")
          /\ UNCHANGED <<call, attempt, outcome, bank, callbackVars>>

(* initiate_transfer: the request for a transfer is on its way to the bank. *)
InitiateTransfer(d) ==
    /\ pc[d] = "transfer"
    /\ attempt' = [attempt EXCEPT ![d] = @ + 1]
    /\ bank' = [bank EXCEPT ![[deposit |-> d, attempt |-> attempt[d] + 1]] = "sent"]
    /\ Goto(d, "awaiting")
    /\ UNCHANGED <<call, txn, outcome, callbackVars>>

RetryForever(d) ==
    /\ pc[d] = "awaiting"
    /\ Goto(d, "transfer")
    /\ UNCHANGED <<call, attempt, txn, outcome, bank, callbackVars>>

(* A timeout or a rate limit: retry, which asks for a transfer of its own. *)
RetryOrGiveUp(d) ==
    /\ pc[d] = "awaiting"
    /\ IF attempt[d] < MaxAttempts
       THEN /\ Goto(d, "transfer")
            /\ UNCHANGED <<call, attempt, txn, outcome, bank, callbackVars>>
       ELSE Fail(d, "GatewayError")

GatewayFails(d) ==
    /\ pc[d] = "awaiting"
    /\ Fail(d, "GatewayError")

GatewayAnswersCompleted(d) ==
    /\ pc[d] = "awaiting"
    /\ Received(Current(d))
    /\ txn' = [txn EXCEPT ![d] = Written("COMPLETED", Current(d))]
    /\ Goto(d, "commit")
    /\ UNCHANGED <<call, attempt, outcome, bank, callbackVars>>

(* The answer comes, and update_status stores the transfer's id. *)
GatewayAnswers(d) ==
    /\ pc[d] = "awaiting"
    /\ Received(Current(d))
    /\ txn' = [txn EXCEPT ![d] = Written("PROCESSING", Current(d))]
    /\ Goto(d, "commit")
    /\ UNCHANGED <<call, attempt, outcome, bank, callbackVars>>

Commit(d) ==
    /\ pc[d] = "commit"
    /\ txn' = [txn EXCEPT ![d].db = "committed"]
    /\ outcome' = [outcome EXCEPT ![d] = "initiated"]
    /\ Goto(d, "done")
    /\ UNCHANGED <<call, attempt, bank, callbackVars>>

(* A cancelled request, a lost connection, a crash. *)
Abort(d) ==
    /\ pc[d] \notin {"idle", "done"}
    /\ Fail(d, "Aborted")

--------------------------------------------------------------------------------
(* The bank, and confirm_deposit.                                             *)

(* The request arrives: in time, after its attempt was given up or its deposit *)
(* rolled back, or never.                                                      *)
Receive(t) ==
    /\ bank[t] = "sent"
    /\ bank' = [bank EXCEPT ![t] = "initiated"]
    /\ UNCHANGED <<depositVars, txn, callbackVars>>

Settle(t) ==
    /\ bank[t] = "initiated"
    /\ bank' = [bank EXCEPT ![t] = "settled"]
    /\ UNCHANGED <<depositVars, txn, callbackVars>>

CallBack(c, t) ==
    /\ cpc[c] = "idle"
    /\ bank[t] = "settled"
    /\ about' = [about EXCEPT ![c] = t]
    /\ cpc' = [cpc EXCEPT ![c] = "lookup"]
    /\ UNCHANGED <<depositVars, txn, bank, rowLock, verdict>>

ReleaseRow(c) ==
    rowLock' = [d \in Deposits |-> IF rowLock[d] = c THEN Nobody ELSE rowLock[d]]

Finish(c, how) ==
    /\ cpc' = [cpc EXCEPT ![c] = "done"]
    /\ verdict' = [verdict EXCEPT ![c] = how]

Found(c) == {d \in Deposits : Durable(d) /\ txn[d].ref = about[c]}

GetByReferenceUncommitted(c) ==
    /\ cpc[c] = "lookup"
    /\ \/ Found(c) = {} /\ Finish(c, "unknown")
       \/ \E d \in Found(c) :
             /\ txn[d].status = "COMPLETED" \/ rowLock[d] # Nobody
             /\ Finish(c, "already")
       \/ /\ \E d \in Found(c) : txn[d].status # "COMPLETED" /\ rowLock[d] = Nobody
          /\ cpc' = [cpc EXCEPT ![c] = "update"]
          /\ UNCHANGED verdict
    /\ UNCHANGED <<depositVars, txn, bank, about, rowLock>>

(* The lookup and its guards, on what is committed: no row, a COMPLETED row,  *)
(* or a row to complete.                                                      *)
GetByReference(c) ==
    /\ cpc[c] = "lookup"
    /\ \/ Found(c) = {} /\ Finish(c, "unknown")
       \/ (\E d \in Found(c) : txn[d].status = "COMPLETED") /\ Finish(c, "already")
       \/ /\ \E d \in Found(c) : txn[d].status # "COMPLETED"
          /\ cpc' = [cpc EXCEPT ![c] = "update"]
          /\ UNCHANGED verdict
    /\ UNCHANGED <<depositVars, txn, bank, about, rowLock>>

(* The UPDATE waits for a session that has updated the row and not ended, and *)
(* then goes ahead: its WHERE clause names the id only.                       *)
UpdateStatus(c) ==
    /\ cpc[c] = "update"
    /\ \E d \in Found(c) :
          /\ rowLock[d] = Nobody
          /\ rowLock' = [rowLock EXCEPT ![d] = c]
    /\ cpc' = [cpc EXCEPT ![c] = "commit"]
    /\ UNCHANGED <<depositVars, txn, bank, about, verdict>>

CommitErasingReference(c) ==
    /\ cpc[c] = "commit"
    /\ txn' = [d \in Deposits |->
                  IF rowLock[d] = c
                  THEN [txn[d] EXCEPT !.status = "COMPLETED", !.ref = NoTransfer]
                  ELSE txn[d]]
    /\ ReleaseRow(c)
    /\ Finish(c, "confirmed")
    /\ UNCHANGED <<depositVars, bank, about>>

CommitConfirmation(c) ==
    /\ cpc[c] = "commit"
    /\ txn' = [d \in Deposits |->
                  IF rowLock[d] = c THEN [txn[d] EXCEPT !.status = "COMPLETED"] ELSE txn[d]]
    /\ ReleaseRow(c)
    /\ Finish(c, "confirmed")
    /\ UNCHANGED <<depositVars, bank, about>>

AbortKeepingRow(c) ==
    /\ cpc[c] \notin {"idle", "done"}
    /\ Finish(c, "aborted")
    /\ UNCHANGED <<depositVars, txn, bank, about, rowLock>>

AbortConfirmation(c) ==
    /\ cpc[c] \notin {"idle", "done"}
    /\ ReleaseRow(c)
    /\ Finish(c, "aborted")
    /\ UNCHANGED <<depositVars, txn, bank, about>>

(* What the reconciliation job would be given. *)
GetPending == {d \in Deposits : Durable(d) /\ txn[d].status = "PENDING"}

--------------------------------------------------------------------------------
DepositStep(d) ==
    \/ Validate(d)
    \/ InitiateTransfer(d)
    \/ RetryOrGiveUp(d)
    \/ GatewayFails(d)
    \/ GatewayAnswers(d)
    \/ Commit(d)

CallbackStep(c) ==
    \/ GetByReference(c)
    \/ UpdateStatus(c)
    \/ CommitConfirmation(c)

Terminating ==
    /\ \A d \in Deposits : pc[d] = "done"
    /\ \A c \in Callbacks : cpc[c] \in {"idle", "done"}
    /\ UNCHANGED vars

Next ==
    \/ \E d \in Deposits : Arrive(d) \/ DepositStep(d) \/ Abort(d)
    \/ \E t \in Transfers : Receive(t) \/ Settle(t) \/ (\E c \in Callbacks : CallBack(c, t))
    \/ \E c \in Callbacks : CallbackStep(c) \/ AbortConfirmation(c)
    \/ Terminating

(* Handlers that run keep running; the bank receives, settles and calls back, *)
(* or not.                                                                    *)
Fairness ==
    /\ \A d \in Deposits : WF_vars(DepositStep(d))
    /\ \A c \in Callbacks : WF_vars(CallbackStep(c))

Spec == Init /\ [][Next]_vars /\ Fairness

--------------------------------------------------------------------------------
TypeOK ==
    /\ pc \in [Deposits -> Phases]
    /\ call \in [Deposits -> Calls]
    /\ attempt \in [Deposits -> 0..MaxAttempts]
    /\ txn \in [Deposits -> RowType]
    /\ outcome \in [Deposits -> Outcomes]
    /\ bank \in [Transfers -> {"none", "sent", "initiated", "settled"}]
    /\ cpc \in [Callbacks -> CallbackPhases]
    /\ about \in [Callbacks -> Transfers \cup {NoTransfer}]
    /\ rowLock \in [Deposits -> Callbacks \cup {Nobody}]
    /\ verdict \in [Callbacks -> Verdicts]

(* banking_service.py:37: a durable deposit names a transfer the bank has,    *)
(* whatever attempts were lost, and it is COMPLETED only once that one, and   *)
(* not another attempt's, has settled.                                        *)
NeverCreditedUnconfirmed ==
    \A d \in Deposits : Durable(d) =>
        /\ txn[d].ref \in Transfers /\ txn[d].ref.deposit = d
        /\ Received(txn[d].ref)
        /\ txn[d].status = "COMPLETED" => bank[txn[d].ref] = "settled"

(* A callback that reported success is never undone by one that races with it *)
(* and rolls back: the deposit it was about is COMPLETED from then on.        *)
ConfirmationHolds ==
    \A c \in Callbacks : verdict[c] \in {"already", "confirmed"} =>
        \E d \in Deposits : Durable(d) /\ txn[d].ref = about[c] /\ txn[d].status = "COMPLETED"

(* Concurrent and repeated callbacks only ever move a durable deposit from    *)
(* PROCESSING to COMPLETED: it keeps its reference and does not go back.      *)
DurableDepositOnlyCompletes ==
    [][\A d \in Deposits : Durable(d) =>
          /\ Durable(d)'
          /\ txn[d].ref' = txn[d].ref
          /\ txn[d].status' # txn[d].status =>
                txn[d].status = "PROCESSING" /\ txn[d].status' = "COMPLETED"]_vars

(* Deposits end although the bank may never answer, and callbacks that wait   *)
(* for each other's row end although any of them may roll back.               *)
HandlersEnd ==
    /\ \A d \in Deposits : pc[d] # "idle" ~> pc[d] = "done"
    /\ \A c \in Callbacks : cpc[c] # "idle" ~> cpc[c] = "done"

(* What the owner of a deposit may rely on, whatever happens to handlers,     *)
(* attempts and callbacks: banking_service.py:29-39 as the life of a row.     *)
Life == INSTANCE DepositLife
    WITH bank <- [t \in Transfers |-> IF Received(t) THEN bank[t] ELSE "none"],
         NoDeposit <- NoRow,
         deposit <- [d \in Deposits |-> IF Durable(d)
                                        THEN [status |-> txn[d].status, ref |-> txn[d].ref]
                                        ELSE NoRow]

ImplementsDepositLife == Life!Spec

--------------------------------------------------------------------------------
(* What the repository's documentation says and the code does not do.         *)

(* banking_service.py:172: the guard lets one callback per transfer through   *)
(* to the place where the ledger entries are to be posted.                    *)
ConfirmedOnce ==
    \A b, c \in Callbacks :
        (b # c /\ verdict[b] = "confirmed" /\ verdict[c] = "confirmed") => about[b] # about[c]

(* transaction_repository.py:66-69: a settled deposit that no callback has    *)
(* completed is one the reconciliation job is given.                          *)
SettledIsFound ==
    \A d \in Deposits :
        (/\ Durable(d)
         /\ bank[txn[d].ref] = "settled"
         /\ \E c \in Callbacks : about[c] = txn[d].ref
         /\ \A c \in Callbacks : cpc[c] \in {"idle", "done"} /\ verdict[c] # "aborted")
            => txn[d].status = "COMPLETED" \/ d \in GetPending
================================================================================
