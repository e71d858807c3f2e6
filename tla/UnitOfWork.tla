----------------------------- MODULE UnitOfWork -----------------------------
(***************************************************************************)
(* The life of an HTTP request: bearer token, user, a handler that runs in *)
(* one database session (get_db), the reply, the commit.  The session      *)
(* takes a connection from the engine's pool at its first statement and    *)
(* keeps it, with the row locks of its transaction, until it is closed:    *)
(* over calls of a gateway too.                                            *)
(*                                                                         *)
(* A handler is the sequence of its awaits (Steps).  What they compute is  *)
(* left to the modules of the services: which step raises, and what, is    *)
(* part of the call.                                                       *)
(***************************************************************************)
EXTENDS Integers, Sequences, FiniteSets

CONSTANTS Requests,     \* HTTP requests
          Accounts,     \* rows of accounts
          Nobody,       \* "no session holds the account row"
          Workloads,    \* the calls that may be made together, one per request
          Connections,  \* db_pool_size + db_max_overflow
          MaxAttempts   \* stop_after_attempt of the gateways' retry policy

(* The awaits of an endpoint once its user is known.                         *)
Steps ==
    [login     |-> <<>>,
     register  |-> <<"read", "write", "write", "write">>,
     order     |-> <<"read", "lock", "write", "gateway", "write">>,
     portfolio |-> <<"positions", "gateway", "account", "credits", "debits">>,
     link      |-> <<"read", "write">>]

Kinds == DOMAIN Steps

(* The endpoints that do not depend on get_current_user. *)
Open == {"login", "register"}

Errors == {"AuthenticationError", "Inactive", "TimeoutError", "IntegrityError",
           "SerializationError", "InvalidOrderError", "AccountNotFoundError",
           "InsufficientFundsError", "BankAccountAlreadyLinkedError",
           "UserAlreadyExistsError", "ExternalGatewayError", "LedgerImbalanceError"}

(* The exception handlers of the application, after the conversions that the *)
(* endpoints make themselves.  Errors of sqlalchemy and pydantic have none.  *)
StatusOf(error) ==
    CASE error = "AuthenticationError"           -> 401
      [] error = "Inactive"                      -> 403
      [] error \in {"BankAccountAlreadyLinkedError", "UserAlreadyExistsError"} -> 409
      [] error = "InsufficientFundsError"        -> 422
      [] error = "ExternalGatewayError"          -> 502
      [] error \in {"InvalidOrderError", "AccountNotFoundError", "LedgerImbalanceError"} -> 400
      [] OTHER                                   -> 500

SuccessOf(kind) == IF kind \in {"register", "order", "link"} THEN 201 ELSE 200

NoReply == 0
Successes == {200, 201}
Replies == {NoReply, 400, 401, 403, 409, 422, 500, 502} \cup Successes

IsCall(c) ==
    /\ c.kind \in Kinds
    /\ c.token \in BOOLEAN                        \* it decodes and has not expired
    /\ c.user \in {"active", "inactive", "none"}  \* the row the caller names
    /\ c.account \in Accounts
    /\ c.failsAt \in Nat                          \* the step that raises, or 0
    /\ c.error \in Errors

ASSUME WorkloadsAssumption == \A w \in Workloads : \A r \in Requests : IsCall(w[r])
ASSUME RequestsAssumption == Nobody \notin Requests
ASSUME BoundsAssumption == Connections \in Nat \ {0} /\ MaxAttempts \in Nat \ {0}

VARIABLES pc,         \* where each request is
          call,       \* what it asks for
          at,         \* the step its handler is at
          attempt,    \* attempts of the gateway that have failed
          connected,  \* requests whose session has a connection of the pool
          rowLock,    \* account row -> the request holding it FOR UPDATE
          written,    \* requests with rows that are not committed
          durable,    \* requests with rows that are
          reply       \* the status the caller was sent

vars == <<pc, call, at, attempt, connected, rowLock, written, durable, reply>>

Phases == {"idle", "token", "connect", "user", "handler", "respond", "commit", "done"}

Init ==
    /\ pc = [r \in Requests |-> "idle"]
    /\ call \in Workloads
    /\ at = [r \in Requests |-> 1]
    /\ attempt = [r \in Requests |-> 0]
    /\ connected = {}
    /\ rowLock = [a \in Accounts |-> Nobody]
    /\ written = {}
    /\ durable = {}
    /\ reply = [r \in Requests |-> NoReply]

--------------------------------------------------------------------------------
Goto(r, phase) == pc' = [pc EXCEPT ![r] = phase]

HandlerSteps(r) == Steps[call[r].kind]

Here(r, step) ==
    /\ pc[r] = "handler"
    /\ at[r] \in DOMAIN HandlerSteps(r) /\ HandlerSteps(r)[at[r]] = step

Fails(r) == at[r] = call[r].failsAt

(* The end of a session: its locks go with its transaction, and its          *)
(* connection returns to the pool.                                           *)
Close(r) ==
    /\ Goto(r, "done")
    /\ connected' = connected \ {r}
    /\ rowLock' = [a \in Accounts |-> IF rowLock[a] = r THEN Nobody ELSE rowLock[a]]
    /\ written' = written \ {r}
    /\ UNCHANGED <<call, at, attempt>>

(* A definition whose name adds a suffix to the next one's is a broken variant *)
(* of it, which some property must refute.                                     *)
FailUnclosed(r, error) ==
    /\ Goto(r, "done")
    /\ rowLock' = [a \in Accounts |-> IF rowLock[a] = r THEN Nobody ELSE rowLock[a]]
    /\ written' = written \ {r}
    /\ reply' = [reply EXCEPT ![r] = StatusOf(error)]
    /\ UNCHANGED <<call, at, attempt, connected, durable>>

(* An exception passes through get_db, which rolls back, and becomes a reply. *)
Fail(r, error) ==
    /\ Close(r)
    /\ reply' = [reply EXCEPT ![r] = StatusOf(error)]
    /\ UNCHANGED durable

(* To the next await of the handler, or out of it. *)
Advance(r) ==
    /\ IF at[r] < Len(HandlerSteps(r))
       THEN at' = [at EXCEPT ![r] = @ + 1] /\ UNCHANGED pc
       ELSE Goto(r, "respond") /\ UNCHANGED at
    /\ UNCHANGED <<call, connected, durable, reply>>

Arrive(r) ==
    /\ pc[r] = "idle"
    /\ Goto(r, IF call[r].kind \in Open THEN "connect" ELSE "token")
    /\ UNCHANGED <<call, at, attempt, connected, rowLock, written, durable, reply>>

AuthenticateLate(r) ==
    /\ pc[r] = "token"
    /\ Goto(r, "connect")
    /\ UNCHANGED <<call, at, attempt, connected, rowLock, written, durable, reply>>

(* get_current_user decodes the token before it uses the session. *)
Authenticate(r) ==
    /\ pc[r] = "token"
    /\ IF call[r].token
       THEN /\ Goto(r, "connect")
            /\ UNCHANGED <<call, at, attempt, connected, rowLock, written, durable, reply>>
       ELSE Fail(r, "AuthenticationError")

(* The first statement checks a connection out of the pool, or waits for one; *)
(* it is the user's SELECT, which a registration does without.                *)
PoolFull == Cardinality(connected) >= Connections

Connect(r) ==
    /\ pc[r] = "connect" /\ ~PoolFull
    /\ connected' = connected \cup {r}
    /\ Goto(r, IF call[r].kind = "register" THEN "handler" ELSE "user")
    /\ UNCHANGED <<call, at, attempt, rowLock, written, durable, reply>>

(* pool_timeout, of which nothing but its possibility is assumed. *)
PoolTimesOut(r) ==
    /\ pc[r] = "connect" /\ PoolFull
    /\ Fail(r, "TimeoutError")

(* The user, by id or for a login by e-mail address. *)
LoadUser(r) ==
    /\ pc[r] = "user"
    /\ CASE call[r].user = "none"     -> Fail(r, "AuthenticationError")
         [] call[r].user = "inactive" -> Fail(r, "Inactive")
         [] OTHER ->
              /\ Goto(r, IF HandlerSteps(r) = <<>> THEN "respond" ELSE "handler")
              /\ UNCHANGED <<call, at, attempt, connected, rowLock, written, durable, reply>>

--------------------------------------------------------------------------------
(* The steps of a handler.                                                    *)

Read(r, step) ==
    /\ Here(r, step)
    /\ IF Fails(r) THEN Fail(r, call[r].error)
       ELSE Advance(r) /\ UNCHANGED <<attempt, rowLock, written>>

(* A read finds that nothing is left to do: the order exists, there are no    *)
(* positions, there is no account in the quote currency.                      *)
NothingLeft(r) ==
    \/ call[r].kind = "order" /\ Here(r, "read")
    \/ Here(r, "positions")
    \/ Here(r, "account")

ReturnEarly(r) ==
    /\ NothingLeft(r)
    /\ Goto(r, "respond")
    /\ UNCHANGED <<call, at, attempt, connected, rowLock, written, durable, reply>>

(* get_balance_for_update. *)
LockAccount(r) ==
    /\ Here(r, "lock")
    /\ rowLock[call[r].account] = Nobody
    /\ IF Fails(r) THEN Fail(r, call[r].error)
       ELSE /\ rowLock' = [rowLock EXCEPT ![call[r].account] = r]
            /\ Advance(r)
            /\ UNCHANGED <<attempt, written>>

Write(r) ==
    /\ Here(r, "write")
    /\ IF Fails(r) THEN Fail(r, call[r].error)
       ELSE /\ written' = written \cup {r}
            /\ Advance(r)
            /\ UNCHANGED <<attempt, rowLock>>

GatewayAnswers(r) ==
    /\ Here(r, "gateway")
    /\ Advance(r)
    /\ UNCHANGED <<attempt, rowLock, written>>

(* The error of the last attempt: the summary goes on without prices. *)
GiveUp(r) ==
    IF call[r].kind = "portfolio"
    THEN Advance(r) /\ UNCHANGED <<attempt, rowLock, written>>
    ELSE Fail(r, "ExternalGatewayError")

GatewayTimesOutForever(r) ==
    /\ Here(r, "gateway")
    /\ attempt' = [attempt EXCEPT ![r] = @ + 1]
    /\ UNCHANGED <<pc, call, at, connected, rowLock, written, durable, reply>>

(* A timeout or a rate limit is retried, any other error is not. *)
GatewayTimesOut(r) ==
    /\ Here(r, "gateway")
    /\ IF attempt[r] + 1 < MaxAttempts
       THEN /\ attempt' = [attempt EXCEPT ![r] = @ + 1]
            /\ UNCHANGED <<pc, call, at, connected, rowLock, written, durable, reply>>
       ELSE GiveUp(r)

GatewayFails(r) == Here(r, "gateway") /\ GiveUp(r)

--------------------------------------------------------------------------------
RespondCommitted(r) ==
    /\ pc[r] = "respond"
    /\ \/ /\ reply' = [reply EXCEPT ![r] = SuccessOf(call[r].kind)]
          /\ Goto(r, "commit")
          /\ UNCHANGED <<call, at, attempt, connected, rowLock, written, durable>>
       \/ /\ Close(r)
          /\ durable' = IF r \in written THEN durable \cup {r} ELSE durable
          /\ reply' = [reply EXCEPT ![r] = StatusOf("SerializationError")]

(* The reply is built, which may raise, and sent. *)
Respond(r) ==
    /\ pc[r] = "respond"
    /\ \/ /\ reply' = [reply EXCEPT ![r] = SuccessOf(call[r].kind)]
          /\ Goto(r, "commit")
          /\ UNCHANGED <<call, at, attempt, connected, rowLock, written, durable>>
       \/ Fail(r, "SerializationError")

(* After that get_db commits and closes the session. *)
Commit(r) ==
    /\ pc[r] = "commit"
    /\ durable' = IF r \in written THEN durable \cup {r} ELSE durable
    /\ Close(r)
    /\ UNCHANGED reply

AbortWithoutReset(r) ==
    /\ pc[r] \notin {"idle", "done"}
    /\ Goto(r, "done")
    /\ connected' = connected \ {r}
    /\ written' = written \ {r}
    /\ UNCHANGED <<call, at, attempt, rowLock, durable, reply>>

(* A cancelled request, a lost connection, a crash, a commit that fails: the  *)
(* caller gets no reply, or keeps the one it has.                             *)
Abort(r) ==
    /\ pc[r] \notin {"idle", "done"}
    /\ Close(r)
    /\ UNCHANGED <<durable, reply>>

Reads == {"read", "positions", "account", "credits", "debits"}

Step(r) ==
    \/ Authenticate(r)
    \/ Connect(r)
    \/ LoadUser(r)
    \/ \E s \in Reads : Read(r, s)
    \/ LockAccount(r)
    \/ Write(r)
    \/ GatewayTimesOut(r)
    \/ Respond(r)
    \/ Commit(r)

(* What a request may also meet, and need not. *)
Event(r) ==
    \/ Arrive(r)
    \/ PoolTimesOut(r)
    \/ ReturnEarly(r)
    \/ GatewayAnswers(r)
    \/ GatewayFails(r)
    \/ Abort(r)

Terminating ==
    /\ \A r \in Requests : pc[r] = "done"
    /\ UNCHANGED vars

Next == (\E r \in Requests : Step(r) \/ Event(r)) \/ Terminating

(* The event loop runs what can run; a gateway's HTTP client times out.  The  *)
(* pool's timeout is not assumed: nobody needs it to get a connection.        *)
Fairness == \A r \in Requests : WF_vars(Step(r))

Spec == Init /\ [][Next]_vars /\ Fairness

--------------------------------------------------------------------------------
TypeOK ==
    /\ pc \in [Requests -> Phases]
    /\ call \in Workloads
    /\ at \in [Requests -> 1..5]
    /\ attempt \in [Requests -> 0 .. MaxAttempts - 1]
    /\ connected \subseteq Requests
    /\ rowLock \in [Accounts -> Requests \cup {Nobody}]
    /\ written \subseteq Requests
    /\ durable \subseteq Requests
    /\ reply \in [Requests -> Replies]

(* database.py:49: whatever fails, and whenever, somebody who was told of an  *)
(* error, or nothing, has left no row: what is durable was reported as done.  *)
(* (Not the converse: the commit that follows the reply may fail.)            *)
DurableWasReported == \A r \in durable : reply[r] \in Successes

(* A row lock lives in the transaction of a connection: no request waits for  *)
(* a connection while others wait for its lock, and no connection goes back   *)
(* to the pool, however its request ended, with a lock on it.                 *)
LocksAreConnected ==
    \A a \in Accounts : rowLock[a] # Nobody => rowLock[a] \in connected

(* deps.py:29-66: an endpoint behind get_current_user takes a connection only *)
(* for a caller with a valid token, and writes, or makes durable, only for a  *)
(* user that exists and is active, and nobody else holds a row of accounts.   *)
(* (login and register are open to anybody, and use the same pool.)           *)
HasUser(r) == call[r].token /\ call[r].user = "active"

ProtectedNeedsUser ==
    /\ \A r \in connected : call[r].kind \notin Open => call[r].token
    /\ \A r \in written \cup durable : call[r].kind \notin Open => HasUser(r)
    /\ \A a \in Accounts : rowLock[a] # Nobody => HasUser(rowLock[a])

(* Every request ends: with a pool smaller than the number of requests, with  *)
(* handlers that wait for a row while they hold a connection and call a       *)
(* gateway while they hold both, with a gateway that never answers, and       *)
(* without the pool's timeout.                                                *)
EveryRequestEnds == \A r \in Requests : pc[r] # "idle" ~> pc[r] = "done"
================================================================================
