-------------------------- MODULE UnitOfWorkProofs --------------------------
(***************************************************************************)
(* What UnitOfWork guarantees for any requests, calls, accounts, number of *)
(* attempts and size of the pool.                                          *)
(*                                                                         *)
(* The argument: a request is in one of the phases of its session exactly  *)
(* while it has a connection; unless its endpoint is open it enters them   *)
(* with a token and goes past the first as an active user; it takes locks  *)
(* and writes only in the later ones, and every way out of them is Close.  *)
(***************************************************************************)
EXTENDS UnitOfWork, TLAPS

Working == {"handler", "respond", "commit"}
InSession == Working \cup {"user"}

(* Where a request must be to have a connection, and what it has shown by then. *)
SessionPhase ==
    \A r \in Requests :
        /\ r \in connected <=> pc[r] \in InSession
        /\ pc[r] \in InSession \cup {"connect"} => call[r].token \/ call[r].kind \in Open
        /\ pc[r] \in Working => call[r].user = "active" \/ call[r].kind = "register"
        /\ pc[r] = "handler" => at[r] \in DOMAIN HandlerSteps(r)
        /\ pc[r] \notin Working \cup {"done"} => at[r] = 1

(* Locks and rows are those of requests at work. *)
LocksOfWorking ==
    \A a \in Accounts : rowLock[a] # Nobody =>
        pc[rowLock[a]] \in Working /\ call[rowLock[a]].kind \notin Open

RowsOfWorking ==
    \A r \in written : pc[r] \in Working

(* What a commit is about to make true, or has. *)
ReportedFirst ==
    \A r \in Requests :
        /\ pc[r] = "commit" => reply[r] \in Successes
        /\ r \in durable => /\ pc[r] = "done" /\ reply[r] \in Successes
                            /\ call[r].kind \notin Open => HasUser(r)

(* The inductive invariant. *)
IInv ==
    /\ TypeOK
    /\ SessionPhase
    /\ LocksOfWorking
    /\ RowsOfWorking
    /\ ReportedFirst

USE WorkloadsAssumption, RequestsAssumption, BoundsAssumption

(* Before the first request the inductive invariant holds.                    *)
LEMMA InitEstablishes == Init => IInv
<1> SUFFICES ASSUME Init PROVE IInv
  OBVIOUS
<1>1. TypeOK  BY DEF Init, TypeOK, Phases, Replies, NoReply
<1> QED BY <1>1 DEF Init, IInv, SessionPhase, LocksOfWorking, RowsOfWorking, ReportedFirst,
                    InSession, Working

(* A handler has at most five awaits, one of them at least in a registration; *)
(* the one that locks is an order's.                                          *)
LEMMA StepsOf ==
    /\ \A k \in Kinds : /\ Len(Steps[k]) \in 0..5
                        /\ DOMAIN Steps[k] = 1..Len(Steps[k])
    /\ Len(Steps["register"]) = 4
    /\ \A k \in Kinds : \A i \in DOMAIN Steps[k] : Steps[k][i] = "lock" => k \notin Open
BY DEF Kinds, Steps, Open

(* The calls of a workload are calls. *)
LEMMA CallsOf ==
    ASSUME IInv, NEW r \in Requests
    PROVE  IsCall(call[r]) /\ call[r].kind \in Kinds
BY DEF IInv, TypeOK, IsCall

(* The statuses of errors and of successes are replies. *)
LEMMA StatusesOf ==
    /\ \A e \in Errors : StatusOf(e) \in Replies
    /\ \A k \in Kinds : SuccessOf(k) \in Successes
    /\ Successes \subseteq Replies
BY DEF StatusOf, SuccessOf, Errors, Replies, Successes, Kinds, Steps

(* The end of a session takes its locks, rows and connection with it; its rows *)
(* may become durable only if its caller has been told so.                     *)
LEMMA ClosePreserves ==
    ASSUME IInv, NEW r \in Requests, pc[r] \notin {"idle", "done"}, Close(r),
           reply' \in [Requests -> Replies],
           \A q \in Requests \ {r} : reply'[q] = reply[q],
           \/ durable' = durable
           \/ /\ durable' = durable \cup {r}
              /\ reply'[r] \in Successes
              /\ call[r].kind \notin Open => HasUser(r)
    PROVE  IInv'
<1> USE DEF Close, Goto
<1>0. TypeOK  BY DEF IInv
<1>1. TypeOK'
  <2>1. pc' \in [Requests -> Phases]  BY <1>0 DEF TypeOK, Phases
  <2>2. rowLock' \in [Accounts -> Requests \cup {Nobody}]  BY <1>0 DEF TypeOK
  <2> QED BY <1>0, <2>1, <2>2 DEF TypeOK
<1>2. pc'[r] = "done" /\ \A q \in Requests \ {r} : pc'[q] = pc[q]  BY <1>0 DEF TypeOK
<1>3. SessionPhase'
  <2> SUFFICES ASSUME NEW q \in Requests
               PROVE  /\ q \in connected' <=> pc'[q] \in InSession
                      /\ pc'[q] \in InSession \cup {"connect"} => call[q].token \/ call[q].kind \in Open
                      /\ pc'[q] \in Working => call[q].user = "active" \/ call[q].kind = "register"
                      /\ pc'[q] = "handler" => at[q] \in DOMAIN HandlerSteps(q)
                      /\ pc'[q] \notin Working \cup {"done"} => at[q] = 1
    BY DEF SessionPhase, HandlerSteps
  <2>1. CASE q = r  BY <2>1, <1>2 DEF InSession, Working
  <2>2. CASE q # r  BY <2>2, <1>2 DEF IInv, SessionPhase
  <2> QED BY <2>1, <2>2
<1>4. LocksOfWorking'
  <2> SUFFICES ASSUME NEW a \in Accounts, rowLock'[a] # Nobody
               PROVE  pc'[rowLock'[a]] \in Working /\ call[rowLock'[a]].kind \notin Open
    BY DEF LocksOfWorking
  <2>1. rowLock'[a] = rowLock[a] /\ rowLock[a] \in Requests \ {r}  BY <1>0 DEF TypeOK
  <2> QED BY <2>1, <1>2 DEF IInv, LocksOfWorking
<1>5. RowsOfWorking'  BY <1>0, <1>2 DEF IInv, TypeOK, RowsOfWorking
<1>6. ReportedFirst'  BY <1>2 DEF IInv, ReportedFirst, HasUser
<1> QED BY <1>1, <1>3, <1>4, <1>5, <1>6 DEF IInv

(* An error closes the session of its request. *)
LEMMA FailPreserves ==
    ASSUME IInv, NEW r \in Requests, pc[r] \notin {"idle", "done"}, NEW e \in Errors, Fail(r, e)
    PROVE  IInv'
<1>1. reply' \in [Requests -> Replies] /\ \A q \in Requests \ {r} : reply'[q] = reply[q]
  BY StatusesOf DEF Fail, IInv, TypeOK
<1> QED BY <1>1, ClosePreserves DEF Fail

(* A request that goes to another phase, and takes what the phase comes with. *)
LEMMA MovePreserves ==
    ASSUME IInv, NEW r \in Requests, NEW x \in Phases \ {"done"}, Goto(r, x),
           pc[r] # "done",
           pc[r] \in Working => x \in Working,
           UNCHANGED <<call, at, rowLock, written, durable>>,
           attempt' \in [Requests -> 0 .. MaxAttempts - 1],
           reply' \in [Requests -> Replies],
           \A q \in Requests \ {r} : reply'[q] = reply[q],
           connected' = IF x \in InSession THEN connected \cup {r} ELSE connected \ {r},
           x \in InSession \cup {"connect"} => call[r].token \/ call[r].kind \in Open,
           x \in Working => call[r].user = "active" \/ call[r].kind = "register",
           x = "handler" => at[r] \in DOMAIN HandlerSteps(r),
           x = "commit" => reply'[r] \in Successes
    PROVE  IInv'
<1> USE DEF Goto
<1>0. TypeOK  BY DEF IInv
<1>1. TypeOK'
  <2>1. pc' \in [Requests -> Phases]  BY <1>0 DEF TypeOK
  <2>2. connected' \subseteq Requests  BY <1>0 DEF TypeOK
  <2> QED BY <1>0, <2>1, <2>2 DEF TypeOK
<1>2. pc'[r] = x /\ \A q \in Requests \ {r} : pc'[q] = pc[q]  BY <1>0 DEF TypeOK
<1>3. SessionPhase'
  <2> SUFFICES ASSUME NEW q \in Requests
               PROVE  /\ q \in connected' <=> pc'[q] \in InSession
                      /\ pc'[q] \in InSession \cup {"connect"} => call[q].token \/ call[q].kind \in Open
                      /\ pc'[q] \in Working => call[q].user = "active" \/ call[q].kind = "register"
                      /\ pc'[q] = "handler" => at[q] \in DOMAIN HandlerSteps(q)
                      /\ pc'[q] \notin Working \cup {"done"} => at[q] = 1
    BY DEF SessionPhase, HandlerSteps
  <2>1. CASE q = r  BY <2>1, <1>2 DEF IInv, SessionPhase
  <2>2. CASE q # r  BY <2>2, <1>2 DEF IInv, SessionPhase
  <2> QED BY <2>1, <2>2
<1>4. LocksOfWorking'
  <2> SUFFICES ASSUME NEW a \in Accounts, rowLock[a] # Nobody
               PROVE  pc'[rowLock[a]] \in Working /\ call[rowLock[a]].kind \notin Open
    BY DEF LocksOfWorking
  <2>1. rowLock[a] \in Requests /\ pc[rowLock[a]] \in Working /\ call[rowLock[a]].kind \notin Open
    BY <1>0 DEF TypeOK, IInv, LocksOfWorking
  <2> QED BY <2>1, <1>2
<1>5. RowsOfWorking'
  <2> SUFFICES ASSUME NEW q \in written  PROVE pc'[q] \in Working
    BY DEF RowsOfWorking
  <2>1. q \in Requests /\ pc[q] \in Working
    BY <1>0 DEF TypeOK, IInv, RowsOfWorking
  <2> QED BY <2>1, <1>2
<1>6. ReportedFirst'  BY <1>2 DEF IInv, ReportedFirst, HasUser
<1> QED BY <1>1, <1>3, <1>4, <1>5, <1>6 DEF IInv

(* A step of a handler may take the lock of its account and write rows. *)
LEMMA AdvancePreserves ==
    ASSUME IInv, NEW r \in Requests, pc[r] = "handler", Advance(r),
           attempt' \in [Requests -> 0 .. MaxAttempts - 1],
           \/ rowLock' = rowLock
           \/ /\ call[r].kind \notin Open
              /\ \E a \in Accounts : rowLock' = [rowLock EXCEPT ![a] = r],
           written' = written \/ written' = written \cup {r}
    PROVE  IInv'
<1>0. TypeOK  BY DEF IInv
<1>a. /\ call[r].kind \in Kinds /\ r \in connected
      /\ call[r].user = "active" \/ call[r].kind = "register"
      /\ call[r].token \/ call[r].kind \in Open
      /\ at[r] \in DOMAIN HandlerSteps(r)
  BY CallsOf DEF IInv, SessionPhase, InSession, Working
<1>b. /\ Len(HandlerSteps(r)) \in 0..5
      /\ DOMAIN HandlerSteps(r) = 1..Len(HandlerSteps(r))
  BY <1>a, StepsOf DEF HandlerSteps
<1>d. UNCHANGED <<call, connected, durable, reply>>  BY DEF Advance
<1>e. /\ pc'[r] \in {"handler", "respond"}
      /\ \A q \in Requests \ {r} : pc'[q] = pc[q] /\ at'[q] = at[q]
      /\ pc'[r] = "handler" => at'[r] \in 1..Len(HandlerSteps(r))
      /\ at'[r] \in 1..5
  <2>1. CASE at[r] < Len(HandlerSteps(r))
    <3>1. at' = [at EXCEPT ![r] = at[r] + 1] /\ pc' = pc  BY <2>1 DEF Advance
    <3>2. at[r] + 1 \in 1..Len(HandlerSteps(r))  BY <2>1, <1>a, <1>b
    <3>3. at[r] + 1 \in 1..5  BY <3>2, <1>b
    <3> QED BY <1>0, <3>1, <3>2, <3>3 DEF TypeOK
  <2>2. CASE ~(at[r] < Len(HandlerSteps(r)))
    <3>1. pc' = [pc EXCEPT ![r] = "respond"] /\ at' = at  BY <2>2 DEF Advance, Goto
    <3> QED BY <1>0, <3>1 DEF TypeOK
  <2> QED BY <2>1, <2>2
<1>f. pc' \in [Requests -> Phases] /\ at' \in [Requests -> 1..5]
  <2>1. pc' = pc \/ pc' = [pc EXCEPT ![r] = "respond"]  BY DEF Advance, Goto
  <2>2. at' = at \/ at' = [at EXCEPT ![r] = at[r] + 1]  BY DEF Advance
  <2> QED BY <1>0, <1>e, <2>1, <2>2 DEF TypeOK, Phases
<1>1. TypeOK'
  <2>1. rowLock' \in [Accounts -> Requests \cup {Nobody}]  BY <1>0 DEF TypeOK
  <2> QED BY <1>0, <1>d, <1>f, <2>1 DEF TypeOK
<1>3. SessionPhase'
  <2> SUFFICES ASSUME NEW q \in Requests
               PROVE  /\ q \in connected <=> pc'[q] \in InSession
                      /\ pc'[q] \in InSession \cup {"connect"} => call[q].token \/ call[q].kind \in Open
                      /\ pc'[q] \in Working => call[q].user = "active" \/ call[q].kind = "register"
                      /\ pc'[q] = "handler" => at'[q] \in DOMAIN HandlerSteps(q)
                      /\ pc'[q] \notin Working \cup {"done"} => at'[q] = 1
    BY <1>d DEF SessionPhase, HandlerSteps
  <2>1. CASE q = r  BY <2>1, <1>a, <1>b, <1>e DEF InSession, Working
  <2>2. CASE q # r  BY <2>2, <1>e DEF IInv, SessionPhase
  <2> QED BY <2>1, <2>2
<1>4. LocksOfWorking'
  <2> SUFFICES ASSUME NEW a \in Accounts, rowLock'[a] # Nobody
               PROVE  pc'[rowLock'[a]] \in Working /\ call[rowLock'[a]].kind \notin Open
    BY <1>d DEF LocksOfWorking
  <2>1. \/ rowLock'[a] = r /\ call[r].kind \notin Open
        \/ rowLock'[a] = rowLock[a] /\ rowLock[a] \in Requests
    BY <1>0 DEF TypeOK
  <2>2. CASE rowLock'[a] = r /\ call[r].kind \notin Open  BY <2>2, <1>e DEF Working
  <2>3. CASE rowLock'[a] = rowLock[a] /\ rowLock[a] \in Requests
    <3>1. pc[rowLock[a]] \in Working /\ call[rowLock[a]].kind \notin Open
      BY <2>3 DEF IInv, LocksOfWorking
    <3> QED BY <2>3, <3>1, <1>e DEF Working
  <2> QED BY <2>1, <2>2, <2>3
<1>5. RowsOfWorking'
  <2> SUFFICES ASSUME NEW q \in written'  PROVE pc'[q] \in Working
    BY <1>d DEF RowsOfWorking
  <2>1. CASE q = r  BY <2>1, <1>e DEF Working
  <2>2. CASE q # r
    <3>1. q \in written /\ q \in Requests  BY <2>2, <1>0 DEF TypeOK
    <3> QED BY <3>1, <2>2, <1>e DEF IInv, RowsOfWorking
  <2> QED BY <2>1, <2>2
<1>6. ReportedFirst'  BY <1>d, <1>e DEF IInv, ReportedFirst, HasUser
<1> QED BY <1>1, <1>3, <1>4, <1>5, <1>6 DEF IInv

--------------------------------------------------------------------------------
(* The steps before the handler. *)

(* A request arrives without a session. *)
LEMMA ArrivePreserves ==
    ASSUME IInv, NEW r \in Requests, Arrive(r)
    PROVE  IInv'
<1>1. PICK x \in {"connect", "token"} : Goto(r, x) /\ (x = "connect" => call[r].kind \in Open)
  BY DEF Arrive
<1>2. r \notin connected /\ pc[r] = "idle"
  BY DEF Arrive, IInv, SessionPhase, InSession, Working
<1>3. connected' = connected \ {r} /\ x \notin InSession
  BY <1>2 DEF Arrive, InSession, Working
<1> QED BY <1>1, <1>2, <1>3, MovePreserves DEF Arrive, IInv, TypeOK, Phases, InSession, Working

(* Without a token a request goes no further. *)
LEMMA AuthenticatePreserves ==
    ASSUME IInv, NEW r \in Requests, Authenticate(r)
    PROVE  IInv'
<1>0. pc[r] = "token"  BY DEF Authenticate
<1>1. CASE ~call[r].token
  BY <1>0, <1>1, FailPreserves DEF Authenticate, Errors
<1>2. CASE call[r].token
  <2>1. r \notin connected  BY <1>0 DEF IInv, SessionPhase, InSession, Working
  <2>2. Goto(r, "connect") /\ connected' = connected \ {r}  BY <1>2, <2>1 DEF Authenticate
  <2> QED BY <1>0, <1>2, <2>2, MovePreserves
         DEF Authenticate, IInv, TypeOK, Phases, InSession, Working
<1> QED BY <1>1, <1>2

(* A session begins with its connection. *)
LEMMA ConnectPreserves ==
    ASSUME IInv, NEW r \in Requests, Connect(r)
    PROVE  IInv'
<1>1. pc[r] = "connect" /\ at[r] = 1 /\ (call[r].token \/ call[r].kind \in Open)
  BY DEF Connect, IInv, SessionPhase, Working
<1>2. PICK x \in {"user", "handler"} :
        Goto(r, x) /\ (x = "handler" => call[r].kind = "register")
  BY DEF Connect
<1>3. x = "handler" => at[r] \in DOMAIN HandlerSteps(r)
  BY <1>1, <1>2, StepsOf, CallsOf DEF HandlerSteps
<1> QED BY <1>1, <1>2, <1>3, MovePreserves DEF Connect, IInv, TypeOK, Phases, InSession, Working

(* Where a user is needed only an active one gets to the handler. *)
LEMMA LoadUserPreserves ==
    ASSUME IInv, NEW r \in Requests, LoadUser(r)
    PROVE  IInv'
<1>0. pc[r] = "user" /\ r \in connected /\ (call[r].token \/ call[r].kind \in Open)
  BY DEF LoadUser, IInv, SessionPhase, InSession
<1>1. CASE call[r].user \in {"none", "inactive"}
  BY <1>0, <1>1, FailPreserves DEF LoadUser, Errors
<1>2. CASE call[r].user \notin {"none", "inactive"}
  <2>1. call[r].user = "active" /\ call[r].kind \in Kinds
    BY <1>2, CallsOf DEF IsCall
  <2>2. PICK x \in {"respond", "handler"} :
          Goto(r, x) /\ (x = "handler" => HandlerSteps(r) # <<>>)
    BY <1>2 DEF LoadUser
  <2>3. UNCHANGED <<call, at, attempt, connected, rowLock, written, durable, reply>>
    BY <1>2 DEF LoadUser
  <2>4. x = "handler" => at[r] \in DOMAIN HandlerSteps(r)
    <3>1. CASE at[r] = 1
      BY <2>1, <2>2, <3>1, StepsOf DEF HandlerSteps, Kinds, Steps
    <3>2. at[r] = 1
      BY <1>0 DEF IInv, SessionPhase, Working
    <3> QED BY <3>1, <3>2
  <2>5. connected' = connected \cup {r} /\ x \in InSession
    BY <1>0, <2>2, <2>3 DEF InSession, Working
  <2> QED BY <1>0, <2>1, <2>2, <2>3, <2>4, <2>5, MovePreserves
         DEF IInv, TypeOK, Phases, InSession, Working
<1> QED BY <1>1, <1>2

--------------------------------------------------------------------------------
(* The steps of the handler, and after it. *)

(* A step that raises ends the session; one that does not goes to the next. *)
LEMMA HandlerPreserves ==
    ASSUME IInv, NEW r \in Requests,
           \/ \E step \in Reads : Read(r, step)
           \/ LockAccount(r) \/ Write(r) \/ GatewayAnswers(r)
    PROVE  IInv'
<1>0. pc[r] = "handler"  BY DEF Read, LockAccount, Write, GatewayAnswers, Here
<1>1. CASE \E e \in Errors : Fail(r, e)  BY <1>0, <1>1, FailPreserves
<1>2. CASE ~\E e \in Errors : Fail(r, e)
  <2>1. call[r].error \in Errors  BY CallsOf DEF IsCall
  <2>2. Advance(r) /\ UNCHANGED attempt
    BY <1>2, <2>1 DEF Read, LockAccount, Write, GatewayAnswers
  <2>3. \/ rowLock' = rowLock
        \/ Here(r, "lock") /\ \E a \in Accounts : rowLock' = [rowLock EXCEPT ![a] = r]
    BY <1>2, <2>1, CallsOf DEF Read, LockAccount, Write, GatewayAnswers, IsCall
  <2>5. Here(r, "lock") => call[r].kind \notin Open
    BY CallsOf, StepsOf DEF Here, HandlerSteps
  <2>4. written' = written \/ written' = written \cup {r}
    BY <1>2, <2>1 DEF Read, LockAccount, Write, GatewayAnswers
  <2> QED BY <1>0, <2>2, <2>3, <2>4, <2>5, AdvancePreserves DEF IInv, TypeOK
<1> QED BY <1>1, <1>2

(* A handler with nothing left to do goes to its reply. *)
LEMMA ReturnEarlyPreserves ==
    ASSUME IInv, NEW r \in Requests, ReturnEarly(r)
    PROVE  IInv'
<1>1. /\ pc[r] = "handler" /\ r \in connected
      /\ call[r].user = "active" \/ call[r].kind = "register"
      /\ call[r].token \/ call[r].kind \in Open
  BY DEF ReturnEarly, NothingLeft, Here, IInv, SessionPhase, InSession, Working
<1>2. connected' = connected \cup {r}  BY <1>1 DEF ReturnEarly
<1> QED BY <1>1, <1>2, MovePreserves DEF ReturnEarly, IInv, TypeOK, Phases, InSession, Working

(* The last attempt of a gateway call ends the session, or the summary goes on. *)
LEMMA GiveUpPreserves ==
    ASSUME IInv, NEW r \in Requests, pc[r] = "handler", GiveUp(r)
    PROVE  IInv'
<1>1. CASE call[r].kind = "portfolio"
  BY <1>1, AdvancePreserves DEF GiveUp, IInv, TypeOK
<1>2. CASE call[r].kind # "portfolio"
  BY <1>2, FailPreserves DEF GiveUp, Errors
<1> QED BY <1>1, <1>2

(* A retry changes only the number of attempts, within the policy's. *)
LEMMA GatewayPreserves ==
    ASSUME IInv, NEW r \in Requests, GatewayTimesOut(r) \/ GatewayFails(r)
    PROVE  IInv'
<1>0. TypeOK /\ pc[r] = "handler"  BY DEF IInv, GatewayTimesOut, GatewayFails, Here
<1>1. CASE GiveUp(r)  BY <1>0, <1>1, GiveUpPreserves
<1>2. CASE ~GiveUp(r)
  <2>1. /\ attempt[r] + 1 < MaxAttempts /\ attempt' = [attempt EXCEPT ![r] = attempt[r] + 1]
        /\ UNCHANGED <<pc, call, at, connected, rowLock, written, durable, reply>>
    BY <1>2 DEF GatewayTimesOut, GatewayFails
  <2>2. attempt' \in [Requests -> 0 .. MaxAttempts - 1]  BY <1>0, <2>1 DEF TypeOK
  <2>3. TypeOK'  BY <1>0, <2>1, <2>2 DEF TypeOK
  <2> QED BY <2>1, <2>3
         DEF IInv, SessionPhase, LocksOfWorking, RowsOfWorking, ReportedFirst, HandlerSteps,
             HasUser
<1> QED BY <1>1, <1>2

(* The reply is a success, or the error that closes the session. *)
LEMMA RespondPreserves ==
    ASSUME IInv, NEW r \in Requests, Respond(r)
    PROVE  IInv'
<1>0. TypeOK /\ pc[r] = "respond"  BY DEF IInv, Respond
<1>1. CASE Fail(r, "SerializationError")  BY <1>0, <1>1, FailPreserves DEF Errors
<1>2. CASE ~Fail(r, "SerializationError")
  <2>1. /\ Goto(r, "commit") /\ reply' = [reply EXCEPT ![r] = SuccessOf(call[r].kind)]
        /\ UNCHANGED <<call, at, attempt, connected, rowLock, written, durable>>
    BY <1>2 DEF Respond
  <2>2. SuccessOf(call[r].kind) \in Successes \cap Replies  BY CallsOf, StatusesOf
  <2>3. /\ reply' \in [Requests -> Replies] /\ reply'[r] \in Successes
        /\ \A q \in Requests \ {r} : reply'[q] = reply[q]
    BY <1>0, <2>1, <2>2 DEF TypeOK
  <2>4. /\ r \in connected
        /\ call[r].user = "active" \/ call[r].kind = "register"
        /\ call[r].token \/ call[r].kind \in Open
    BY <1>0 DEF IInv, SessionPhase, InSession, Working
  <2>5. connected' = connected \cup {r}  BY <2>1, <2>4
  <2> QED BY <1>0, <2>1, <2>3, <2>4, <2>5, MovePreserves DEF TypeOK, Phases, InSession, Working
<1> QED BY <1>1, <1>2

(* What a commit makes durable was reported before, and behind get_current_user *)
(* it is an active user's.                                                      *)
LEMMA CommitPreserves ==
    ASSUME IInv, NEW r \in Requests, Commit(r)
    PROVE  IInv'
<1>1. pc[r] = "commit" /\ Close(r) /\ reply' = reply  BY DEF Commit
<1>2. reply[r] \in Successes /\ (call[r].kind \notin Open => HasUser(r))
  BY <1>1 DEF IInv, SessionPhase, ReportedFirst, InSession, Working, HasUser, Open
<1>3. durable' = durable \/ durable' = durable \cup {r}
  BY DEF Commit
<1> QED BY <1>1, <1>2, <1>3, ClosePreserves DEF IInv, TypeOK

(* Every step of a request preserves the inductive invariant.                 *)
LEMMA NextPreserves == IInv /\ [Next]_vars => IInv'
<1> SUFFICES ASSUME IInv, [Next]_vars  PROVE IInv'
  OBVIOUS
<1>1. ASSUME NEW r \in Requests, Step(r)  PROVE IInv'
  BY <1>1, AuthenticatePreserves, ConnectPreserves, LoadUserPreserves, HandlerPreserves,
     GatewayPreserves, RespondPreserves, CommitPreserves DEF Step
<1>2. ASSUME NEW r \in Requests, PoolTimesOut(r)  PROVE IInv'
  BY <1>2, FailPreserves DEF PoolTimesOut, Errors
<1>3. ASSUME NEW r \in Requests, Abort(r)  PROVE IInv'
  BY <1>3, ClosePreserves DEF Abort, IInv, TypeOK
<1>4. ASSUME NEW r \in Requests, Event(r)  PROVE IInv'
  BY <1>2, <1>3, <1>4, ArrivePreserves, ReturnEarlyPreserves, HandlerPreserves, GatewayPreserves
     DEF Event
<1>5. CASE UNCHANGED vars
  BY <1>5 DEF vars, IInv, TypeOK, SessionPhase, LocksOfWorking, RowsOfWorking, ReportedFirst,
              HandlerSteps, HasUser
<1> QED BY <1>1, <1>4, <1>5 DEF Next, Terminating

--------------------------------------------------------------------------------
(* The invariant from which the properties of this module follow, for the      *)
(* modules that refine this one too: fairness is not needed.                   *)
THEOREM Inductive == Init /\ [][Next]_vars => []IInv
BY InitEstablishes, NextPreserves, PTL

(* What the inductive invariant implies. *)
LEMMA Implied ==
    IInv => TypeOK /\ DurableWasReported /\ LocksAreConnected /\ ProtectedNeedsUser
<1> SUFFICES ASSUME IInv
             PROVE  TypeOK /\ DurableWasReported /\ LocksAreConnected /\ ProtectedNeedsUser
  OBVIOUS
<1>1. TypeOK  BY DEF IInv
<1>2. DurableWasReported  BY <1>1 DEF IInv, TypeOK, ReportedFirst, DurableWasReported
<1>3. LocksAreConnected
  BY <1>1 DEF IInv, TypeOK, SessionPhase, LocksOfWorking, LocksAreConnected, InSession
<1>4. ProtectedNeedsUser
  <2>1. \A r \in connected : call[r].kind \notin Open => call[r].token
    BY DEF IInv, TypeOK, SessionPhase
  <2>2. \A r \in Requests : pc[r] \in Working /\ call[r].kind \notin Open => HasUser(r)
    BY DEF IInv, SessionPhase, InSession, HasUser, Open
  <2>3. \A r \in written \cup durable : call[r].kind \notin Open => HasUser(r)
    BY <2>2 DEF IInv, TypeOK, RowsOfWorking, ReportedFirst
  <2>4. \A a \in Accounts : rowLock[a] # Nobody => HasUser(rowLock[a])
    BY <2>2 DEF IInv, TypeOK, LocksOfWorking
  <2> QED BY <2>1, <2>3, <2>4 DEF ProtectedNeedsUser
<1> QED BY <1>1, <1>2, <1>3, <1>4

(* Every variable keeps its type; no more than MaxAttempts attempts.          *)
THEOREM TypeCorrect == Spec => []TypeOK
BY Implied, Inductive, PTL DEF Spec

(* Who is told of an error leaves no row behind, whatever failed.             *)
THEOREM DurableReported == Spec => []DurableWasReported
BY Implied, Inductive, PTL DEF Spec

(* A lock's holder has a connection, and a free connection holds no lock.     *)
THEOREM LocksConnected == Spec => []LocksAreConnected
BY Implied, Inductive, PTL DEF Spec

(* Behind get_current_user only tokens get connections and only active users  *)
(* rows; and only active users get row locks, whatever the endpoint.          *)
THEOREM ProtectedOnly == Spec => []ProtectedNeedsUser
BY Implied, Inductive, PTL DEF Spec
================================================================================
