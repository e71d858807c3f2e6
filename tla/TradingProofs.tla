---------------------------- MODULE TradingProofs ----------------------------
(***************************************************************************)
(* What execute_trade guarantees for any requests, keys, accounts, answers *)
(* of the exchange and number of attempts.                                 *)
(*                                                                         *)
(* The argument: between its INSERT and the end of its session an order    *)
(* owns the index entry of its key and the lock of its account row, and a  *)
(* submission leaves only in between.  So a durable order has no rival,    *)
(* and as every submission carries the key as client_order_id, the one     *)
(* order the exchange has for the key is the one the record speaks of.     *)
(***************************************************************************)
EXTENDS Trading, TLAPS

(* A row is written from the INSERT on, and durable only once its request    *)
(* has ended.                                                                *)
RowPhase ==
    \A r \in Requests :
        /\ pc[r] \in {"submit", "awaiting", "fills"} => Written(r)
        /\ Written(r) => pc[r] \in {"submit", "awaiting", "fills", "respond", "commit"}
        /\ Committed(r) => pc[r] = "done"

(* From step 4 to its end a request owns the row lock of its account. *)
LockHeld ==
    \A r \in Requests :
        /\ pc[r] = "lock" => call[r].account \in Accounts
        /\ pc[r] = "insert" \/ Written(r) =>
               call[r].account \in Accounts /\ rowLock[call[r].account] = r

(* The exchange files an order under the key of the request that sent it,    *)
(* and files one order under a key.                                          *)
PlacedOnce ==
    /\ \A p \in placed : p.client = Key(p.request)
    /\ \A p, q \in placed : p.client = q.client => p = q

(* What the exchange answered is still true of its order, which may only     *)
(* have been filled since.                                                   *)
StillTrue(old, new) ==
    /\ old.status = "REJECTED" <=> new.status = "REJECTED"
    /\ old.status \in {"PARTIALLY_FILLED", "FILLED"} => new.status \in {"PARTIALLY_FILLED", "FILLED"}

AnswerKnown ==
    \A r \in Requests :
        /\ pc[r] = "fills" => answer[r] # NoReport
        /\ answer[r] # NoReport =>
               \E p \in placed : SameKey(p.request, r) /\ StillTrue(answer[r], p.report)

(* The record agrees with the exchange already when the reply is built. *)
Agrees(r, p) ==
    /\ SameKey(p.request, r)
    /\ row[r].order = "FAILED" <=> p.report.status = "REJECTED"
    /\ row[r].txn = "FAILED" <=> p.report.status = "REJECTED"
    /\ row[r].txn = "PROCESSING" => p.report.status \in {"PARTIALLY_FILLED", "FILLED"}

RecordKnown ==
    \A r \in Requests :
        Committed(r) \/ (Written(r) /\ pc[r] \in {"respond", "commit"})
            => \E p \in placed : Agrees(r, p)

(* The retry policy is asked before another attempt is begun. *)
AttemptsLeft ==
    \A r \in Requests :
        pc[r] \in {"idle", "lookup", "lock", "insert", "submit"} => attempt[r] < MaxAttempts

IInv ==
    /\ TypeOK
    /\ AttemptsLeft
    /\ RowPhase
    /\ LockHeld
    /\ OneOrderPerKey
    /\ PlacedOnce
    /\ AnswerKnown
    /\ RecordKnown

USE CallsAssumption, ReportsAssumption, AccountsAssumption, RequestsAssumption,
    AttemptsAssumption

(* Before the first request the inductive invariant holds.                    *)
LEMMA InitEstablishes == Init => IInv
BY DEF Init, IInv, TypeOK, AttemptsLeft, RowPhase, LockHeld, OneOrderPerKey, PlacedOnce, AnswerKnown,
       RecordKnown, NoRow, RowType, Phases, Outcomes, Written, Committed

(* A rollback removes the request's rows and lock; nobody else can tell.      *)
LEMMA FailPreserves ==
    ASSUME IInv, NEW r \in Requests, NEW why \in Outcomes, Fail(r, why)
    PROVE  IInv'
<1> USE DEF Fail, Goto, ReleaseLock, NoRow, Written, Committed, SameKey, Key
<1>0. TypeOK  BY DEF IInv
<1>1. TypeOK'
  <2>1. row' \in [Requests -> RowType]  BY <1>0 DEF TypeOK, RowType
  <2>2. rowLock' \in [Accounts -> Requests \cup {Nobody}]  BY <1>0 DEF TypeOK
  <2>3. pc' \in [Requests -> Phases]  BY <1>0 DEF TypeOK, Phases
  <2>4. attempt' \in [Requests -> 0..MaxAttempts]  BY <1>0 DEF TypeOK
  <2>5. answer' \in [Requests -> ReportType \cup {NoReport}]  BY <1>0 DEF TypeOK
  <2>6. outcome' \in [Requests -> Outcomes]  BY <1>0 DEF TypeOK
  <2> QED BY <1>0, <2>1, <2>2, <2>3, <2>4, <2>5, <2>6 DEF TypeOK
<1>2. RowPhase'  BY <1>0 DEF IInv, TypeOK, RowPhase
<1>3. LockHeld'  BY <1>0 DEF IInv, TypeOK, LockHeld
<1>4. OneOrderPerKey'  BY <1>0 DEF IInv, TypeOK, OneOrderPerKey
<1>5. PlacedOnce'  BY DEF IInv, PlacedOnce
<1>6. AnswerKnown'  BY <1>0 DEF IInv, TypeOK, AnswerKnown
<1>7. RecordKnown'
  <2> SUFFICES ASSUME NEW t \in Requests,
                      (Committed(t) \/ (Written(t) /\ pc[t] \in {"respond", "commit"}))'
               PROVE  (\E p \in placed : Agrees(t, p))'
    BY DEF RecordKnown
  <2>1. t # r /\ row'[t] = row[t] /\ pc'[t] = pc[t]  BY <1>0 DEF TypeOK
  <2>2. \E p \in placed : Agrees(t, p)  BY <2>1 DEF IInv, RecordKnown
  <2> QED BY <2>1, <2>2 DEF Agrees
<1>8. AttemptsLeft'  BY <1>0 DEF IInv, TypeOK, AttemptsLeft
<1> QED BY <1>1, <1>2, <1>3, <1>4, <1>5, <1>6, <1>7, <1>8 DEF IInv

(* A request that moves on without touching rows, locks or the exchange. *)
LEMMA MovePreserves ==
    ASSUME IInv, NEW r \in Requests, NEW x \in Phases \ {"insert"},
           pc' = [pc EXCEPT ![r] = x],
           UNCHANGED <<call, row, rowLock, placed>>,
           pc[r] # "done",
           Written(r) => x \in {"submit", "awaiting", "fills", "respond", "commit"},
           Written(r) /\ x \in {"respond", "commit"} => pc[r] \in {"respond", "commit"},
           x \in {"submit", "awaiting", "fills"} => Written(r),
           x = "lock" => call[r].account \in Accounts
    PROVE  RowPhase' /\ LockHeld' /\ OneOrderPerKey' /\ PlacedOnce' /\ RecordKnown'
<1> USE DEF Written, Committed, SameKey, Key
<1>0. TypeOK  BY DEF IInv
<1>1. RowPhase'  BY <1>0 DEF IInv, TypeOK, RowPhase
<1>2. LockHeld'  BY <1>0 DEF IInv, TypeOK, LockHeld
<1>3. OneOrderPerKey'  BY DEF IInv, OneOrderPerKey
<1>4. PlacedOnce'  BY DEF IInv, PlacedOnce
<1>5. RecordKnown'
  <2> SUFFICES ASSUME NEW t \in Requests,
                      (Committed(t) \/ (Written(t) /\ pc[t] \in {"respond", "commit"}))'
               PROVE  (\E p \in placed : Agrees(t, p))'
    BY DEF RecordKnown
  <2>1. row'[t] = row[t] /\ (Written(t) /\ pc'[t] \in {"respond", "commit"}
                                => pc[t] \in {"respond", "commit"})
    BY <1>0 DEF TypeOK
  <2>2. \E p \in placed : Agrees(t, p)  BY <2>1 DEF IInv, RecordKnown
  <2> QED BY <2>1, <2>2 DEF Agrees
<1> QED BY <1>1, <1>2, <1>3, <1>4, <1>5

(* A request that arrives has no rows, lock or answer.                        *)
LEMMA ArrivePreserves ==
    ASSUME IInv, NEW r \in Requests, Arrive(r)
    PROVE  IInv'
<1> USE DEF Arrive, Goto, Written, Committed, SameKey, Key
<1>0. TypeOK  BY DEF IInv
<1>1. TypeOK'  BY <1>0 DEF TypeOK, Phases
<1>2. ~Written(r)  BY DEF IInv, RowPhase
<1>3. RowPhase' /\ LockHeld' /\ OneOrderPerKey' /\ PlacedOnce' /\ RecordKnown'
  BY <1>2, MovePreserves DEF Phases
<1>4. AnswerKnown'  BY <1>0 DEF IInv, TypeOK, AnswerKnown
<1>5. AttemptsLeft'  BY <1>0 DEF IInv, TypeOK, AttemptsLeft
<1> QED BY <1>1, <1>3, <1>4, <1>5 DEF IInv

(* The idempotency lookup and the validation touch no row.                    *)
LEMMA LookupPreserves ==
    ASSUME IInv, NEW r \in Requests, Lookup(r)
    PROVE  IInv'
<1>0. TypeOK /\ pc[r] = "lookup"  BY DEF IInv, Lookup
<1>1. ~Written(r)  BY <1>0 DEF IInv, RowPhase
<1>2. CASE \E why \in Outcomes : Fail(r, why)  BY <1>2, FailPreserves
<1>3. CASE ~\E why \in Outcomes : Fail(r, why)
  <2>1. PICK x \in {"respond", "lock"} :
          /\ pc' = [pc EXCEPT ![r] = x]
          /\ x = "lock" => call[r].account # NoAccount
    BY <1>3 DEF Lookup, Goto, Outcomes
  <2>2. /\ UNCHANGED <<call, row, rowLock, attempt, answer, wire, placed>>
        /\ outcome' = outcome \/ outcome' = [outcome EXCEPT ![r] = "replayed"]
    BY <1>3 DEF Lookup, Goto, Outcomes
  <2>3. call[r].account \in Accounts \cup {NoAccount}  BY <1>0 DEF TypeOK, CallType
  <2>4. RowPhase' /\ LockHeld' /\ OneOrderPerKey' /\ PlacedOnce' /\ RecordKnown'
    BY <1>0, <1>1, <2>1, <2>2, <2>3, MovePreserves DEF Phases
  <2>5. outcome' \in [Requests -> Outcomes]  BY <2>2, <1>0 DEF TypeOK, Outcomes
  <2>6. TypeOK'  BY <1>0, <2>1, <2>2, <2>5 DEF TypeOK, Phases
  <2>7. AnswerKnown'  BY <2>1, <2>2, <1>0 DEF IInv, TypeOK, AnswerKnown, SameKey, Key
  <2>8. AttemptsLeft'  BY <1>0, <2>1, <2>2 DEF IInv, TypeOK, AttemptsLeft
  <2> QED BY <2>4, <2>6, <2>7, <2>8 DEF IInv
<1> QED BY <1>2, <1>3

(* FOR UPDATE is granted only on a row nobody holds.                          *)
LEMMA LockAccountPreserves ==
    ASSUME IInv, NEW r \in Requests, LockAccount(r)
    PROVE  IInv'
<1>0. TypeOK /\ pc[r] = "lock"  BY DEF IInv, LockAccount
<1>1. CASE ~Covered(call[r])
  BY <1>1, FailPreserves DEF LockAccount, Outcomes
<1>2. CASE Covered(call[r])
  <2> USE DEF Written, Committed, SameKey, Key
  <2>a. /\ call[r].account \in Accounts /\ rowLock[call[r].account] = Nobody
        /\ rowLock' = [rowLock EXCEPT ![call[r].account] = r]
        /\ pc' = [pc EXCEPT ![r] = "insert"]
        /\ UNCHANGED <<call, row, attempt, answer, wire, placed, outcome>>
    BY <1>0, <1>2 DEF LockAccount, Goto, IInv, LockHeld
  <2>1. TypeOK'  BY <1>0, <2>a DEF TypeOK, Phases
  <2>2. RowPhase'  BY <1>0, <2>a DEF IInv, TypeOK, RowPhase
  <2>3. LockHeld'  BY <1>0, <2>a DEF IInv, TypeOK, LockHeld
  <2>4. OneOrderPerKey'  BY <2>a DEF IInv, OneOrderPerKey
  <2>5. PlacedOnce'  BY <2>a DEF IInv, PlacedOnce
  <2>6. AnswerKnown'  BY <1>0, <2>a DEF IInv, TypeOK, AnswerKnown
  <2>7. RecordKnown'
    <3>1. ASSUME NEW t \in Requests,
                 Committed(t)' \/ (Written(t)' /\ pc'[t] \in {"respond", "commit"})
          PROVE  (\E p \in placed : Agrees(t, p))'
      <4>1. Committed(t) \/ (Written(t) /\ pc[t] \in {"respond", "commit"})
        BY <3>1, <2>a, <1>0 DEF TypeOK
      <4>2. \E p \in placed : Agrees(t, p)  BY <4>1 DEF IInv, RecordKnown
      <4> QED BY <4>2, <2>a DEF Agrees
    <3> QED BY <3>1 DEF RecordKnown
  <2>8. AttemptsLeft'  BY <1>0, <2>a DEF IInv, TypeOK, AttemptsLeft
  <2> QED BY <2>1, <2>2, <2>3, <2>4, <2>5, <2>6, <2>7, <2>8 DEF IInv
<1> QED BY <1>1, <1>2

(* The INSERT succeeds only when no other request has a row for the key. *)
LEMMA InsertOrderPreserves ==
    ASSUME IInv, NEW r \in Requests, InsertOrder(r)
    PROVE  IInv'
<1>0. TypeOK /\ pc[r] = "insert"  BY DEF IInv, InsertOrder
<1>1. CASE KeyTaken(r) \/ ~call[r].listed
  BY <1>1, FailPreserves DEF InsertOrder, Outcomes
<1>2. CASE ~(KeyTaken(r) \/ ~call[r].listed)
  <2> USE DEF Written, Committed, SameKey, Key
  <2>a. /\ row' = [row EXCEPT ![r] = NewRow]
        /\ pc' = [pc EXCEPT ![r] = "submit"]
        /\ UNCHANGED <<call, rowLock, attempt, answer, wire, placed, outcome>>
    BY <1>2 DEF InsertOrder, Goto
  <2>b. \A q \in Requests \ {r} : call[q].key = call[r].key => row[q].db = "none"
    BY <1>0, <1>2 DEF InsertOrder, KeyInFlight, KeyTaken, TypeOK, RowType
  <2>1. TypeOK'
    <3>1. row' \in [Requests -> RowType]  BY <1>0, <2>a DEF TypeOK, RowType, NewRow
    <3>2. pc' \in [Requests -> Phases]  BY <1>0, <2>a DEF TypeOK, Phases
    <3> QED BY <1>0, <2>a, <3>1, <3>2 DEF TypeOK
  <2>2. RowPhase'  BY <1>0, <2>a DEF IInv, TypeOK, RowPhase, NewRow
  <2>3. LockHeld'  BY <1>0, <2>a DEF IInv, TypeOK, LockHeld, NewRow
  <2>4. OneOrderPerKey'  BY <1>0, <2>a, <2>b DEF IInv, TypeOK, OneOrderPerKey
  <2>5. PlacedOnce'  BY <2>a DEF IInv, PlacedOnce
  <2>6. AnswerKnown'  BY <1>0, <2>a DEF IInv, TypeOK, AnswerKnown
  <2>7. RecordKnown'
    <3>1. ASSUME NEW t \in Requests,
                 Committed(t)' \/ (Written(t)' /\ pc'[t] \in {"respond", "commit"})
          PROVE  (\E p \in placed : Agrees(t, p))'
      <4>1. t # r /\ row'[t] = row[t] /\ pc'[t] = pc[t]
        BY <3>1, <2>a, <1>0 DEF TypeOK, NewRow
      <4>2. \E p \in placed : Agrees(t, p)  BY <3>1, <4>1 DEF IInv, RecordKnown
      <4> QED BY <4>1, <4>2, <2>a DEF Agrees
    <3> QED BY <3>1 DEF RecordKnown
  <2>8. AttemptsLeft'  BY <1>0, <2>a DEF IInv, TypeOK, AttemptsLeft
  <2> QED BY <2>1, <2>2, <2>3, <2>4, <2>5, <2>6, <2>7, <2>8 DEF IInv
<1> QED BY <1>1, <1>2

--------------------------------------------------------------------------------

(* A submission puts one message on the wire, within the attempts allowed.    *)
LEMMA SubmitPreserves ==
    ASSUME IInv, NEW r \in Requests, Submit(r)
    PROVE  IInv'
<1> USE DEF Written, Committed, SameKey, Key
<1>0. TypeOK /\ pc[r] = "submit" /\ attempt[r] \in 0..MaxAttempts /\ attempt[r] < MaxAttempts
  BY DEF IInv, Submit, AttemptsLeft, TypeOK
<1>a. /\ attempt' = [attempt EXCEPT ![r] = attempt[r] + 1]
      /\ wire' = wire \cup {[request |-> r, attempt |-> attempt[r] + 1]}
      /\ pc' = [pc EXCEPT ![r] = "awaiting"]
      /\ UNCHANGED <<call, row, rowLock, answer, placed, outcome>>
  BY DEF Submit, Goto
<1>b. attempt[r] + 1 \in 1..MaxAttempts  BY <1>0, AttemptsAssumption
<1>1. TypeOK'
  <2>1. attempt' \in [Requests -> 0..MaxAttempts]  BY <1>0, <1>a, <1>b DEF TypeOK
  <2>2. wire' \subseteq [request : Requests, attempt : 1..MaxAttempts]
    BY <1>0, <1>a, <1>b DEF TypeOK
  <2>3. pc' \in [Requests -> Phases]  BY <1>0, <1>a DEF TypeOK, Phases
  <2> QED BY <1>0, <1>a, <2>1, <2>2, <2>3 DEF TypeOK
<1>2. AttemptsLeft'
  <2> SUFFICES ASSUME NEW t \in Requests,
                      pc'[t] \in {"idle", "lookup", "lock", "insert", "submit"}
               PROVE  attempt'[t] < MaxAttempts
    BY DEF AttemptsLeft
  <2>1. t # r /\ pc'[t] = pc[t] /\ attempt'[t] = attempt[t]  BY <1>0, <1>a DEF TypeOK
  <2> QED BY <2>1 DEF IInv, AttemptsLeft
<1>3. Written(r)  BY <1>0 DEF IInv, RowPhase
<1>4. RowPhase' /\ LockHeld' /\ OneOrderPerKey' /\ PlacedOnce' /\ RecordKnown'
  BY <1>0, <1>a, <1>3, MovePreserves DEF Phases
<1>5. AnswerKnown'  BY <1>0, <1>a DEF IInv, TypeOK, AnswerKnown
<1> QED BY <1>1, <1>2, <1>4, <1>5 DEF IInv

(* A retry forgets the answer to the attempt before it.                       *)
LEMMA RetryOrGiveUpPreserves ==
    ASSUME IInv, NEW r \in Requests, RetryOrGiveUp(r)
    PROVE  IInv'
<1>0. TypeOK /\ pc[r] = "awaiting"  BY DEF IInv, RetryOrGiveUp
<1>1. CASE ~(attempt[r] < MaxAttempts)
  BY <1>1, FailPreserves DEF RetryOrGiveUp, Outcomes
<1>2. CASE attempt[r] < MaxAttempts
  <2> USE DEF Written, Committed, SameKey, Key
  <2>a. /\ pc' = [pc EXCEPT ![r] = "submit"]
        /\ answer' = [answer EXCEPT ![r] = NoReport]
        /\ UNCHANGED <<call, row, rowLock, attempt, wire, placed, outcome>>
    BY <1>2 DEF RetryOrGiveUp, Goto
  <2>1. TypeOK'  BY <1>0, <2>a DEF TypeOK, Phases
  <2>2. AttemptsLeft'  BY <1>0, <1>2, <2>a DEF IInv, TypeOK, AttemptsLeft
  <2>3. Written(r)  BY <1>0 DEF IInv, RowPhase
  <2>4. RowPhase' /\ LockHeld' /\ OneOrderPerKey' /\ PlacedOnce' /\ RecordKnown'
    BY <1>0, <2>a, <2>3, MovePreserves DEF Phases
  <2>5. AnswerKnown'  BY <1>0, <2>a DEF IInv, TypeOK, AnswerKnown
  <2> QED BY <2>1, <2>2, <2>4, <2>5 DEF IInv
<1> QED BY <1>1, <1>2

(* An answer taken is one the exchange's order testifies.                     *)
LEMMA GatewayAnswersPreserves ==
    ASSUME IInv, NEW r \in Requests, GatewayAnswers(r)
    PROVE  IInv'
<1> USE DEF Written, Committed, SameKey, Key
<1>0. TypeOK  BY DEF IInv
<1>a. /\ pc[r] = "awaiting" /\ answer[r] # NoReport
      /\ pc' = [pc EXCEPT ![r] = "fills"]
      /\ UNCHANGED <<call, row, rowLock, attempt, answer, wire, placed, outcome>>
  BY DEF GatewayAnswers, Goto
<1>1. TypeOK'  BY <1>0, <1>a DEF TypeOK, Phases
<1>2. AttemptsLeft'  BY <1>0, <1>a DEF IInv, TypeOK, AttemptsLeft
<1>3. Written(r)  BY <1>a DEF IInv, RowPhase
<1>4. RowPhase' /\ LockHeld' /\ OneOrderPerKey' /\ PlacedOnce' /\ RecordKnown'
  BY <1>a, <1>3, MovePreserves DEF Phases
<1>5. AnswerKnown'  BY <1>0, <1>a DEF IInv, TypeOK, AnswerKnown
<1> QED BY <1>1, <1>2, <1>4, <1>5 DEF IInv

(* The row takes the status the answer calls for, and the answer is still    *)
(* true of the exchange's order.                                             *)
LEMMA FinalisePreserves ==
    ASSUME IInv, NEW r \in Requests, Finalise(r)
    PROVE  IInv'
<1> USE DEF Written, Committed, SameKey, Key
<1>0. TypeOK /\ pc[r] = "fills" /\ Written(r)  BY DEF IInv, Finalise, RowPhase
<1>a. /\ row' = [row EXCEPT ![r] = FinalRow(answer[r])]
      /\ pc' = [pc EXCEPT ![r] = "respond"]
      /\ outcome' = [outcome EXCEPT ![r] = "created"]
      /\ UNCHANGED <<call, rowLock, attempt, answer, wire, placed>>
  BY DEF Finalise, Goto
<1>b. PICK p \in placed : SameKey(p.request, r) /\ StillTrue(answer[r], p.report)
  BY <1>0 DEF IInv, AnswerKnown
<1>c. FinalRow(answer[r]) \in RowType /\ FinalRow(answer[r]).db = "written"
  BY DEF FinalRow, NewRow, RowType
<1>1. TypeOK'
  <2>1. row' \in [Requests -> RowType]  BY <1>0, <1>a, <1>c DEF TypeOK
  <2>2. pc' \in [Requests -> Phases]  BY <1>0, <1>a DEF TypeOK, Phases
  <2>3. outcome' \in [Requests -> Outcomes]  BY <1>0, <1>a DEF TypeOK, Outcomes
  <2> QED BY <1>0, <1>a, <2>1, <2>2, <2>3 DEF TypeOK
<1>2. AttemptsLeft'  BY <1>0, <1>a DEF IInv, TypeOK, AttemptsLeft
<1>3. RowPhase'  BY <1>0, <1>a, <1>c DEF IInv, TypeOK, RowPhase
<1>4. LockHeld'  BY <1>0, <1>a, <1>c DEF IInv, TypeOK, LockHeld
<1>5. OneOrderPerKey'  BY <1>0, <1>a, <1>c DEF IInv, TypeOK, OneOrderPerKey
<1>6. PlacedOnce'  BY <1>a DEF IInv, PlacedOnce
<1>7. AnswerKnown'  BY <1>0, <1>a DEF IInv, TypeOK, AnswerKnown
<1>8. RecordKnown'
  <2>1. Agrees(r, p)'
    <3>1. row'[r] = FinalRow(answer[r])  BY <1>0, <1>a DEF TypeOK
    <3>2. answer[r] \in ReportType /\ p.report \in ReportType
      BY <1>0, <1>b DEF IInv, AnswerKnown, TypeOK
    <3>3. answer[r].status \in {"OPEN", "PARTIALLY_FILLED", "FILLED", "REJECTED"}
      BY <3>2 DEF ReportType
    <3>4. /\ FinalRow(answer[r]).order = "FAILED" <=> answer[r].status = "REJECTED"
          /\ FinalRow(answer[r]).txn = "FAILED" <=> answer[r].status = "REJECTED"
          /\ FinalRow(answer[r]).txn = "PROCESSING"
                => answer[r].status \in {"PARTIALLY_FILLED", "FILLED"}
      <4>1. CASE answer[r].status = "REJECTED"  BY <4>1 DEF FinalRow, NewRow
      <4>2. CASE answer[r].status \in {"PARTIALLY_FILLED", "FILLED"}
        BY <4>2 DEF FinalRow, NewRow
      <4>3. CASE answer[r].status = "OPEN"  BY <4>3 DEF FinalRow, NewRow
      <4> QED BY <3>3, <4>1, <4>2, <4>3
    <3> QED BY <1>a, <1>b, <3>1, <3>4 DEF Agrees, StillTrue
  <2>2. ASSUME NEW t \in Requests,
               Committed(t)' \/ (Written(t)' /\ pc'[t] \in {"respond", "commit"})
        PROVE  (\E q \in placed : Agrees(t, q))'
    <3>1. CASE t = r  BY <3>1, <2>1, <1>a, <1>b
    <3>2. CASE t # r
      <4>1. row'[t] = row[t] /\ pc'[t] = pc[t]  BY <3>2, <1>0, <1>a DEF TypeOK
      <4>2. \E q \in placed : Agrees(t, q)  BY <2>2, <4>1 DEF IInv, RecordKnown
      <4> QED BY <4>1, <4>2, <1>a DEF Agrees
    <3> QED BY <3>1, <3>2
  <2> QED BY <2>2 DEF RecordKnown
<1> QED BY <1>1, <1>2, <1>3, <1>4, <1>5, <1>6, <1>7, <1>8 DEF IInv

(* Building the reply changes no row, or rolls back.                          *)
LEMMA RespondPreserves ==
    ASSUME IInv, NEW r \in Requests, Respond(r)
    PROVE  IInv'
<1>0. TypeOK /\ pc[r] = "respond"  BY DEF IInv, Respond
<1>1. CASE Fail(r, "SerializationError")
  BY <1>1, FailPreserves DEF Outcomes
<1>2. CASE ~Fail(r, "SerializationError")
  <2> USE DEF Written, Committed, SameKey, Key
  <2>a. /\ pc' = [pc EXCEPT ![r] = "commit"]
        /\ UNCHANGED <<call, row, rowLock, attempt, answer, wire, placed, outcome>>
    BY <1>2 DEF Respond, Goto
  <2>1. TypeOK'  BY <1>0, <2>a DEF TypeOK, Phases
  <2>2. AttemptsLeft'  BY <1>0, <2>a DEF IInv, TypeOK, AttemptsLeft
  <2>3. RowPhase' /\ LockHeld' /\ OneOrderPerKey' /\ PlacedOnce' /\ RecordKnown'
    BY <1>0, <2>a, MovePreserves DEF Phases
  <2>4. AnswerKnown'  BY <1>0, <2>a DEF IInv, TypeOK, AnswerKnown
  <2> QED BY <2>1, <2>2, <2>3, <2>4 DEF IInv
<1> QED BY <1>1, <1>2

(* The commit makes the request's row durable with the status it has.         *)
LEMMA CommitPreserves ==
    ASSUME IInv, NEW r \in Requests, Commit(r)
    PROVE  IInv'
<1> USE DEF Written, Committed, SameKey, Key
<1>0. TypeOK /\ pc[r] = "commit" /\ row[r] \in RowType /\ ~Committed(r)
  BY DEF IInv, Commit, TypeOK, RowPhase
<1>a. /\ pc' = [pc EXCEPT ![r] = "done"]
      /\ row' = [row EXCEPT ![r] =
                    [row[r] EXCEPT !.db = IF row[r].db = "written" THEN "committed" ELSE row[r].db]]
      /\ rowLock' = [a \in Accounts |-> IF rowLock[a] = r THEN Nobody ELSE rowLock[a]]
      /\ attempt' = [attempt EXCEPT ![r] = 0]
      /\ answer' = [answer EXCEPT ![r] = NoReport]
      /\ UNCHANGED <<call, wire, placed, outcome>>
  BY <1>0 DEF Commit, Goto, ReleaseLock, TypeOK
<1>b. /\ row'[r] \in RowType
      /\ row'[r].db \in {"none", "committed"}
      /\ row'[r].db = "none" <=> row[r].db = "none"
      /\ row'[r].order = row[r].order /\ row'[r].txn = row[r].txn
  BY <1>0, <1>a DEF TypeOK, RowType
<1>c. \A t \in Requests \ {r} : row'[t] = row[t] /\ pc'[t] = pc[t]
  BY <1>0, <1>a DEF TypeOK
<1>1. TypeOK'
  <2>1. row' \in [Requests -> RowType]  BY <1>0, <1>a, <1>b, <1>c DEF TypeOK
  <2>2. rowLock' \in [Accounts -> Requests \cup {Nobody}]  BY <1>0, <1>a DEF TypeOK
  <2>3. pc' \in [Requests -> Phases]  BY <1>0, <1>a DEF TypeOK, Phases
  <2>4. attempt' \in [Requests -> 0..MaxAttempts]  BY <1>0, <1>a DEF TypeOK
  <2>5. answer' \in [Requests -> ReportType \cup {NoReport}]  BY <1>0, <1>a DEF TypeOK
  <2> QED BY <1>0, <1>a, <2>1, <2>2, <2>3, <2>4, <2>5 DEF TypeOK
<1>2. AttemptsLeft'  BY <1>0, <1>a DEF IInv, TypeOK, AttemptsLeft
<1>3. RowPhase'
  <2>1. pc'[r] = "done"  BY <1>0, <1>a DEF TypeOK
  <2> QED BY <2>1, <1>b, <1>c DEF IInv, RowPhase
<1>4. LockHeld'
  <2>1. pc'[r] = "done"  BY <1>0, <1>a DEF TypeOK
  <2>2. ASSUME NEW t \in Requests \ {r}, NEW a \in Accounts, rowLock[a] = t
        PROVE  rowLock'[a] = t
    BY <2>2, <1>0, <1>a DEF TypeOK
  <2> QED BY <2>1, <2>2, <1>a, <1>b, <1>c DEF IInv, LockHeld
<1>5. OneOrderPerKey'  BY <1>a, <1>b, <1>c DEF IInv, OneOrderPerKey
<1>6. PlacedOnce'  BY <1>a DEF IInv, PlacedOnce
<1>7. AnswerKnown'  BY <1>0, <1>a DEF IInv, TypeOK, AnswerKnown
<1>8. RecordKnown'
  <2>1. ASSUME NEW t \in Requests,
               Committed(t)' \/ (Written(t)' /\ pc'[t] \in {"respond", "commit"})
        PROVE  (\E q \in placed : Agrees(t, q))'
    <3>1. Committed(t) \/ (Written(t) /\ pc[t] \in {"respond", "commit"})
      BY <2>1, <1>0, <1>b, <1>c DEF RowType
    <3>2. PICK q \in placed : Agrees(t, q)  BY <3>1 DEF IInv, RecordKnown
    <3>3. row'[t].order = row[t].order /\ row'[t].txn = row[t].txn  BY <1>b, <1>c
    <3> QED BY <3>2, <3>3, <1>a DEF Agrees
  <2> QED BY <2>1 DEF RecordKnown
<1> QED BY <1>1, <1>2, <1>3, <1>4, <1>5, <1>6, <1>7, <1>8 DEF IInv

--------------------------------------------------------------------------------
(* The exchange. *)

(* A new order of the exchange: rows, locks and requests are as before, and   *)
(* whatever an order testified it still testifies.                            *)
LEMMA ExchangePlacesPreserves ==
    ASSUME IInv, NEW m \in wire, ExchangePlaces(m)
    PROVE  IInv'
<1> USE DEF Written, Committed, SameKey, Key
<1>0. TypeOK /\ m \in [request : Requests, attempt : 1..MaxAttempts]
  BY DEF IInv, TypeOK
<1>1. PICK report \in Reports :
        /\ placed' = placed \cup {[client  |-> ClientOrderId(m.request),
                                   request |-> m.request, report  |-> report]}
        /\ Answer(m, report)
  BY DEF ExchangePlaces
<1>n. PICK new : new = [client |-> Key(m.request), request |-> m.request, report |-> report]
  OBVIOUS
<1>a. /\ placed' = placed \cup {new}
      /\ wire' = wire \ {m}
      /\ UNCHANGED <<pc, call, row, rowLock, attempt, outcome>>
      /\ \A p \in placed : p.client # Key(m.request)
  BY <1>1, <1>n DEF ExchangePlaces, ClientOrderId
<1>b. /\ new.client = Key(m.request) /\ new.request = m.request /\ new.report = report
      /\ report \in ReportType /\ m.request \in Requests
      /\ new \in [client : Keys, request : Requests, report : ReportType]
  BY <1>0, <1>n DEF TypeOK, CallType
<1>c. answer' = answer \/ answer' = [answer EXCEPT ![m.request] = report]
  BY <1>1 DEF Answer
<1>d. answer' # answer => pc[m.request] = "awaiting"
  BY <1>1 DEF Answer
<1>2. TypeOK'
  <2>1. answer' \in [Requests -> ReportType \cup {NoReport}]
    BY <1>0, <1>b, <1>c DEF TypeOK
  <2>2. placed' \subseteq [client : Keys, request : Requests, report : ReportType]
    BY <1>0, <1>a, <1>b DEF TypeOK
  <2> QED BY <1>0, <1>a, <2>1, <2>2 DEF TypeOK
<1>3. AttemptsLeft' /\ RowPhase' /\ LockHeld' /\ OneOrderPerKey'
  BY <1>a DEF IInv, AttemptsLeft, RowPhase, LockHeld, OneOrderPerKey
<1>4. PlacedOnce'
  <2>1. (\A p \in placed : p.client = Key(p.request))'  BY <1>a, <1>b DEF IInv, PlacedOnce
  <2>2. (\A p, q \in placed : p.client = q.client => p = q)'
    BY <1>a, <1>b DEF IInv, PlacedOnce
  <2> QED BY <2>1, <2>2 DEF PlacedOnce
<1>5. AnswerKnown'
  <2> SUFFICES ASSUME NEW t \in Requests
               PROVE  /\ pc'[t] = "fills" => answer'[t] # NoReport
                      /\ answer'[t] # NoReport =>
                             \E p \in placed' : SameKey(p.request, t)' /\ StillTrue(answer'[t], p.report)
    BY DEF AnswerKnown
  <2>1. CASE answer'[t] = answer[t]
    BY <2>1, <1>a DEF IInv, AnswerKnown
  <2>2. CASE answer'[t] # answer[t]
    <3>1. t = m.request /\ answer'[t] = report /\ pc[t] = "awaiting"
      BY <2>2, <1>0, <1>b, <1>c, <1>d DEF TypeOK
    <3>2. StillTrue(report, new.report)  BY <1>b DEF StillTrue
    <3>3. pc'[t] = "awaiting"  BY <3>1, <1>a
    <3>4. new \in placed' /\ SameKey(new.request, t)'  BY <1>a, <1>b, <3>1
    <3> QED BY <3>1, <3>2, <3>3, <3>4
  <2> QED BY <2>1, <2>2
<1>6. RecordKnown'
  <2>1. ASSUME NEW t \in Requests, NEW p \in placed, Agrees(t, p)
        PROVE  p \in placed' /\ Agrees(t, p)'
    BY <2>1, <1>a DEF Agrees
  <2> QED BY <2>1, <1>a DEF IInv, RecordKnown
<1> QED BY <1>2, <1>3, <1>4, <1>5, <1>6 DEF IInv

(* A repeated submission is answered with the order placed for its key.       *)
LEMMA ExchangeDeduplicatesPreserves ==
    ASSUME IInv, NEW m \in wire, ExchangeDeduplicates(m)
    PROVE  IInv'
<1> USE DEF Written, Committed, SameKey, Key
<1>0. TypeOK /\ m \in [request : Requests, attempt : 1..MaxAttempts]
  BY DEF IInv, TypeOK
<1>1. PICK p \in placed : p.client = ClientOrderId(m.request) /\ Answer(m, p.report)
  BY DEF ExchangeDeduplicates
<1>a. /\ wire' = wire \ {m}
      /\ UNCHANGED <<pc, call, row, rowLock, attempt, placed, outcome>>
  BY DEF ExchangeDeduplicates
<1>b. m.request \in Requests /\ p.report \in ReportType /\ SameKey(p.request, m.request)
  BY <1>0, <1>1 DEF IInv, PlacedOnce, TypeOK, ClientOrderId
<1>c. answer' = answer \/ answer' = [answer EXCEPT ![m.request] = p.report]
  BY <1>1 DEF Answer
<1>d. answer' # answer => pc[m.request] = "awaiting"
  BY <1>1 DEF Answer
<1>2. TypeOK'
  <2>1. answer' \in [Requests -> ReportType \cup {NoReport}]
    BY <1>0, <1>b, <1>c DEF TypeOK
  <2> QED BY <1>0, <1>a, <2>1 DEF TypeOK
<1>3. AttemptsLeft' /\ RowPhase' /\ LockHeld' /\ OneOrderPerKey' /\ PlacedOnce'
  BY <1>a DEF IInv, AttemptsLeft, RowPhase, LockHeld, OneOrderPerKey, PlacedOnce
<1>4. AnswerKnown'
  <2> SUFFICES ASSUME NEW t \in Requests
               PROVE  /\ pc'[t] = "fills" => answer'[t] # NoReport
                      /\ answer'[t] # NoReport =>
                             \E q \in placed' : SameKey(q.request, t)' /\ StillTrue(answer'[t], q.report)
    BY DEF AnswerKnown
  <2>1. CASE answer'[t] = answer[t]
    BY <2>1, <1>a DEF IInv, AnswerKnown
  <2>2. CASE answer'[t] # answer[t]
    <3>1. t = m.request /\ answer'[t] = p.report /\ pc[t] = "awaiting"
      BY <2>2, <1>0, <1>b, <1>c, <1>d DEF TypeOK
    <3>2. StillTrue(p.report, p.report)  BY DEF StillTrue
    <3>3. pc'[t] = "awaiting" /\ p \in placed' /\ SameKey(p.request, t)'
      BY <3>1, <1>a, <1>b
    <3> QED BY <3>1, <3>2, <3>3
  <2> QED BY <2>1, <2>2
<1>5. RecordKnown'
  <2>1. ASSUME NEW t \in Requests, NEW q \in placed, Agrees(t, q)
        PROVE  Agrees(t, q)'
    BY <2>1, <1>a DEF Agrees
  <2> QED BY <2>1, <1>a DEF IInv, RecordKnown
<1> QED BY <1>2, <1>3, <1>4, <1>5 DEF IInv

(* A fill the program is not told of leaves what it was told true. *)
LEMMA ExchangeFillsPreserves ==
    ASSUME IInv, NEW p \in placed, ExchangeFills(p)
    PROVE  IInv'
<1> USE DEF Written, Committed, SameKey, Key
<1>0. TypeOK /\ p \in [client : Keys, request : Requests, report : ReportType]
  BY DEF IInv, TypeOK
<1>1. PICK report \in Reports :
        /\ report.status \in {"PARTIALLY_FILLED", "FILLED"}
        /\ placed' = (placed \ {p}) \cup {[p EXCEPT !.report = report]}
  BY DEF ExchangeFills
<1> DEFINE new == [p EXCEPT !.report = report]
<1>a. /\ placed' = (placed \ {p}) \cup {new}
      /\ p.report.status \in {"OPEN", "PARTIALLY_FILLED"}
      /\ UNCHANGED <<pc, call, row, rowLock, attempt, answer, wire, outcome>>
  BY <1>1 DEF ExchangeFills
<1>b. /\ new.client = p.client /\ new.request = p.request /\ new.report = report
      /\ new \in [client : Keys, request : Requests, report : ReportType]
  BY <1>0
<1> HIDE DEF new
<1>c. new.report.status \in {"PARTIALLY_FILLED", "FILLED"}  BY <1>1, <1>b
<1>2. TypeOK'
  <2>1. placed' \subseteq [client : Keys, request : Requests, report : ReportType]
    BY <1>0, <1>a, <1>b DEF TypeOK
  <2> QED BY <1>0, <1>a, <2>1 DEF TypeOK
<1>3. AttemptsLeft' /\ RowPhase' /\ LockHeld' /\ OneOrderPerKey'
  BY <1>a DEF IInv, AttemptsLeft, RowPhase, LockHeld, OneOrderPerKey
<1>4. PlacedOnce'
  <2>1. (\A q \in placed : q.client = Key(q.request))'  BY <1>a, <1>b DEF IInv, PlacedOnce
  <2>2. (\A q, s \in placed : q.client = s.client => q = s)'
    BY <1>a, <1>b DEF IInv, PlacedOnce
  <2> QED BY <2>1, <2>2 DEF PlacedOnce
<1>5. AnswerKnown'
  <2>1. ASSUME NEW t \in Requests, NEW q \in placed, SameKey(q.request, t),
               StillTrue(answer[t], q.report)
        PROVE  \E s \in placed' : SameKey(s.request, t)' /\ StillTrue(answer'[t], s.report)
    <3>1. CASE q = p
      <4>1. StillTrue(answer[t], new.report)  BY <2>1, <3>1, <1>a, <1>c DEF StillTrue
      <4> QED BY <2>1, <3>1, <4>1, <1>a, <1>b
    <3>2. CASE q # p  BY <2>1, <3>2, <1>a
    <3> QED BY <3>1, <3>2
  <2> QED BY <2>1, <1>a DEF IInv, AnswerKnown
<1>6. RecordKnown'
  <2>1. ASSUME NEW t \in Requests, NEW q \in placed, Agrees(t, q)
        PROVE  \E s \in placed' : Agrees(t, s)'
    <3>1. CASE q = p
      <4>1. Agrees(t, new)'  BY <2>1, <3>1, <1>a, <1>b, <1>c DEF Agrees
      <4> QED BY <4>1, <1>a
    <3>2. CASE q # p  BY <2>1, <3>2, <1>a DEF Agrees
    <3> QED BY <3>1, <3>2
  <2> QED BY <2>1, <1>a DEF IInv, RecordKnown
<1> QED BY <1>2, <1>3, <1>4, <1>5, <1>6 DEF IInv

--------------------------------------------------------------------------------

(* Every step of a request or the exchange preserves the inductive invariant. *)
LEMMA NextPreserves == IInv /\ [Next]_vars => IInv'
<1> SUFFICES ASSUME IInv, [Next]_vars  PROVE IInv'
  OBVIOUS
<1>1. CASE UNCHANGED vars
  BY <1>1 DEF vars, IInv, TypeOK, AttemptsLeft, RowPhase, LockHeld, OneOrderPerKey, PlacedOnce,
              AnswerKnown, RecordKnown, Agrees, Written, Committed, SameKey, Key
<1>2. ASSUME NEW r \in Requests, Arrive(r)  PROVE IInv'
  BY <1>2, ArrivePreserves
<1>3. ASSUME NEW r \in Requests, Lookup(r)  PROVE IInv'
  BY <1>3, LookupPreserves
<1>4. ASSUME NEW r \in Requests, LockAccount(r)  PROVE IInv'
  BY <1>4, LockAccountPreserves
<1>5. ASSUME NEW r \in Requests, InsertOrder(r)  PROVE IInv'
  BY <1>5, InsertOrderPreserves
<1>6. ASSUME NEW r \in Requests, Submit(r)  PROVE IInv'
  BY <1>6, SubmitPreserves
<1>7. ASSUME NEW r \in Requests, RetryOrGiveUp(r)  PROVE IInv'
  BY <1>7, RetryOrGiveUpPreserves
<1>8. ASSUME NEW r \in Requests, GatewayAnswers(r)  PROVE IInv'
  BY <1>8, GatewayAnswersPreserves
<1>9. ASSUME NEW r \in Requests, Finalise(r)  PROVE IInv'
  BY <1>9, FinalisePreserves
<1>10. ASSUME NEW r \in Requests, Respond(r)  PROVE IInv'
  BY <1>10, RespondPreserves
<1>11. ASSUME NEW r \in Requests, Commit(r)  PROVE IInv'
  BY <1>11, CommitPreserves
<1>12. ASSUME NEW r \in Requests, GatewayFails(r) \/ ProcessFills(r) \/ Abort(r)  PROVE IInv'
  BY <1>12, FailPreserves DEF GatewayFails, ProcessFills, Abort, Outcomes
<1>13. ASSUME NEW m \in wire, ExchangePlaces(m) \/ ExchangeDeduplicates(m)  PROVE IInv'
  BY <1>13, ExchangePlacesPreserves, ExchangeDeduplicatesPreserves
<1>14. ASSUME NEW p \in placed, ExchangeFills(p)  PROVE IInv'
  BY <1>14, ExchangeFillsPreserves
<1> QED
  BY <1>1, <1>2, <1>3, <1>4, <1>5, <1>6, <1>7, <1>8, <1>9, <1>10, <1>11, <1>12, <1>13, <1>14
     DEF Next, Step, Exchange, Terminating

(* The invariant from which the properties of this module follow:             *)
(* keys and account rows are held by one request, and every answer and every  *)
(* row agrees with an order of the exchange.                                  *)
THEOREM Inductive == Spec => []IInv
BY InitEstablishes, NextPreserves, PTL DEF Spec

(* Every variable keeps its type; no more than MaxAttempts submissions.       *)
THEOREM TypeCorrect == Spec => []TypeOK
<1>1. IInv => TypeOK  BY DEF IInv
<1> QED BY <1>1, Inductive, PTL

(* The lookup, the unique index and the rollback of get_db together: at most  *)
(* one order per idempotency key, in progress or durable.                     *)
THEOREM KeyUnique == Spec => []OneOrderPerKey
<1>1. IInv => OneOrderPerKey  BY DEF IInv
<1> QED BY <1>1, Inductive, PTL

(* The row lock taken in step 4 serialises the orders of an account.          *)
THEOREM AccountSerial == Spec => []OneTradePerAccount
<1>1. IInv => OneTradePerAccount
  BY DEF IInv, LockHeld, OneTradePerAccount
<1> QED BY <1>1, Inductive, PTL

(* client_order_id = idempotency_key: one exchange order per key.             *)
THEOREM ExchangeUnique == Spec => []OneExchangeOrderPerKey
<1>1. IInv => OneExchangeOrderPerKey
  BY DEF IInv, PlacedOnce, OneExchangeOrderPerKey, SameKey
<1> QED BY <1>1, Inductive, PTL

(* A durable order is one the exchange has, for its own call unless the key   *)
(* is shared, and says of it nothing the exchange does not.                   *)
THEOREM RecordTrue == Spec => []RecordAgreesWithExchange
<1>1. IInv => RecordAgreesWithExchange
  <2> SUFFICES ASSUME IInv, NEW r \in Requests, Committed(r)
               PROVE  \E p \in placed :
                         /\ SameKey(p.request, r)
                         /\ KeyIsItsOwn(r) => call[p.request] = call[r]
                         /\ p.report.status = "REJECTED" => row[r].order = "FAILED"
                         /\ row[r].order = "FAILED" <=> row[r].txn = "FAILED"
                         /\ row[r].txn = "PROCESSING"
                               => p.report.status \in {"PARTIALLY_FILLED", "FILLED"}
    BY DEF RecordAgreesWithExchange
  <2>1. PICK p \in placed : Agrees(r, p)  BY DEF IInv, RecordKnown
  <2>2. p.request \in Requests  BY DEF IInv, TypeOK
  <2> QED BY <2>1, <2>2 DEF Agrees, KeyIsItsOwn
<1> QED BY <1>1, Inductive, PTL

(* A step submits no key for which an order is durable.                       *)
LEMMA ResubmitStep == IInv /\ [Next]_vars =>
    \A q, r \in Requests : (Committed(q) /\ SameKey(q, r)) => attempt'[r] <= attempt[r]
<1> SUFFICES ASSUME IInv, [Next]_vars, NEW q \in Requests, NEW r \in Requests,
                    Committed(q), SameKey(q, r)
             PROVE  attempt'[r] <= attempt[r]
  OBVIOUS
<1>0. TypeOK /\ attempt[r] \in Nat /\ attempt[r] <= attempt[r]
  BY AttemptsAssumption DEF IInv, TypeOK
<1>1. ASSUME NEW t \in Requests, attempt' = [attempt EXCEPT ![t] = 0]
      PROVE  attempt'[r] <= attempt[r]
  BY <1>1, <1>0 DEF TypeOK
<1>2. ASSUME NEW t \in Requests, Submit(t)  PROVE attempt'[r] <= attempt[r]
  <2>1. Written(t)  BY <1>2 DEF IInv, RowPhase, Submit
  <2>2. t # r
    BY <2>1 DEF IInv, OneOrderPerKey, Written, Committed
  <2>3. attempt'[r] = attempt[r]  BY <2>2, <1>2, <1>0 DEF Submit, TypeOK
  <2> QED BY <2>3, <1>0
<1>3. CASE \E t \in Requests : Submit(t)  BY <1>2, <1>3
<1>4. CASE ~\E t \in Requests : Submit(t)
  <2>1. attempt' = attempt \/ \E t \in Requests : attempt' = [attempt EXCEPT ![t] = 0]
    BY <1>4 DEF Next, Step, Exchange, Terminating, vars, Arrive, Lookup, LockAccount,
                InsertOrder, RetryOrGiveUp, GatewayFails, GatewayAnswers, ProcessFills,
                Finalise, Respond, Commit, Abort, Fail, ExchangePlaces,
                ExchangeDeduplicates, ExchangeFills
  <2> QED BY <2>1, <1>0, <1>1
<1> QED BY <1>3, <1>4

(* Once an order is durable its key never goes to the exchange again.         *)
THEOREM NoResubmission == Spec => NeverResubmitted
BY Inductive, ResubmitStep, PTL DEF Spec, NeverResubmitted

--------------------------------------------------------------------------------
(* The orders of the exchange and the durable orders, as a caller knows them. *)
Filed(p) == [key |-> p.client, status |-> p.report.status]
ExchangeOf == {Filed(p) : p \in placed}

Entry(r) == [key |-> Key(r), order |-> row[r].order, txn |-> row[r].txn]
RegisterOf == {Entry(r) : r \in {q \in Requests : Committed(q)}}

(* What is not durable may change unseen. *)
LEMMA Unregistered ==
    ASSUME IInv, NEW r \in Requests, ~Committed(r), UNCHANGED call,
           row' = row \/ \E x : x.db # "committed" /\ row' = [row EXCEPT ![r] = x]
    PROVE  RegisterOf' = RegisterOf
<1>1. \A q \in Requests : Committed(q)' <=> Committed(q)
  BY DEF IInv, TypeOK, Committed
<1>2. \A q \in Requests : Committed(q) => row'[q] = row[q]
  BY DEF IInv, TypeOK, Committed
<1>3. \A q \in Requests : Committed(q) => Entry(q)' = Entry(q)
  BY <1>2 DEF Entry, Key
<1> QED BY <1>1, <1>3 DEF RegisterOf

(* The exchange never has two orders under a key. *)
LEMMA PlaceStep ==
    ASSUME IInv, NEW m \in wire, ExchangePlaces(m)
    PROVE  \E k \in Keys, s \in Register!Statuses : Register!Place(k, s)
<1>1. m.request \in Requests /\ Key(m.request) \in Keys
  BY CallsAssumption DEF IInv, TypeOK, Key, CallType
<1>2. PICK report \in Reports :
        placed' = placed \cup {[client  |-> Key(m.request), request |-> m.request, report  |-> report]}
  BY DEF ExchangePlaces, ClientOrderId
<1>3. report.status \in Register!Statuses
  BY ReportsAssumption DEF ReportType, Register!Statuses, Register!Filling, Register!Rejected
<1>4. ExchangeOf' = ExchangeOf \cup {[key |-> Key(m.request), status |-> report.status]}
  <2>1. PICK new : new = [client |-> Key(m.request), request |-> m.request, report |-> report]
    OBVIOUS
  <2>2. Filed(new) = [key |-> Key(m.request), status |-> report.status]  BY <2>1 DEF Filed
  <2>3. placed' = placed \cup {new}  BY <1>2, <2>1
  <2>4. {Filed(p) : p \in placed \cup {new}} = ExchangeOf \cup {Filed(new)}  BY DEF ExchangeOf
  <2> QED BY <2>2, <2>3, <2>4 DEF ExchangeOf, Filed
<1>5. \A e \in ExchangeOf : e.key # Key(m.request)
  BY DEF ExchangePlaces, ExchangeOf, Filed, ClientOrderId
<1>6. RegisterOf' = RegisterOf
  BY DEF ExchangePlaces, RegisterOf, Entry, Committed, Key
<1>7. Register!Place(Key(m.request), report.status)
  BY <1>4, <1>5, <1>6 DEF Register!Place, ExchangeOf, Filed, RegisterOf, Entry
<1> QED BY <1>1, <1>3, <1>7

(* A fill replaces the one order of its key. *)
LEMMA FillStep ==
    ASSUME IInv, NEW p \in placed, ExchangeFills(p)
    PROVE  \E e \in ExchangeOf, s \in Register!Filling : Register!Fill(e, s)
<1>1. PICK report \in Reports :
        /\ report.status \in {"PARTIALLY_FILLED", "FILLED"}
        /\ placed' = (placed \ {p}) \cup {[p EXCEPT !.report = report]}
  BY DEF ExchangeFills
<1>2. [p EXCEPT !.report = report].client = p.client /\ [p EXCEPT !.report = report].report = report
  BY DEF IInv, TypeOK
<1>3. \A q \in placed \ {p} : Filed(q) # Filed(p)  BY DEF IInv, PlacedOnce, Filed
<1>4. ExchangeOf' = (ExchangeOf \ {Filed(p)}) \cup {[key |-> p.client, status |-> report.status]}
  <2>1. {Filed(q) : q \in placed \ {p}} = ExchangeOf \ {Filed(p)}  BY <1>3 DEF ExchangeOf
  <2>2. ExchangeOf' = {Filed(q) : q \in placed \ {p}} \cup {Filed([p EXCEPT !.report = report])}
    BY <1>1 DEF ExchangeOf, Filed
  <2>3. Filed([p EXCEPT !.report = report]) = [key |-> p.client, status |-> report.status]
    BY <1>2 DEF Filed
  <2> QED BY <2>1, <2>2, <2>3
<1>5. RegisterOf' = RegisterOf
  BY DEF ExchangeFills, RegisterOf, Entry, Committed, Key
<1>6. Filed(p) \in ExchangeOf /\ Filed(p).status \in {"OPEN", "PARTIALLY_FILLED"}
      /\ Filed(p).key = p.client
  BY DEF ExchangeOf, Filed, ExchangeFills
<1>7. Register!Fill(Filed(p), report.status)
  BY <1>4, <1>5, <1>6 DEF Register!Fill, ExchangeOf, Filed, RegisterOf, Entry
<1> QED BY <1>1, <1>6, <1>7 DEF Register!Filling

(* Every row is written with statuses, and keeps some. *)
Filled(x) == x.db # "none" => x.order # "none" /\ x.txn # "none"
RowsFilled == \A r \in Requests : Filled(row[r])

LEMMA FilledStep == IInv /\ RowsFilled /\ [Next]_vars => RowsFilled'
<1> SUFFICES ASSUME IInv, RowsFilled, [Next]_vars, NEW t \in Requests  PROVE Filled(row'[t])
  BY DEF RowsFilled, Filled
<1>0. TypeOK /\ Filled(row[t])  BY DEF IInv, RowsFilled
<1>1. Filled(NoRow) /\ Filled(NewRow)  BY DEF Filled, NoRow, NewRow
<1>2. ASSUME NEW r \in Requests, NEW why, Fail(r, why)  PROVE Filled(row'[t])
  BY <1>0, <1>1, <1>2 DEF Fail, TypeOK
<1>3. ASSUME NEW r \in Requests, InsertOrder(r)  PROVE Filled(row'[t])
  BY <1>0, <1>1, <1>2, <1>3 DEF InsertOrder, TypeOK
<1>4. ASSUME NEW r \in Requests, Finalise(r)  PROVE Filled(row'[t])
  <2>1. Filled(FinalRow(answer[r]))  BY DEF Filled, FinalRow, NewRow
  <2> QED BY <1>0, <1>4, <2>1 DEF Finalise, TypeOK
<1>5. ASSUME NEW r \in Requests, Commit(r)  PROVE Filled(row'[t])
  <2>1. CASE t = r
    <3>1. row'[t].order = row[t].order /\ row'[t].txn = row[t].txn
          /\ (row'[t].db # "none" => row[t].db # "none")
      BY <1>0, <1>5, <2>1 DEF Commit, TypeOK, RowType
    <3> QED BY <3>1, <1>0 DEF Filled
  <2>2. CASE t # r  BY <1>0, <1>5, <2>2 DEF Commit, TypeOK
  <2> QED BY <2>1, <2>2
<1>6. CASE row' = row  BY <1>0, <1>6
<1> QED BY <1>2, <1>3, <1>4, <1>5, <1>6
       DEF Next, Step, Exchange, Terminating, vars, Arrive, Lookup, LockAccount, Submit,
           RetryOrGiveUp, GatewayFails, GatewayAnswers, ProcessFills, Respond, Abort,
           ExchangePlaces, ExchangeDeduplicates, ExchangeFills

(* A commit enters the record of the exchange's order, the first of its key;  *)
(* that of a replay enters nothing.                                           *)
LEMMA CommitStep ==
    ASSUME IInv, RowsFilled, NEW r \in Requests, Commit(r)
    PROVE  \/ RegisterOf' = RegisterOf
           \/ \E e \in ExchangeOf, order \in {"PENDING", "FAILED"},
                 txn \in {"PENDING", "PROCESSING", "FAILED"} : Register!Record(e, order, txn)
<1>0. TypeOK /\ pc[r] = "commit"  BY DEF IInv, Commit
<1>1. ~Committed(r)  BY <1>0 DEF IInv, RowPhase
<1>2. CASE ~Written(r)
  <2>1. row' = row  BY <1>0, <1>2 DEF Commit, Written, TypeOK, RowType
  <2>2. \A q \in Requests : (Committed(q)' <=> Committed(q)) /\ Entry(q)' = Entry(q)
    BY <2>1 DEF Entry, Committed, Key, Commit
  <2>3. RegisterOf' = RegisterOf  BY <2>2 DEF RegisterOf
  <2> QED BY <2>3
<1>3. CASE Written(r)
  <2>1. PICK p \in placed : Agrees(r, p)  BY <1>0, <1>3 DEF IInv, RecordKnown
  <2>2. row' = [row EXCEPT ![r].db = "committed"] /\ row[r] \in RowType
    BY <1>0, <1>3 DEF Commit, Written, TypeOK
  <2>3. \A q \in Requests \ {r} : row'[q] = row[q]  BY <2>2, <1>0 DEF TypeOK
  <2>4. row'[r].db = "committed" /\ row'[r].order = row[r].order /\ row'[r].txn = row[r].txn
    BY <2>2, <1>0 DEF TypeOK, RowType
  <2>5. RegisterOf' = RegisterOf \cup {Entry(r)}
    <3>1. \A q \in Requests \ {r} : (Committed(q)' <=> Committed(q)) /\ Entry(q)' = Entry(q)
      BY <2>3 DEF Committed, Entry, Key, Commit
    <3>2. Committed(r)' /\ Entry(r)' = Entry(r)  BY <2>4 DEF Committed, Entry, Key, Commit
    <3> QED BY <3>1, <3>2, <1>1 DEF RegisterOf
  <2>6. \A x \in RegisterOf : x.key # Key(r)
    <3>1. \A q \in Requests : Committed(q) => Key(q) # Key(r)
      BY <1>1, <1>3 DEF IInv, OneOrderPerKey, SameKey, Written, Committed
    <3> QED BY <3>1 DEF RegisterOf, Entry
  <2>7. Filed(p) \in ExchangeOf /\ Filed(p).key = Key(r) /\ Filed(p).status = p.report.status
    BY <2>1 DEF ExchangeOf, Filed, Agrees, SameKey, IInv, PlacedOnce
  <2>8. row[r].order \in {"PENDING", "FAILED"} /\ row[r].txn \in {"PENDING", "PROCESSING", "FAILED"}
    BY <1>0, <1>3 DEF RowsFilled, Filled, Written, TypeOK, RowType
  <2>9. Register!Record(Filed(p), row[r].order, row[r].txn)
    BY <2>1, <2>5, <2>6, <2>7
       DEF Register!Record, Register!Rejected, Register!Filling, Agrees, ExchangeOf, Filed,
           RegisterOf, Entry, Commit
  <2> QED BY <2>7, <2>8, <2>9 DEF Register!Record
<1> QED BY <1>2, <1>3

(* Every step is one of the abstract register's, or leaves it alone. *)
LEMMA RegisterStep == IInv /\ RowsFilled /\ [Next]_vars => [Register!Next]_(Register!vars)
<1> SUFFICES ASSUME IInv, RowsFilled, [Next]_vars
             PROVE  Register!Next \/ (ExchangeOf' = ExchangeOf /\ RegisterOf' = RegisterOf)
  BY DEF Register!vars, ExchangeOf, RegisterOf, Filed, Entry
<1>1. ASSUME NEW m \in wire, ExchangePlaces(m)  PROVE Register!Next
  BY <1>1, PlaceStep DEF Register!Next, Register!Place
<1>2. ASSUME NEW p \in placed, ExchangeFills(p)  PROVE Register!Next
  <2>1. \E e \in ExchangeOf, s \in Register!Filling : Register!Fill(e, s)  BY <1>2, FillStep
  <2> QED BY <2>1 DEF Register!Next, Register!Fill, ExchangeOf, Filed
<1>3. ASSUME NEW r \in Requests, Commit(r)
      PROVE  Register!Next \/ (ExchangeOf' = ExchangeOf /\ RegisterOf' = RegisterOf)
  <2>1. ExchangeOf' = ExchangeOf  BY <1>3 DEF Commit, ExchangeOf, Filed
  <2>2. CASE RegisterOf' = RegisterOf  BY <2>1, <2>2
  <2>3. CASE \E e \in ExchangeOf, order \in {"PENDING", "FAILED"},
               txn \in {"PENDING", "PROCESSING", "FAILED"} : Register!Record(e, order, txn)
    BY <2>3 DEF Register!Next, Register!Record, ExchangeOf, Filed
  <2> QED BY <1>3, <2>2, <2>3, CommitStep
<1>4. ASSUME NEW r \in Requests, NEW why, Fail(r, why), ~Committed(r)
      PROVE  ExchangeOf' = ExchangeOf /\ RegisterOf' = RegisterOf
  <2>1. RegisterOf' = RegisterOf  BY <1>4, Unregistered DEF Fail, NoRow
  <2> QED BY <1>4, <2>1 DEF Fail, ExchangeOf, Filed
<1>5. ASSUME NEW r \in Requests, Step(r) \/ Abort(r), ~Commit(r)
      PROVE  ExchangeOf' = ExchangeOf /\ RegisterOf' = RegisterOf
  <2>1. ~Committed(r)
    BY <1>5 DEF IInv, RowPhase, Step, Abort, Lookup, LockAccount, InsertOrder, Submit,
                RetryOrGiveUp, GatewayFails, GatewayAnswers, ProcessFills, Finalise, Respond
  <2>2. \/ \E why : Fail(r, why)
        \/ UNCHANGED <<call, row, placed>>
        \/ InsertOrder(r) /\ UNCHANGED <<call, placed>> /\ row' = [row EXCEPT ![r] = NewRow]
        \/ Finalise(r)
    BY <1>5 DEF Step, Abort, Lookup, LockAccount, InsertOrder, Submit, RetryOrGiveUp,
                GatewayFails, GatewayAnswers, ProcessFills, Respond
  <2>3. FinalRow(answer[r]).db # "committed" /\ NewRow.db # "committed"  BY DEF FinalRow, NewRow
  <2>4. CASE \E why : Fail(r, why)  BY <2>1, <2>4, <1>4
  <2>5. CASE ~\E why : Fail(r, why)
    <3>1. RegisterOf' = RegisterOf  BY <2>1, <2>2, <2>3, <2>5, Unregistered DEF Finalise
    <3> QED BY <2>2, <2>5, <3>1 DEF Finalise, ExchangeOf, Filed
  <2> QED BY <2>4, <2>5
<1>6. ASSUME UNCHANGED <<call, row, placed>>
      PROVE  ExchangeOf' = ExchangeOf /\ RegisterOf' = RegisterOf
  BY <1>6 DEF ExchangeOf, Filed, RegisterOf, Entry, Committed, Key
<1> QED BY <1>1, <1>2, <1>3, <1>5, <1>6
       DEF Next, Exchange, Terminating, vars, Arrive, ExchangeDeduplicates

(* execute_trade, the gateway and the exchange together behave as             *)
(* OrderRegister: to the holder of a key no race, retry or rollback shows.    *)
THEOREM Refinement == Spec => ImplementsOrderRegister
<1>1. Init => RowsFilled  BY DEF Init, RowsFilled, Filled, NoRow
<1>2. Init => Register!Init  BY DEF Init, Register!Init, Committed, NoRow
<1> QED BY <1>1, <1>2, Inductive, FilledStep, RegisterStep, PTL
       DEF Spec, ImplementsOrderRegister, Register!Spec
================================================================================
