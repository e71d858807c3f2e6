---------------------------- MODULE BankingProofs ----------------------------
(***************************************************************************)
(* What Banking guarantees for any deposits, callbacks, arguments and      *)
(* number of attempts: a durable deposit names a transfer of its own that  *)
(* the bank has, becomes COMPLETED only when that one has settled, and     *)
(* stays so whatever callbacks race.                                       *)
(*                                                                         *)
(* The argument: a row becomes durable only with the id of the attempt     *)
(* that was answered, which is never another deposit's; a callback gets to *)
(* the UPDATE only with a durable row of that id, which no other action    *)
(* changes but an UPDATE to the same status.                               *)
(***************************************************************************)
EXTENDS Banking, TLAPS

PendingRow == Written("PENDING", NoTransfer)

(* The row names a transfer that the deposit has initiated. *)
Named(d) ==
    /\ txn[d].ref \in Transfers
    /\ txn[d].ref.deposit = d
    /\ Received(txn[d].ref)

(* What a deposit has written depends on where its handler is. *)
RowPhase ==
    \A d \in Deposits :
        /\ pc[d] \in {"idle", "validate"} => txn[d] = NoRow
        /\ pc[d] \in {"transfer", "awaiting"} => txn[d] = PendingRow
        /\ pc[d] = "commit" =>
               Named(d) /\ txn[d].db = "written" /\ txn[d].status = "PROCESSING"
        /\ pc[d] = "done" => txn[d] = NoRow \/ Durable(d)

DurableNamed ==
    \A d \in Deposits : Durable(d) =>
        /\ pc[d] = "done"
        /\ Named(d)
        /\ txn[d].status \in {"PROCESSING", "COMPLETED"}
        /\ txn[d].status = "COMPLETED" => bank[txn[d].ref] = "settled"

AttemptsLeft ==
    \A d \in Deposits :
        /\ pc[d] = "transfer" => attempt[d] < MaxAttempts
        /\ pc[d] \in {"idle", "validate"} => attempt[d] = 0
        /\ pc[d] = "awaiting" => attempt[d] >= 1

(* The bank has no transfer of an attempt that has not been made. *)
NotAsked ==
    \A t \in Transfers : t.attempt > attempt[t.deposit] => bank[t] = "none"

(* The durable row a callback is about. *)
Matches(c, d) == Durable(d) /\ txn[d].ref = about[c]

CallbackPhase ==
    \A c \in Callbacks :
        /\ cpc[c] = "idle" => verdict[c] = "none"
        /\ cpc[c] # "idle" => about[c] \in Transfers /\ bank[about[c]] = "settled"
        /\ cpc[c] \in {"update", "commit"} => \E d \in Deposits : Matches(c, d)
        /\ cpc[c] = "commit" => \E d \in Deposits : Matches(c, d) /\ rowLock[d] = c

RowHeld ==
    \A d \in Deposits : rowLock[d] # Nobody =>
        cpc[rowLock[d]] = "commit" /\ Matches(rowLock[d], d)

(* The inductive invariant. *)
IInv ==
    /\ TypeOK
    /\ RowPhase
    /\ DurableNamed
    /\ AttemptsLeft
    /\ NotAsked
    /\ CallbackPhase
    /\ RowHeld
    /\ ConfirmationHolds

USE CallsAssumption, TransferAssumption, CallbacksAssumption, AttemptsAssumption

(* Before the first deposit the inductive invariant holds.                    *)
LEMMA InitEstablishes == Init => IInv
BY DEF Init, IInv, TypeOK, RowPhase, DurableNamed, AttemptsLeft, NotAsked, CallbackPhase,
       RowHeld, ConfirmationHolds, NoRow, RowType, Phases, CallbackPhases, Outcomes, Verdicts,
       Durable, Matches

(* A deposit whose row is not durable may change it, and become durable with  *)
(* a row that names its transfer: callbacks cannot tell, as long as the bank  *)
(* forgets nothing.                                                           *)
LEMMA DepositPreserves ==
    ASSUME IInv, NEW d \in Deposits, ~Durable(d),
           pc' \in [Deposits -> Phases],
           attempt' \in [Deposits -> 0..MaxAttempts],
           txn' \in [Deposits -> RowType],
           outcome' \in [Deposits -> Outcomes],
           bank' \in [Transfers -> {"none", "sent", "initiated", "settled"}],
           \A e \in Deposits \ {d} : pc'[e] = pc[e] /\ attempt'[e] = attempt[e] /\ txn'[e] = txn[e],
           \A t \in Transfers :
               /\ bank[t] = "settled" => bank'[t] = "settled"
               /\ bank[t] = "initiated" => bank'[t] \in {"initiated", "settled"}
               /\ bank'[t] # bank[t] => t.attempt <= attempt'[t.deposit],
           attempt'[d] >= attempt[d],
           /\ pc'[d] \in {"idle", "validate"} => txn'[d] = NoRow /\ attempt'[d] = 0
           /\ pc'[d] \in {"transfer", "awaiting"} => txn'[d] = PendingRow
           /\ pc'[d] = "transfer" => attempt'[d] < MaxAttempts
           /\ pc'[d] = "awaiting" => attempt'[d] >= 1
           /\ pc'[d] = "commit" =>
                  Named(d)' /\ txn'[d].db = "written" /\ txn'[d].status = "PROCESSING"
           /\ pc'[d] = "done" => txn'[d] = NoRow \/ Durable(d)'
           /\ Durable(d)' => pc'[d] = "done" /\ Named(d)' /\ txn'[d].status = "PROCESSING",
           UNCHANGED <<call, callbackVars>>
    PROVE  IInv'
<1> USE DEF callbackVars
<1>a. \A e \in Deposits \ {d} : (Named(e) => Named(e)') /\ (Durable(e) <=> Durable(e)')
  BY DEF Named, Durable, Received
<1>b. \A c \in Callbacks : \A e \in Deposits : Matches(c, e) => e # d /\ Matches(c, e)'
  BY <1>a DEF Matches, Durable
<1>1. TypeOK'  BY DEF IInv, TypeOK
<1>2. RowPhase'
  <2> SUFFICES ASSUME NEW e \in Deposits
               PROVE  /\ pc'[e] \in {"idle", "validate"} => txn'[e] = NoRow
                      /\ pc'[e] \in {"transfer", "awaiting"} => txn'[e] = PendingRow
                      /\ pc'[e] = "commit" =>
                             Named(e)' /\ txn'[e].db = "written" /\ txn'[e].status = "PROCESSING"
                      /\ pc'[e] = "done" => txn'[e] = NoRow \/ Durable(e)'
    BY DEF RowPhase, NoRow, PendingRow
  <2>1. CASE e = d  BY <2>1
  <2>2. CASE e # d  BY <2>2, <1>a DEF IInv, RowPhase
  <2> QED BY <2>1, <2>2
<1>3. DurableNamed'
  <2> SUFFICES ASSUME NEW e \in Deposits, Durable(e)'
               PROVE  /\ pc'[e] = "done"
                      /\ Named(e)'
                      /\ txn'[e].status \in {"PROCESSING", "COMPLETED"}
                      /\ txn'[e].status = "COMPLETED" => bank'[txn'[e].ref] = "settled"
    BY DEF DurableNamed
  <2>1. CASE e = d  BY <2>1
  <2>2. CASE e # d  BY <2>2, <1>a DEF IInv, DurableNamed, Named
  <2> QED BY <2>1, <2>2
<1>4. AttemptsLeft'  BY DEF IInv, AttemptsLeft
<1>5. CallbackPhase'  BY <1>b DEF IInv, CallbackPhase
<1>6. RowHeld'  BY <1>b DEF IInv, TypeOK, RowHeld
<1>7. ConfirmationHolds'
  BY <1>b DEF IInv, ConfirmationHolds, Matches, Durable
<1>8. NotAsked'
  <2> SUFFICES ASSUME NEW t \in Transfers, t.attempt > attempt'[t.deposit]
               PROVE  bank'[t] = "none"
    BY DEF NotAsked
  <2>1. t.deposit \in Deposits /\ t.attempt \in Nat  BY DEF Transfers
  <2>2. attempt'[t.deposit] >= attempt[t.deposit]
    BY <2>1 DEF IInv, TypeOK
  <2>3. t.attempt > attempt[t.deposit]  BY <2>1, <2>2 DEF IInv, TypeOK
  <2>4. bank'[t] = bank[t]  BY <2>1 DEF IInv, TypeOK
  <2> QED BY <2>3, <2>4 DEF IInv, NotAsked
<1> QED BY <1>1, <1>2, <1>3, <1>4, <1>5, <1>6, <1>7, <1>8 DEF IInv

(* A deposit that has not ended has no durable row. *)
LEMMA NotDurable ==
    ASSUME IInv, NEW d \in Deposits, pc[d] # "done"
    PROVE  ~Durable(d)
BY DEF IInv, DurableNamed

(* The rollback of get_db takes the row away. *)
LEMMA FailPreserves ==
    ASSUME IInv, NEW d \in Deposits, pc[d] # "done", NEW why \in Outcomes, Fail(d, why)
    PROVE  IInv'
<1> USE DEF Fail, Goto
<1>1. ~Durable(d)  BY NotDurable
<1>2. NoRow \in RowType  BY DEF NoRow, RowType
<1>3. ~Durable(d)'  BY DEF IInv, TypeOK, Durable, NoRow
<1>4. pc'[d] = "done" /\ txn'[d] = NoRow  BY DEF IInv, TypeOK
<1>5. /\ pc' \in [Deposits -> Phases]
      /\ outcome' \in [Deposits -> Outcomes]
      /\ txn' \in [Deposits -> RowType]
  BY <1>2 DEF IInv, TypeOK, Phases
<1> HIDE DEF Fail
<1> QED BY <1>1, <1>3, <1>4, <1>5, DepositPreserves DEF IInv, TypeOK, Fail

(* A deposit that arrives has no row. *)
LEMMA ArrivePreserves ==
    ASSUME IInv, NEW d \in Deposits, Arrive(d)
    PROVE  IInv'
<1> USE DEF Arrive, Goto
<1>1. ~Durable(d) /\ ~Durable(d)'  BY NotDurable DEF Durable
<1>2. pc' \in [Deposits -> Phases] /\ pc'[d] = "validate"  BY DEF IInv, TypeOK, Phases
<1>3. txn[d] = NoRow /\ attempt[d] = 0  BY DEF IInv, RowPhase, AttemptsLeft
<1> QED BY <1>1, <1>2, <1>3, DepositPreserves DEF IInv, TypeOK

(* Past the checks there is a PENDING row that names no transfer. *)
LEMMA ValidatePreserves ==
    ASSUME IInv, NEW d \in Deposits, Validate(d)
    PROVE  IInv'
<1>0. pc[d] = "validate"  BY DEF Validate
<1>1. CASE \E why \in Outcomes : Fail(d, why)  BY <1>0, <1>1, FailPreserves
<1>2. CASE ~\E why \in Outcomes : Fail(d, why)
  <2>1. /\ txn' = [txn EXCEPT ![d] = Written("PENDING", NoTransfer)]
        /\ Goto(d, "transfer")
        /\ UNCHANGED <<call, attempt, outcome, bank, callbackVars>>
    BY <1>2 DEF Validate, Outcomes
  <2>2. txn[d] = NoRow /\ attempt[d] = 0  BY <1>0 DEF IInv, RowPhase, AttemptsLeft
  <2>3. txn'[d] = PendingRow  BY <2>1 DEF IInv, TypeOK, PendingRow
  <2>4. PendingRow \in RowType  BY DEF PendingRow, Written, RowType
  <2>5. txn' \in [Deposits -> RowType]  BY <2>1, <2>3, <2>4 DEF IInv, TypeOK
  <2>6. pc' \in [Deposits -> Phases] /\ pc'[d] = "transfer"
    BY <2>1 DEF IInv, TypeOK, Phases, Goto
  <2>7. ~Durable(d) /\ ~Durable(d)'  BY <1>0, <2>3, NotDurable DEF Durable, PendingRow, Written
  <2>8. \A e \in Deposits \ {d} : pc'[e] = pc[e] /\ txn'[e] = txn[e]
    BY <2>1 DEF IInv, TypeOK, Goto
  <2> QED BY <2>1, <2>2, <2>3, <2>5, <2>6, <2>7, <2>8, DepositPreserves DEF IInv, TypeOK
<1> QED BY <1>1, <1>2

(* An attempt has an id of its own: no row names it yet. *)
LEMMA InitiateTransferPreserves ==
    ASSUME IInv, NEW d \in Deposits, InitiateTransfer(d)
    PROVE  IInv'
<1> USE DEF InitiateTransfer, Goto
<1> DEFINE new == [deposit |-> d, attempt |-> attempt[d] + 1]
<1>1. ~Durable(d) /\ ~Durable(d)'  BY NotDurable DEF Durable
<1>2. pc' \in [Deposits -> Phases] /\ pc'[d] = "awaiting"  BY DEF IInv, TypeOK, Phases
<1>3. txn[d] = PendingRow /\ attempt[d] < MaxAttempts /\ attempt[d] \in Nat
  BY DEF IInv, TypeOK, RowPhase, AttemptsLeft
<1>4. attempt' \in [Deposits -> 0..MaxAttempts] /\ attempt'[d] = attempt[d] + 1
  BY <1>3 DEF IInv, TypeOK
<1>5. bank' \in [Transfers -> {"none", "sent", "initiated", "settled"}]  BY DEF IInv, TypeOK
<1>6. new \in Transfers /\ bank[new] = "none"
  BY <1>3 DEF IInv, NotAsked, Transfers
<1>7. \A t \in Transfers : t # new => bank'[t] = bank[t]
  BY DEF IInv, TypeOK
<1>8. new.deposit = d /\ new.attempt = attempt'[d]  BY <1>4
<1>9. \A t \in Transfers :
        /\ bank[t] \in {"initiated", "settled"} => bank'[t] = bank[t]
        /\ bank'[t] # bank[t] => t.attempt <= attempt'[t.deposit]
  BY <1>3, <1>4, <1>6, <1>7, <1>8
<1> HIDE DEF new
<1>10. attempt'[d] >= 1 /\ attempt'[d] >= attempt[d]  BY <1>3, <1>4
<1>11. \A e \in Deposits \ {d} : pc'[e] = pc[e] /\ attempt'[e] = attempt[e]
  BY DEF IInv, TypeOK
<1> HIDE DEF InitiateTransfer
<1> QED BY <1>1, <1>2, <1>3, <1>4, <1>5, <1>9, <1>10, <1>11, DepositPreserves
        DEF IInv, TypeOK, InitiateTransfer

(* A retry is made only while attempts are left. *)
LEMMA RetryOrGiveUpPreserves ==
    ASSUME IInv, NEW d \in Deposits, RetryOrGiveUp(d)
    PROVE  IInv'
<1>0. pc[d] = "awaiting"  BY DEF RetryOrGiveUp
<1>1. CASE attempt[d] < MaxAttempts
  <2>1. Goto(d, "transfer") /\ UNCHANGED <<call, attempt, txn, outcome, bank, callbackVars>>
    BY <1>1 DEF RetryOrGiveUp
  <2>2. ~Durable(d) /\ ~Durable(d)'  BY <1>0, <2>1, NotDurable DEF Durable
  <2>3. pc' \in [Deposits -> Phases] /\ pc'[d] = "transfer"
    BY <2>1 DEF IInv, TypeOK, Phases, Goto
  <2>4. txn[d] = PendingRow  BY <1>0 DEF IInv, RowPhase
  <2>5. \A e \in Deposits \ {d} : pc'[e] = pc[e]  BY <2>1 DEF IInv, TypeOK, Goto
  <2> QED BY <1>1, <2>1, <2>2, <2>3, <2>4, <2>5, DepositPreserves DEF IInv, TypeOK
<1>2. CASE ~(attempt[d] < MaxAttempts)
  BY <1>0, <1>2, FailPreserves DEF RetryOrGiveUp, Outcomes
<1> QED BY <1>1, <1>2

(* The id stored is that of the attempt the bank has answered. *)
LEMMA GatewayAnswersPreserves ==
    ASSUME IInv, NEW d \in Deposits, GatewayAnswers(d)
    PROVE  IInv'
<1> USE DEF GatewayAnswers, Goto
<1>1. txn[d] = PendingRow /\ attempt[d] \in 1..MaxAttempts
  BY DEF IInv, TypeOK, RowPhase, AttemptsLeft
<1>2. /\ Current(d) \in Transfers
      /\ Current(d).deposit = d
      /\ Received(Current(d))
  <2>1. Current(d) \in Transfers /\ Current(d).deposit = d  BY <1>1 DEF Current, Transfers
  <2> QED BY <2>1 DEF IInv, TypeOK
<1>3. txn'[d] = [db |-> "written", status |-> "PROCESSING", ref |-> Current(d)]
  BY DEF IInv, TypeOK, Written
<1>4. txn'[d] \in RowType
  <2> HIDE DEF GatewayAnswers
  <2> QED BY <1>2, <1>3 DEF RowType
<1>5. txn' \in [Deposits -> RowType]  BY <1>4 DEF IInv, TypeOK
<1>6. pc' \in [Deposits -> Phases] /\ pc'[d] = "commit"  BY DEF IInv, TypeOK, Phases
<1>7. ~Durable(d) /\ ~Durable(d)'  BY <1>3, NotDurable DEF Durable
<1>8. Named(d)'  BY <1>2, <1>3 DEF Named, Received
<1>9. \A e \in Deposits \ {d} : pc'[e] = pc[e] /\ txn'[e] = txn[e]  BY DEF IInv, TypeOK
<1>10. UNCHANGED <<call, attempt, outcome, bank, callbackVars>>  OBVIOUS
<1> HIDE DEF GatewayAnswers
<1> QED BY <1>3, <1>5, <1>6, <1>7, <1>8, <1>9, <1>10, DepositPreserves DEF IInv, TypeOK

(* The row becomes durable as it is, PROCESSING and with its reference. *)
LEMMA CommitPreserves ==
    ASSUME IInv, NEW d \in Deposits, Commit(d)
    PROVE  IInv'
<1> USE DEF Commit, Goto
<1>1. /\ txn[d] \in RowType
      /\ Named(d) /\ txn[d].status = "PROCESSING"
  BY DEF IInv, TypeOK, RowPhase
<1>2. /\ txn'[d].db = "committed"
      /\ txn'[d].status = "PROCESSING"
      /\ txn'[d].ref = txn[d].ref
      /\ txn'[d] \in RowType
  BY <1>1 DEF IInv, TypeOK, RowType
<1>3. txn' \in [Deposits -> RowType]  BY <1>2 DEF IInv, TypeOK
<1>4. pc' \in [Deposits -> Phases] /\ pc'[d] = "done"  BY DEF IInv, TypeOK, Phases
<1>5. outcome' \in [Deposits -> Outcomes]  BY DEF IInv, TypeOK, Outcomes
<1>6. ~Durable(d) /\ Durable(d)'  BY <1>2, NotDurable DEF Durable
<1>7. Named(d)'  BY <1>1, <1>2 DEF Named, Received
<1>8. \A e \in Deposits \ {d} : pc'[e] = pc[e] /\ txn'[e] = txn[e]  BY DEF IInv, TypeOK
<1>9. UNCHANGED <<call, attempt, bank, callbackVars>>  OBVIOUS
<1> HIDE DEF Commit
<1> QED BY <1>2, <1>3, <1>4, <1>5, <1>6, <1>7, <1>8, <1>9, DepositPreserves DEF IInv, TypeOK

--------------------------------------------------------------------------------

(* The bank receives a request that was sent and settles a transfer it has: *)
(* names stay names.                                                        *)
LEMMA BankPreserves ==
    ASSUME IInv, NEW t \in Transfers, Receive(t) \/ Settle(t)
    PROVE  IInv'
<1> USE DEF Receive, Settle, depositVars, callbackVars
<1>1. \A u \in Transfers :
        /\ bank'[u] \in {"none", "sent", "initiated", "settled"}
        /\ bank[u] \in {"initiated", "settled"} => bank'[u] \in {"initiated", "settled"}
        /\ bank[u] = "settled" => bank'[u] = "settled"
        /\ bank[u] = "none" => bank'[u] = "none"
  BY DEF IInv, TypeOK
<1>2. TypeOK'  BY DEF IInv, TypeOK
<1>3. \A d \in Deposits : (Named(d) => Named(d)') /\ (Durable(d) <=> Durable(d)')
  BY <1>1 DEF Named, Durable, Received
<1>4. RowPhase'  BY <1>3 DEF IInv, RowPhase, NoRow, PendingRow, Written
<1>5. DurableNamed'  BY <1>1, <1>3 DEF IInv, DurableNamed, Named
<1>6. AttemptsLeft'  BY DEF IInv, AttemptsLeft
<1>7. NotAsked'  BY <1>1 DEF IInv, NotAsked
<1>8. CallbackPhase'  BY <1>1 DEF IInv, CallbackPhase, Matches, Durable
<1>9. RowHeld'  BY DEF IInv, RowHeld, Matches, Durable
<1>10. ConfirmationHolds'  BY DEF IInv, ConfirmationHolds, Durable
<1> QED BY <1>2, <1>4, <1>5, <1>6, <1>7, <1>8, <1>9, <1>10 DEF IInv

(* A callback that touches no row leaves the deposits' part as it is. *)
LEMMA DepositPartUnchanged ==
    ASSUME IInv, UNCHANGED <<depositVars, txn, bank>>
    PROVE  RowPhase' /\ DurableNamed' /\ AttemptsLeft' /\ NotAsked'
BY DEF depositVars, IInv, RowPhase, DurableNamed, AttemptsLeft, NotAsked, Named, Durable,
       Received, NoRow, PendingRow, Written

(* A new callback is about a settled transfer. *)
LEMMA CallBackPreserves ==
    ASSUME IInv, NEW c \in Callbacks, NEW t \in Transfers, CallBack(c, t)
    PROVE  IInv'
<1> USE DEF CallBack
<1>1. RowPhase' /\ DurableNamed' /\ AttemptsLeft' /\ NotAsked'  BY DepositPartUnchanged
<1>2. TypeOK'  BY DEF depositVars, IInv, TypeOK, CallbackPhases
<1>3. verdict[c] = "none"  BY DEF IInv, CallbackPhase
<1>4. /\ cpc'[c] = "lookup" /\ about'[c] = t
      /\ \A b \in Callbacks \ {c} : cpc'[b] = cpc[b] /\ about'[b] = about[b]
  BY DEF IInv, TypeOK
<1>5. CallbackPhase'  BY <1>4 DEF IInv, CallbackPhase, Matches, Durable
<1>6. RowHeld'
  <2> SUFFICES ASSUME NEW d \in Deposits, rowLock[d] # Nobody
               PROVE  cpc'[rowLock[d]] = "commit" /\ Matches(rowLock[d], d)'
    BY DEF RowHeld
  <2>1. rowLock[d] \in Callbacks \ {c}  BY DEF IInv, TypeOK, RowHeld
  <2> QED BY <2>1, <1>4 DEF IInv, RowHeld, Matches, Durable
<1>7. ConfirmationHolds'  BY <1>3, <1>4 DEF IInv, ConfirmationHolds, Durable
<1> QED BY <1>1, <1>2, <1>5, <1>6, <1>7 DEF IInv

(* A callback goes on to the UPDATE only with a durable row of its transfer,  *)
(* and says "already" only of a COMPLETED one.                                *)
LEMMA GetByReferencePreserves ==
    ASSUME IInv, NEW c \in Callbacks, GetByReference(c)
    PROVE  IInv'
<1> USE DEF GetByReference
<1>1. RowPhase' /\ DurableNamed' /\ AttemptsLeft' /\ NotAsked'  BY DepositPartUnchanged
<1>2. /\ cpc[c] = "lookup"
      /\ UNCHANGED <<depositVars, txn, bank, about, rowLock>>
      /\ \/ cpc' = [cpc EXCEPT ![c] = "done"] /\ verdict' = [verdict EXCEPT ![c] = "unknown"]
         \/ /\ \E d \in Deposits : Matches(c, d) /\ txn[d].status = "COMPLETED"
            /\ cpc' = [cpc EXCEPT ![c] = "done"] /\ verdict' = [verdict EXCEPT ![c] = "already"]
         \/ /\ \E d \in Deposits : Matches(c, d)
            /\ cpc' = [cpc EXCEPT ![c] = "update"] /\ UNCHANGED verdict
  BY DEF Finish, Found, Matches
<1> HIDE DEF GetByReference
<1>3. TypeOK'  BY <1>2 DEF depositVars, IInv, TypeOK, CallbackPhases, Verdicts
<1>4. \A b \in Callbacks \ {c} : cpc'[b] = cpc[b] /\ verdict'[b] = verdict[b]
  BY <1>2 DEF IInv, TypeOK
<1>5. \A b \in Callbacks, d \in Deposits : Matches(b, d) <=> Matches(b, d)'
  BY <1>2 DEF Matches, Durable
<1>6. cpc'[c] \in {"done", "update"}  BY <1>2 DEF IInv, TypeOK
<1>7. CallbackPhase'
  <2>1. cpc'[c] = "update" => \E d \in Deposits : Matches(c, d)'
    BY <1>2, <1>5 DEF IInv, TypeOK
  <2>2. about'[c] \in Transfers /\ bank'[about'[c]] = "settled"
    BY <1>2 DEF IInv, CallbackPhase
  <2>3. \A b \in Callbacks \ {c} :
          /\ cpc'[b] = "idle" => verdict'[b] = "none"
          /\ cpc'[b] # "idle" => about'[b] \in Transfers /\ bank'[about'[b]] = "settled"
          /\ cpc'[b] \in {"update", "commit"} => \E d \in Deposits : Matches(b, d)'
          /\ cpc'[b] = "commit" => \E d \in Deposits : Matches(b, d)' /\ rowLock'[d] = b
    BY <1>2, <1>4, <1>5 DEF IInv, CallbackPhase
  <2> QED BY <1>6, <2>1, <2>2, <2>3 DEF CallbackPhase
<1>8. RowHeld'
  <2> SUFFICES ASSUME NEW d \in Deposits, rowLock[d] # Nobody
               PROVE  cpc'[rowLock[d]] = "commit" /\ Matches(rowLock[d], d)'
    BY <1>2 DEF RowHeld
  <2>1. rowLock[d] \in Callbacks \ {c}  BY <1>2 DEF IInv, TypeOK, RowHeld
  <2> QED BY <2>1, <1>2, <1>4 DEF IInv, RowHeld, Matches, Durable
<1>9. ConfirmationHolds'
  <2>1. verdict'[c] \in {"already", "confirmed"} =>
          \E d \in Deposits : Durable(d)' /\ txn'[d].ref = about'[c] /\ txn'[d].status = "COMPLETED"
    BY <1>2 DEF IInv, TypeOK, ConfirmationHolds, Matches, Durable
  <2>2. \A b \in Callbacks \ {c} : verdict'[b] \in {"already", "confirmed"} =>
          \E d \in Deposits : Durable(d)' /\ txn'[d].ref = about'[b] /\ txn'[d].status = "COMPLETED"
    BY <1>2, <1>4 DEF IInv, ConfirmationHolds, Durable
  <2> QED BY <2>1, <2>2 DEF ConfirmationHolds
<1> QED BY <1>1, <1>3, <1>7, <1>8, <1>9 DEF IInv

(* The UPDATE goes ahead only when no other session has updated the row. *)
LEMMA UpdateStatusPreserves ==
    ASSUME IInv, NEW c \in Callbacks, UpdateStatus(c)
    PROVE  IInv'
<1> USE DEF UpdateStatus
<1>1. RowPhase' /\ DurableNamed' /\ AttemptsLeft' /\ NotAsked'  BY DepositPartUnchanged
<1>2. PICK d \in Deposits :
        /\ Matches(c, d)
        /\ rowLock[d] = Nobody
        /\ rowLock' = [rowLock EXCEPT ![d] = c]
  BY DEF Found, Matches
<1>3. /\ cpc[c] = "update"
      /\ cpc' = [cpc EXCEPT ![c] = "commit"]
      /\ UNCHANGED <<depositVars, txn, bank, about, verdict>>
  OBVIOUS
<1> HIDE DEF UpdateStatus
<1>4. TypeOK'  BY <1>2, <1>3 DEF depositVars, IInv, TypeOK, CallbackPhases
<1>5. cpc'[c] = "commit" /\ \A b \in Callbacks \ {c} : cpc'[b] = cpc[b]
  BY <1>3 DEF IInv, TypeOK
<1>6. rowLock'[d] = c /\ \A e \in Deposits \ {d} : rowLock'[e] = rowLock[e]
  BY <1>2 DEF IInv, TypeOK
<1>7. \A b \in Callbacks, e \in Deposits : Matches(b, e) <=> Matches(b, e)'
  BY <1>3 DEF Matches, Durable
<1>8. CallbackPhase'
  <2> SUFFICES ASSUME NEW b \in Callbacks
               PROVE  /\ cpc'[b] = "idle" => verdict'[b] = "none"
                      /\ cpc'[b] # "idle" => about'[b] \in Transfers /\ bank'[about'[b]] = "settled"
                      /\ cpc'[b] \in {"update", "commit"} => \E e \in Deposits : Matches(b, e)'
                      /\ cpc'[b] = "commit" =>
                             \E e \in Deposits : Matches(b, e)' /\ rowLock'[e] = b
    BY DEF CallbackPhase
  <2>1. CASE b = c  BY <2>1, <1>2, <1>3, <1>5, <1>6, <1>7 DEF IInv, CallbackPhase
  <2>2. CASE b # c
    <3>1. \A e \in Deposits : rowLock[e] = b => rowLock'[e] = b
      BY <1>2, <1>6
    <3> QED BY <2>2, <3>1, <1>3, <1>5, <1>7 DEF IInv, CallbackPhase
  <2> QED BY <2>1, <2>2
<1>9. RowHeld'
  <2> SUFFICES ASSUME NEW e \in Deposits, rowLock'[e] # Nobody
               PROVE  cpc'[rowLock'[e]] = "commit" /\ Matches(rowLock[e], e)'
    BY DEF RowHeld
  <2>1. CASE e = d  BY <2>1, <1>2, <1>3, <1>5, <1>6 DEF Matches, Durable
  <2>2. CASE e # d
    <3>1. rowLock'[e] = rowLock[e] /\ rowLock[e] \in Callbacks \ {c}
      BY <2>2, <1>3, <1>6 DEF IInv, TypeOK, RowHeld
    <3> QED BY <3>1, <1>3, <1>5 DEF IInv, RowHeld, Matches, Durable
  <2> QED BY <2>1, <2>2
<1>10. ConfirmationHolds'  BY <1>3 DEF IInv, ConfirmationHolds, Durable
<1> QED BY <1>1, <1>4, <1>8, <1>9, <1>10 DEF IInv

(* The commit changes rows that the callback has locked, and only to          *)
(* COMPLETED, of transfers that have settled.                                 *)
LEMMA CommitConfirmationPreserves ==
    ASSUME IInv, NEW c \in Callbacks, CommitConfirmation(c)
    PROVE  IInv'
<1> USE DEF CommitConfirmation, ReleaseRow, Finish
<1>1. /\ cpc[c] = "commit"
      /\ cpc' = [cpc EXCEPT ![c] = "done"]
      /\ verdict' = [verdict EXCEPT ![c] = "confirmed"]
      /\ UNCHANGED <<depositVars, bank, about>>
  OBVIOUS
<1>2. \A d \in Deposits :
        /\ txn[d] \in RowType
        /\ txn'[d].db = txn[d].db /\ txn'[d].ref = txn[d].ref /\ txn'[d] \in RowType
        /\ rowLock[d] = c => txn'[d].status = "COMPLETED" /\ Durable(d) /\ txn[d].ref = about[c]
        /\ rowLock[d] # c => txn'[d] = txn[d]
  BY DEF IInv, TypeOK, RowType, RowHeld, Matches
<1>3. \A d \in Deposits :
        rowLock'[d] = IF rowLock[d] = c THEN Nobody ELSE rowLock[d]
  OBVIOUS
<1>4. TypeOK'
  <2>1. txn' \in [Deposits -> RowType]  BY <1>2
  <2>2. rowLock' \in [Deposits -> Callbacks \cup {Nobody}]  BY DEF IInv, TypeOK
  <2> QED BY <1>1, <2>1, <2>2 DEF depositVars, IInv, TypeOK, CallbackPhases, Verdicts
<1>5. \A d \in Deposits : (Durable(d) <=> Durable(d)') /\ (Named(d) <=> Named(d)')
  BY <1>1, <1>2 DEF Durable, Named, Received
<1>6. \A b \in Callbacks, d \in Deposits : Matches(b, d) <=> Matches(b, d)'
  BY <1>1, <1>2, <1>5 DEF Matches
<1>7. cpc'[c] = "done" /\ \A b \in Callbacks \ {c} : cpc'[b] = cpc[b] /\ verdict'[b] = verdict[b]
  BY <1>1 DEF IInv, TypeOK
<1> HIDE DEF CommitConfirmation, ReleaseRow, Finish
<1>8. RowPhase'
  <2> SUFFICES ASSUME NEW d \in Deposits
               PROVE  /\ pc'[d] \in {"idle", "validate"} => txn'[d] = NoRow
                      /\ pc'[d] \in {"transfer", "awaiting"} => txn'[d] = PendingRow
                      /\ pc'[d] = "commit" =>
                             Named(d)' /\ txn'[d].db = "written" /\ txn'[d].status = "PROCESSING"
                      /\ pc'[d] = "done" => txn'[d] = NoRow \/ Durable(d)'
    BY DEF RowPhase, NoRow, PendingRow, Written
  <2>1. CASE rowLock[d] = c
    BY <2>1, <1>1, <1>2, <1>5 DEF IInv, DurableNamed, depositVars
  <2>2. CASE rowLock[d] # c
    BY <2>2, <1>1, <1>2, <1>5 DEF IInv, RowPhase, depositVars
  <2> QED BY <2>1, <2>2
<1>9. DurableNamed'
  <2> SUFFICES ASSUME NEW d \in Deposits, Durable(d)'
               PROVE  /\ pc'[d] = "done"
                      /\ Named(d)'
                      /\ txn'[d].status \in {"PROCESSING", "COMPLETED"}
                      /\ txn'[d].status = "COMPLETED" => bank'[txn'[d].ref] = "settled"
    BY DEF DurableNamed
  <2>1. bank[about[c]] = "settled"  BY <1>1 DEF IInv, CallbackPhase
  <2> QED BY <2>1, <1>1, <1>2, <1>5 DEF IInv, DurableNamed, depositVars
<1>10. AttemptsLeft' /\ NotAsked'  BY <1>1 DEF IInv, AttemptsLeft, NotAsked, depositVars
<1>11. CallbackPhase'
  <2>1. \A b \in Callbacks \ {c}, d \in Deposits : rowLock[d] = b => rowLock'[d] = b
    BY <1>3
  <2>2. about'[c] \in Transfers /\ bank'[about'[c]] = "settled"
    BY <1>1 DEF IInv, CallbackPhase
  <2>3. \A b \in Callbacks \ {c} :
          /\ cpc'[b] = "idle" => verdict'[b] = "none"
          /\ cpc'[b] # "idle" => about'[b] \in Transfers /\ bank'[about'[b]] = "settled"
          /\ cpc'[b] \in {"update", "commit"} => \E d \in Deposits : Matches(b, d)'
          /\ cpc'[b] = "commit" => \E d \in Deposits : Matches(b, d)' /\ rowLock'[d] = b
    BY <1>1, <1>6, <1>7, <2>1 DEF IInv, CallbackPhase
  <2> QED BY <1>7, <2>2, <2>3 DEF CallbackPhase
<1>12. RowHeld'
  <2> SUFFICES ASSUME NEW d \in Deposits, rowLock'[d] # Nobody
               PROVE  cpc'[rowLock'[d]] = "commit" /\ Matches(rowLock[d], d)'
    BY DEF RowHeld
  <2>1. rowLock'[d] = rowLock[d] /\ rowLock[d] \in Callbacks \ {c}
    BY <1>3 DEF IInv, TypeOK
  <2> QED BY <2>1, <1>1, <1>2, <1>5, <1>7 DEF IInv, RowHeld, Matches
<1>13. ConfirmationHolds'
  <2>1. \E d \in Deposits : Durable(d)' /\ txn'[d].ref = about'[c] /\ txn'[d].status = "COMPLETED"
    BY <1>1, <1>2, <1>5 DEF IInv, CallbackPhase, Matches
  <2>2. \A b \in Callbacks \ {c} : verdict'[b] \in {"already", "confirmed"} =>
          \E d \in Deposits : Durable(d)' /\ txn'[d].ref = about'[b] /\ txn'[d].status = "COMPLETED"
    BY <1>1, <1>2, <1>5, <1>7 DEF IInv, ConfirmationHolds
  <2> QED BY <2>1, <2>2 DEF ConfirmationHolds
<1> QED BY <1>4, <1>8, <1>9, <1>10, <1>11, <1>12, <1>13 DEF IInv

(* A rollback gives the row back as it was. *)
LEMMA AbortConfirmationPreserves ==
    ASSUME IInv, NEW c \in Callbacks, AbortConfirmation(c)
    PROVE  IInv'
<1> USE DEF AbortConfirmation, ReleaseRow, Finish
<1>1. /\ cpc[c] \notin {"idle", "done"}
      /\ cpc' = [cpc EXCEPT ![c] = "done"]
      /\ verdict' = [verdict EXCEPT ![c] = "aborted"]
      /\ UNCHANGED <<depositVars, txn, bank, about>>
  OBVIOUS
<1>2. \A d \in Deposits : rowLock'[d] = IF rowLock[d] = c THEN Nobody ELSE rowLock[d]
  OBVIOUS
<1>3. TypeOK'
  <2>1. rowLock' \in [Deposits -> Callbacks \cup {Nobody}]  BY DEF IInv, TypeOK
  <2> QED BY <1>1, <2>1 DEF depositVars, IInv, TypeOK, CallbackPhases, Verdicts
<1> HIDE DEF AbortConfirmation, ReleaseRow, Finish
<1>4. RowPhase' /\ DurableNamed' /\ AttemptsLeft' /\ NotAsked'  BY <1>1, DepositPartUnchanged
<1>5. /\ cpc'[c] = "done" /\ verdict'[c] = "aborted"
      /\ \A b \in Callbacks \ {c} : cpc'[b] = cpc[b] /\ verdict'[b] = verdict[b]
  BY <1>1 DEF IInv, TypeOK
<1>6. \A b \in Callbacks, d \in Deposits : Matches(b, d) <=> Matches(b, d)'
  BY <1>1 DEF Matches, Durable
<1>7. CallbackPhase'
  <2>1. \A b \in Callbacks \ {c}, d \in Deposits : rowLock[d] = b => rowLock'[d] = b
    BY <1>2
  <2>2. about'[c] \in Transfers /\ bank'[about'[c]] = "settled"
    BY <1>1 DEF IInv, CallbackPhase
  <2>3. \A b \in Callbacks \ {c} :
          /\ cpc'[b] = "idle" => verdict'[b] = "none"
          /\ cpc'[b] # "idle" => about'[b] \in Transfers /\ bank'[about'[b]] = "settled"
          /\ cpc'[b] \in {"update", "commit"} => \E d \in Deposits : Matches(b, d)'
          /\ cpc'[b] = "commit" => \E d \in Deposits : Matches(b, d)' /\ rowLock'[d] = b
    BY <1>1, <1>5, <1>6, <2>1 DEF IInv, CallbackPhase
  <2> QED BY <1>5, <2>2, <2>3 DEF CallbackPhase
<1>8. RowHeld'
  <2> SUFFICES ASSUME NEW d \in Deposits, rowLock'[d] # Nobody
               PROVE  cpc'[rowLock'[d]] = "commit" /\ Matches(rowLock[d], d)'
    BY DEF RowHeld
  <2>1. rowLock'[d] = rowLock[d] /\ rowLock[d] \in Callbacks \ {c}
    BY <1>2 DEF IInv, TypeOK
  <2> QED BY <2>1, <1>1, <1>5 DEF IInv, RowHeld, Matches, Durable
<1>9. ConfirmationHolds'
  <2>1. \A b \in Callbacks \ {c} : verdict'[b] \in {"already", "confirmed"} =>
          \E d \in Deposits : Durable(d)' /\ txn'[d].ref = about'[b] /\ txn'[d].status = "COMPLETED"
    BY <1>1, <1>5 DEF IInv, ConfirmationHolds, Durable
  <2> QED BY <1>5, <2>1 DEF ConfirmationHolds
<1> QED BY <1>3, <1>4, <1>7, <1>8, <1>9 DEF IInv

--------------------------------------------------------------------------------

(* Every step of a deposit, the bank or a callback preserves the invariant. *)
LEMMA NextPreserves == IInv /\ [Next]_vars => IInv'
<1> SUFFICES ASSUME IInv, [Next]_vars
             PROVE  IInv'
  OBVIOUS
<1>1. ASSUME NEW d \in Deposits, Arrive(d)  PROVE IInv'
  BY <1>1, ArrivePreserves
<1>2. ASSUME NEW d \in Deposits, Validate(d)  PROVE IInv'
  BY <1>2, ValidatePreserves
<1>3. ASSUME NEW d \in Deposits, InitiateTransfer(d)  PROVE IInv'
  BY <1>3, InitiateTransferPreserves
<1>4. ASSUME NEW d \in Deposits, RetryOrGiveUp(d)  PROVE IInv'
  BY <1>4, RetryOrGiveUpPreserves
<1>5. ASSUME NEW d \in Deposits, GatewayFails(d)  PROVE IInv'
  BY <1>5, FailPreserves DEF GatewayFails, Outcomes
<1>6. ASSUME NEW d \in Deposits, GatewayAnswers(d)  PROVE IInv'
  BY <1>6, GatewayAnswersPreserves
<1>7. ASSUME NEW d \in Deposits, Commit(d)  PROVE IInv'
  BY <1>7, CommitPreserves
<1>8. ASSUME NEW d \in Deposits, Abort(d)  PROVE IInv'
  BY <1>8, FailPreserves DEF Abort, Outcomes
<1>9. ASSUME NEW t \in Transfers, Receive(t) \/ Settle(t)  PROVE IInv'
  BY <1>9, BankPreserves
<1>10. ASSUME NEW c \in Callbacks, NEW t \in Transfers, CallBack(c, t)  PROVE IInv'
  BY <1>10, CallBackPreserves
<1>11. ASSUME NEW c \in Callbacks, GetByReference(c)  PROVE IInv'
  BY <1>11, GetByReferencePreserves
<1>12. ASSUME NEW c \in Callbacks, UpdateStatus(c)  PROVE IInv'
  BY <1>12, UpdateStatusPreserves
<1>13. ASSUME NEW c \in Callbacks, CommitConfirmation(c)  PROVE IInv'
  BY <1>13, CommitConfirmationPreserves
<1>14. ASSUME NEW c \in Callbacks, AbortConfirmation(c)  PROVE IInv'
  BY <1>14, AbortConfirmationPreserves
<1>15. CASE UNCHANGED vars
  BY <1>15 DEF vars, IInv, TypeOK, RowPhase, DurableNamed, AttemptsLeft, NotAsked,
         CallbackPhase, RowHeld, ConfirmationHolds, Named, Received, Durable, Matches, NoRow,
         PendingRow, Written
<1> QED
  BY <1>1, <1>2, <1>3, <1>4, <1>5, <1>6, <1>7, <1>8, <1>9, <1>10, <1>11, <1>12, <1>13,
     <1>14, <1>15
     DEF Next, DepositStep, CallbackStep, Terminating

(* The invariant from which the properties of this module follow: what a     *)
(* deposit has written fits the place its handler is at, and a callback past  *)
(* its lookup is about a durable row whose transfer has settled.              *)
THEOREM Inductive == Spec => []IInv
BY InitEstablishes, NextPreserves, PTL DEF Spec

(* Every variable keeps its type; no more than MaxAttempts transfers.         *)
THEOREM TypeCorrect == Spec => []TypeOK
<1>1. IInv => TypeOK  BY DEF IInv
<1> QED BY <1>1, Inductive, PTL

(* deposit_funds stores the id of its own transfer, and confirm_deposit       *)
(* completes the deposit only when that transfer has settled.                 *)
THEOREM CreditsConfirmed == Spec => []NeverCreditedUnconfirmed
<1>1. IInv => NeverCreditedUnconfirmed
  BY DEF IInv, DurableNamed, Named, NeverCreditedUnconfirmed
<1> QED BY <1>1, Inductive, PTL

(* What confirm_deposit has reported stays true, whatever callbacks race.     *)
THEOREM ConfirmationsHold == Spec => []ConfirmationHolds
<1>1. IInv => ConfirmationHolds  BY DEF IInv
<1> QED BY <1>1, Inductive, PTL

(* A step of one deposit leaves the durable rows alone. *)
LEMMA DepositStepKeepsDurable ==
    ASSUME IInv, NEW e \in Deposits, Arrive(e) \/ DepositStep(e) \/ Abort(e),
           NEW d \in Deposits, Durable(d)
    PROVE  txn'[d] = txn[d]
<1>1. pc[e] # "done"
  BY DEF Arrive, DepositStep, Abort, Validate, InitiateTransfer, RetryOrGiveUp, GatewayFails,
         GatewayAnswers, Commit
<1>2. d # e  BY <1>1, NotDurable
<1>3. \/ UNCHANGED txn
      \/ \E row : txn' = [txn EXCEPT ![e] = row]
      \/ txn' = [txn EXCEPT ![e].db = "committed"]
  BY DEF Arrive, DepositStep, Abort, Validate, InitiateTransfer, RetryOrGiveUp, GatewayFails,
         GatewayAnswers, Commit, Fail
<1> QED BY <1>2, <1>3 DEF IInv, TypeOK

(* The rows a confirmation commits were PROCESSING or COMPLETED, and keep     *)
(* their references.                                                          *)
LEMMA CompleteStep == IInv /\ [Next]_vars =>
    \A d \in Deposits : Durable(d) =>
        /\ Durable(d)'
        /\ txn[d].ref' = txn[d].ref
        /\ txn[d].status' # txn[d].status =>
              txn[d].status = "PROCESSING" /\ txn[d].status' = "COMPLETED"
<1> SUFFICES ASSUME IInv, [Next]_vars, NEW d \in Deposits, Durable(d)
             PROVE  /\ Durable(d)'
                    /\ txn'[d].ref = txn[d].ref
                    /\ txn'[d].status # txn[d].status =>
                          txn[d].status = "PROCESSING" /\ txn'[d].status = "COMPLETED"
  OBVIOUS
<1>1. CASE \E e \in Deposits : Arrive(e) \/ DepositStep(e) \/ Abort(e)
  BY <1>1, DepositStepKeepsDurable DEF Durable
<1>2. CASE \E t \in Transfers : Receive(t) \/ Settle(t) \/ (\E c \in Callbacks : CallBack(c, t))
  BY <1>2 DEF Receive, Settle, CallBack, Durable
<1>3. CASE \E c \in Callbacks : GetByReference(c) \/ UpdateStatus(c) \/ AbortConfirmation(c)
  BY <1>3 DEF GetByReference, UpdateStatus, AbortConfirmation, Durable
<1>4. ASSUME NEW c \in Callbacks, CommitConfirmation(c)
      PROVE  /\ txn'[d].db = txn[d].db /\ txn'[d].ref = txn[d].ref
             /\ txn'[d].status \in {txn[d].status, "COMPLETED"}
  BY <1>4 DEF IInv, TypeOK, RowType, CommitConfirmation
<1>5. CASE \E c \in Callbacks : CommitConfirmation(c)
  BY <1>4, <1>5 DEF IInv, DurableNamed, Durable
<1>6. CASE UNCHANGED vars  BY <1>6 DEF vars, Durable
<1> QED BY <1>1, <1>2, <1>3, <1>5, <1>6 DEF Next, CallbackStep, Terminating

(* update_status in confirm_deposit, and nothing else, changes a durable      *)
(* deposit, and only from PROCESSING to COMPLETED.                            *)
THEOREM OnlyCompletes == Spec => DurableDepositOnlyCompletes
BY CompleteStep, Inductive, PTL DEF Spec, DurableDepositOnlyCompletes

--------------------------------------------------------------------------------
(* The durable row of a deposit, as the owner sees it. *)
LifeOf == [d \in Deposits |-> IF Durable(d)
                              THEN [status |-> txn[d].status, ref |-> txn[d].ref]
                              ELSE NoRow]

(* The transfers the bank has, whatever is on its way to it. *)
Bank == [t \in Transfers |-> IF Received(t) THEN bank[t] ELSE "none"]

(* Until its commit a deposit shows its owner nothing. *)
LEMMA HandlerUnseen ==
    ASSUME IInv, NEW e \in Deposits, Arrive(e) \/ DepositStep(e) \/ Abort(e), ~Commit(e)
    PROVE  LifeOf' = LifeOf
<1>1. ~Durable(e)
  BY NotDurable DEF Arrive, DepositStep, Abort, Validate, InitiateTransfer, RetryOrGiveUp,
     GatewayFails, GatewayAnswers, Commit
<1>2. \/ UNCHANGED txn
      \/ \E row : row.db # "committed" /\ txn' = [txn EXCEPT ![e] = row]
  BY ~Commit(e) DEF Arrive, DepositStep, Abort, Validate, InitiateTransfer, RetryOrGiveUp,
     GatewayFails, GatewayAnswers, Fail, NoRow, Written
<1>3. \A d \in Deposits : Durable(d)' <=> Durable(d)
  BY <1>1, <1>2 DEF IInv, TypeOK, Durable
<1>4. \A d \in Deposits : Durable(d) => txn'[d] = txn[d]
  BY DepositStepKeepsDurable
<1> QED BY <1>3, <1>4 DEF LifeOf

(* A commit opens the deposit with the transfer that was answered. *)
LEMMA CommitOpens ==
    ASSUME IInv, NEW e \in Deposits, Commit(e)
    PROVE  Life!Open(e, txn[e].ref) /\ txn[e].ref \in Transfers
<1>1. Named(e) /\ txn[e].status = "PROCESSING" /\ ~Durable(e)
  BY DEF IInv, RowPhase, Commit, Durable
<1>2. txn' = [txn EXCEPT ![e].db = "committed"] /\ txn[e] \in RowType
  BY DEF Commit, IInv, TypeOK
<1>3. \A d \in Deposits \ {e} : txn'[d] = txn[d]  BY <1>2 DEF IInv, TypeOK
<1>4. txn'[e].db = "committed" /\ txn'[e].status = "PROCESSING" /\ txn'[e].ref = txn[e].ref
  BY <1>1, <1>2 DEF IInv, TypeOK, RowType
<1>5. LifeOf' = [LifeOf EXCEPT ![e] = [status |-> "PROCESSING", ref |-> txn[e].ref]]
  BY <1>3, <1>4 DEF LifeOf, Durable
<1>6. LifeOf[e] = NoRow  BY <1>1 DEF LifeOf
<1>7. Bank[txn[e].ref] # "none" /\ Bank' = Bank
  BY <1>1 DEF Bank, Named, Received, Commit
<1> QED BY <1>1, <1>5, <1>6, <1>7 DEF Life!Open, LifeOf, Bank, Named

(* An attempt only puts a request on its way: the bank has what it had. *)
LEMMA InitiateUnseen ==
    ASSUME IInv, NEW e \in Deposits, InitiateTransfer(e)
    PROVE  Bank' = Bank
<1> DEFINE new == [deposit |-> e, attempt |-> attempt[e] + 1]
<1>1. attempt[e] \in Nat /\ attempt[e] < MaxAttempts
  BY DEF IInv, TypeOK, AttemptsLeft, InitiateTransfer
<1>2. new \in Transfers /\ new.attempt > attempt[new.deposit]  BY <1>1 DEF Transfers
<1>3. bank[new] = "none"  BY <1>2 DEF IInv, NotAsked
<1>4. bank' = [bank EXCEPT ![new] = "sent"]  BY DEF InitiateTransfer
<1> HIDE DEF new
<1>5. \A t \in Transfers : bank'[t] = IF t = new THEN "sent" ELSE bank[t]
  BY <1>2, <1>4 DEF IInv, TypeOK
<1> QED BY <1>3, <1>5 DEF Bank, Received

(* A request that arrives makes a transfer, and one that settles was made. *)
LEMMA BankStep ==
    ASSUME IInv, NEW t \in Transfers, Receive(t) \/ Settle(t)
    PROVE  /\ LifeOf' = LifeOf
           /\ \/ Bank[t] = "none" /\ Bank' = [Bank EXCEPT ![t] = "initiated"]
              \/ Bank[t] = "initiated" /\ Bank' = [Bank EXCEPT ![t] = "settled"]
<1>1. LifeOf' = LifeOf  BY DEF Receive, Settle, LifeOf, Durable
<1>2. CASE Receive(t)
  <2>1. \A u \in Transfers : bank'[u] = IF u = t THEN "initiated" ELSE bank[u]
    BY <1>2 DEF Receive, IInv, TypeOK
  <2>2. Bank[t] = "none"  BY <1>2 DEF Receive, Bank, Received
  <2>3. Bank' = [Bank EXCEPT ![t] = "initiated"]  BY <2>1 DEF Bank, Received
  <2> QED BY <1>1, <2>2, <2>3
<1>3. CASE Settle(t)
  <2>1. \A u \in Transfers : bank'[u] = IF u = t THEN "settled" ELSE bank[u]
    BY <1>3 DEF Settle, IInv, TypeOK
  <2>2. Bank[t] = "initiated"  BY <1>3 DEF Settle, Bank, Received
  <2>3. Bank' = [Bank EXCEPT ![t] = "settled"]  BY <2>1 DEF Bank, Received
  <2> QED BY <1>1, <2>2, <2>3
<1> QED BY <1>2, <1>3

(* A confirmation completes the one deposit it is about, or changes nothing. *)
LEMMA ConfirmationCompletes ==
    ASSUME IInv, NEW c \in Callbacks, CommitConfirmation(c)
    PROVE  Bank' = Bank /\ (LifeOf' = LifeOf \/ \E d \in Deposits : Life!Complete(d))
<1>0. Bank' = Bank  BY DEF CommitConfirmation, Bank, Received
<1>1. PICK d \in Deposits : Matches(c, d) /\ rowLock[d] = c
  BY DEF IInv, CallbackPhase, CommitConfirmation
<1>2. \A e \in Deposits : rowLock[e] = c => e = d
  BY <1>1 DEF IInv, RowHeld, Matches, DurableNamed, Named
<1>3. \A e \in Deposits \ {d} : txn'[e] = txn[e]  BY <1>2 DEF CommitConfirmation
<1>4. txn'[d] = [txn[d] EXCEPT !.status = "COMPLETED"]  BY <1>1 DEF CommitConfirmation
<1>5. Durable(d) /\ txn[d] \in RowType /\ txn[d].status \in {"PROCESSING", "COMPLETED"}
      /\ bank[txn[d].ref] = "settled"
  BY <1>1 DEF Matches, IInv, TypeOK, DurableNamed, CallbackPhase, CommitConfirmation
<1>6. txn'[d].db = "committed" /\ txn'[d].status = "COMPLETED" /\ txn'[d].ref = txn[d].ref
  BY <1>4, <1>5 DEF RowType, Durable
<1>7. LifeOf' = [LifeOf EXCEPT ![d] = [status |-> "COMPLETED", ref |-> txn[d].ref]]
  BY <1>3, <1>6 DEF LifeOf, Durable
<1>8. LifeOf[d] = [status |-> txn[d].status, ref |-> txn[d].ref]  BY <1>5 DEF LifeOf
<1>9. CASE txn[d].status = "COMPLETED"  BY <1>0, <1>7, <1>8, <1>9 DEF LifeOf
<1>10. CASE txn[d].status = "PROCESSING"
  <2>1. [LifeOf[d] EXCEPT !.status = "COMPLETED"] = [status |-> "COMPLETED", ref |-> txn[d].ref]
    BY <1>8
  <2>2. LifeOf' = [LifeOf EXCEPT ![d].status = "COMPLETED"]  BY <1>7, <2>1
  <2>3. LifeOf[d] # NoRow  BY <1>8 DEF NoRow
  <2>4. txn[d].ref \in Transfers /\ Bank[txn[d].ref] = "settled"
    BY <1>1, <1>5 DEF IInv, DurableNamed, Named, Bank, Received
  <2> QED BY <1>0, <1>8, <1>10, <2>2, <2>3, <2>4 DEF Life!Complete, LifeOf, Bank
<1> QED BY <1>5, <1>9, <1>10

(* Every step is one of the abstract deposit's, or leaves it alone. *)
LEMMA LifeStep == IInv /\ [Next]_vars => [Life!Next]_(Life!vars)
<1> SUFFICES ASSUME IInv, [Next]_vars
             PROVE  Life!Next \/ (LifeOf' = LifeOf /\ Bank' = Bank)
  BY DEF Life!vars, LifeOf, Bank
<1>1. ASSUME NEW e \in Deposits, Commit(e)  PROVE Life!Next
  <2>1. Life!Open(e, txn[e].ref) /\ txn[e].ref \in Transfers  BY <1>1, CommitOpens
  <2> QED BY <2>1 DEF Life!Next, Life!Open
<1>2. ASSUME NEW e \in Deposits, InitiateTransfer(e)
      PROVE  LifeOf' = LifeOf /\ Bank' = Bank
  BY <1>2, HandlerUnseen, InitiateUnseen DEF DepositStep, InitiateTransfer, Commit
<1>3. ASSUME NEW e \in Deposits, Arrive(e) \/ DepositStep(e) \/ Abort(e),
             ~Commit(e), ~InitiateTransfer(e)
      PROVE  LifeOf' = LifeOf /\ Bank' = Bank
  <2>1. UNCHANGED bank
    BY <1>3 DEF Arrive, DepositStep, Abort, Validate, RetryOrGiveUp, GatewayFails,
       GatewayAnswers, Fail
  <2> QED BY <1>3, <2>1, HandlerUnseen DEF Bank, Received
<1>4. ASSUME NEW t \in Transfers, Receive(t) \/ Settle(t)  PROVE Life!Next
  BY <1>4, BankStep DEF Life!Next, Life!Initiate, Life!Settle, LifeOf, Bank
<1>5. ASSUME NEW c \in Callbacks, CommitConfirmation(c)
      PROVE  Life!Next \/ (LifeOf' = LifeOf /\ Bank' = Bank)
  BY <1>5, ConfirmationCompletes DEF Life!Next
<1>6. ASSUME NEW c \in Callbacks,
             \/ \E t \in Transfers : CallBack(c, t)
             \/ GetByReference(c) \/ UpdateStatus(c) \/ AbortConfirmation(c)
      PROVE  LifeOf' = LifeOf /\ Bank' = Bank
  BY <1>6 DEF CallBack, GetByReference, UpdateStatus, AbortConfirmation, LifeOf, Durable,
     Bank, Received
<1>7. CASE UNCHANGED vars  BY <1>7 DEF vars, LifeOf, Durable, Bank, Received
<1> QED BY <1>1, <1>2, <1>3, <1>4, <1>5, <1>6, <1>7 DEF Next, CallbackStep, DepositStep, Terminating

(* deposit_funds, confirm_deposit and the bank together behave as DepositLife: *)
(* no retry, rollback or race of callbacks shows in a deposit's life.          *)
THEOREM Refinement == Spec => ImplementsDepositLife
<1>1. Init => Life!Init  BY DEF Init, Life!Init, Durable, NoRow, Received
<1> QED BY <1>1, Inductive, LifeStep, PTL DEF Spec, ImplementsDepositLife, Life!Spec
================================================================================
