-------------------------------- MODULE Ledger --------------------------------
(***************************************************************************)
(* The double-entry ledger as its repositories implement it on PostgreSQL  *)
(* under READ COMMITTED.  A session is one request's unit of work          *)
(* (get_db): it takes the row lock of the account it debits                *)
(* (get_balance_for_update), derives the balance from two separate SUM     *)
(* queries (get_balance), compares it with the amount, inserts one         *)
(* LedgerEntry (create_double_entry) and commits, or rolls back at the     *)
(* first exception.                                                        *)
(*                                                                         *)
(* The rows of ledger_entries are append-only, so the committed table is   *)
(* represented by what the two SUM queries return for each account.  A     *)
(* session inserts at most one entry, as its last statement, so what it    *)
(* has written and not committed is its op once it is past "post".         *)
(***************************************************************************)
EXTENDS Integers

CONSTANTS Accounts,      \* the rows of the accounts table
          Reserve,       \* those of account_type RESERVE
          Unknown,       \* an account id with no row
          Sessions,      \* the units of work that run concurrently
          Operations,    \* the calls the sessions make
          Nobody,        \* "no session holds the row FOR UPDATE"
          OpenCredits,   \* SUM(amount) of the entries crediting an account and
          OpenDebits     \* of those debiting it, before the first session

(***************************************************************************)
(* "debit" takes the documented path lock - check - post, "credit" posts   *)
(* without the lock (its source is a RESERVE account), "read" only derives *)
(* a balance.  An amount is any integer and an account id may be Unknown:  *)
(* the guards of the code have to deal with them.                          *)
(***************************************************************************)
AccountIds == Accounts \cup {Unknown}

Calls ==
         [kind : {"debit"},  src : AccountIds, dst : AccountIds, amt : Int]
    \cup [kind : {"credit"}, src : Reserve,    dst : AccountIds, amt : Int]
    \cup [kind : {"read"},   src : Accounts,   dst : Accounts,   amt : {0}]

ASSUME AccountsAssumption == Reserve \subseteq Accounts /\ Unknown \notin Accounts
ASSUME SessionsAssumption == Nobody \notin Sessions
ASSUME OperationsAssumption == Operations \subseteq Calls
ASSUME OpeningAssumption ==
    /\ OpenCredits \in [Accounts -> Nat]
    /\ OpenDebits \in [Accounts -> Nat]
    /\ \A a \in Accounts \ Reserve : OpenCredits[a] >= OpenDebits[a]

VARIABLES pc,          \* where each session is
          op,          \* what it was called to do
          seen,        \* the two sums it has read
          forUpdate,   \* account row -> the session holding it FOR UPDATE
          keyShare,    \* account row -> the sessions holding it FOR KEY SHARE
          credits,     \* committed SUM of the entries crediting an account
          debits       \* committed SUM of the entries debiting it

vars == <<pc, op, seen, forUpdate, keyShare, credits, debits>>

Phases == {"idle", "lock", "firstSum", "secondSum", "check", "post", "srcKey",
           "dstKey", "commit", "committed", "rolledBack"}

Ended == {"committed", "rolledBack"}

NothingSeen == [credits |-> 0, debits |-> 0]

Balance(a) == credits[a] - debits[a]

SeenBalance(s) == seen[s].credits - seen[s].debits

Init ==
    /\ pc = [s \in Sessions |-> "idle"]
    /\ op \in [Sessions -> Operations]
    /\ seen = [s \in Sessions |-> NothingSeen]
    /\ forUpdate = [a \in Accounts |-> Nobody]
    /\ keyShare = [a \in Accounts |-> {}]
    /\ credits = OpenCredits
    /\ debits = OpenDebits

--------------------------------------------------------------------------------
(* A definition named as another one, with a suffix telling what it lacks   *)
(* (SelectWithoutLock, CommitReversed, ...), is a broken variant of the one  *)
(* that follows it: some property below must refute it.                      *)

(* Row locks.  SELECT ... FOR UPDATE conflicts with the FOR KEY SHARE lock   *)
(* that the foreign-key check of an INSERT takes on the row it refers to.    *)

Goto(s, phase) == pc' = [pc EXCEPT ![s] = phase]

(* The sessions that keep s from taking the next lock it asks for. *)
WaitsFor(s) ==
    CASE pc[s] = "lock" /\ op[s].src \in Accounts ->
             (({forUpdate[op[s].src]} \ {Nobody}) \cup keyShare[op[s].src]) \ {s}
      [] pc[s] = "srcKey" /\ op[s].src \in Accounts ->
             {forUpdate[op[s].src]} \ {Nobody, s}
      [] pc[s] = "dstKey" /\ op[s].dst \in Accounts ->
             {forUpdate[op[s].dst]} \ {Nobody, s}
      [] OTHER -> {}

ReleaseLocks(s) ==
    /\ forUpdate' = [a \in Accounts |-> IF forUpdate[a] = s THEN Nobody ELSE forUpdate[a]]
    /\ keyShare' = [a \in Accounts |-> keyShare[a] \ {s}]

RollBackKeepingLocks(s) ==
    /\ Goto(s, "rolledBack")
    /\ seen' = [seen EXCEPT ![s] = NothingSeen]
    /\ UNCHANGED <<op, forUpdate, keyShare, credits, debits>>

(* get_db's except and finally branches: whatever the session wrote is gone. *)
RollBack(s) ==
    /\ Goto(s, "rolledBack")
    /\ ReleaseLocks(s)
    /\ seen' = [seen EXCEPT ![s] = NothingSeen]
    /\ UNCHANGED <<op, credits, debits>>

--------------------------------------------------------------------------------
Begin(s) ==
    /\ pc[s] = "idle"
    /\ Goto(s, CASE op[s].kind = "debit"  -> "lock"
                 [] op[s].kind = "credit" -> "post"
                 [] op[s].kind = "read"   -> "firstSum")
    /\ UNCHANGED <<op, seen, forUpdate, keyShare, credits, debits>>

SelectWithoutLock(s) ==
    /\ pc[s] = "lock"
    /\ op[s].src \in Accounts
    /\ Goto(s, "firstSum")
    /\ UNCHANGED <<op, seen, forUpdate, keyShare, credits, debits>>

(* get_balance_for_update: lock the row, or raise AccountNotFoundError. *)
SelectForUpdate(s) ==
    /\ pc[s] = "lock"
    /\ op[s].src \in Accounts
    /\ WaitsFor(s) = {}
    /\ forUpdate' = [forUpdate EXCEPT ![op[s].src] = s]
    /\ Goto(s, "firstSum")
    /\ UNCHANGED <<op, seen, keyShare, credits, debits>>

AccountNotFound(s) ==
    /\ pc[s] = "lock"
    /\ op[s].src \notin Accounts
    /\ RollBack(s)

GetBalanceDebitsFirst(s) ==
    \/ /\ pc[s] = "firstSum"
       /\ seen' = [seen EXCEPT ![s].debits = debits[op[s].src]]
       /\ Goto(s, "secondSum")
       /\ UNCHANGED <<op, forUpdate, keyShare, credits, debits>>
    \/ /\ pc[s] = "secondSum"
       /\ seen' = [seen EXCEPT ![s].credits = credits[op[s].src]]
       /\ Goto(s, IF op[s].kind = "read" THEN "commit" ELSE "check")
       /\ UNCHANGED <<op, forUpdate, keyShare, credits, debits>>

(* get_balance: two statements, each with its own snapshot, credits first. *)
GetBalance(s) ==
    \/ /\ pc[s] = "firstSum"
       /\ seen' = [seen EXCEPT ![s].credits = credits[op[s].src]]
       /\ Goto(s, "secondSum")
       /\ UNCHANGED <<op, forUpdate, keyShare, credits, debits>>
    \/ /\ pc[s] = "secondSum"
       /\ seen' = [seen EXCEPT ![s].debits = debits[op[s].src]]
       /\ Goto(s, IF op[s].kind = "read" THEN "commit" ELSE "check")
       /\ UNCHANGED <<op, forUpdate, keyShare, credits, debits>>

(* The caller's check: InsufficientFundsError, or go on to post the entry. *)
CheckFunds(s) ==
    /\ pc[s] = "check"
    /\ IF SeenBalance(s) < op[s].amt
       THEN RollBack(s)
       ELSE Goto(s, "post") /\ UNCHANGED <<op, seen, forUpdate, keyShare, credits, debits>>

BalancedAnySign(c) == c.src # c.dst

(* create_double_entry: the two LedgerImbalanceError guards, then the INSERT. *)
Balanced(c) == c.amt > 0 /\ c.src # c.dst

CreateDoubleEntry(s) ==
    /\ pc[s] = "post"
    /\ IF Balanced(op[s])
       THEN Goto(s, "srcKey") /\ UNCHANGED <<op, seen, forUpdate, keyShare, credits, debits>>
       ELSE RollBack(s)

ReferenceAccountNoWait(s, phase, a, next) ==
    /\ pc[s] = phase
    /\ IF a \in Accounts
       THEN /\ keyShare' = [keyShare EXCEPT ![a] = @ \cup {s}]
            /\ Goto(s, next)
            /\ UNCHANGED <<op, seen, forUpdate, credits, debits>>
       ELSE RollBack(s)

(* The foreign-key checks of the INSERT, one account after the other: wait    *)
(* for a FOR UPDATE holder, then share the row's key; no row, IntegrityError. *)
ReferenceAccount(s, phase, a, next) ==
    /\ pc[s] = phase
    /\ IF a \in Accounts
       THEN /\ WaitsFor(s) = {}
            /\ keyShare' = [keyShare EXCEPT ![a] = @ \cup {s}]
            /\ Goto(s, next)
            /\ UNCHANGED <<op, seen, forUpdate, credits, debits>>
       ELSE RollBack(s)

ReferenceDebited(s)  == ReferenceAccount(s, "srcKey", op[s].src, "dstKey")
ReferenceCredited(s) == ReferenceAccount(s, "dstKey", op[s].dst, "commit")

CommitReversed(s) ==
    /\ pc[s] = "commit"
    /\ IF op[s].kind = "read"
       THEN UNCHANGED <<credits, debits>>
       ELSE /\ credits' = [credits EXCEPT ![op[s].src] = @ + op[s].amt]
            /\ debits' = [debits EXCEPT ![op[s].dst] = @ + op[s].amt]
    /\ Goto(s, "committed")
    /\ ReleaseLocks(s)
    /\ seen' = [seen EXCEPT ![s] = NothingSeen]
    /\ UNCHANGED op

(* The handler returned: get_db commits, which publishes the entry. *)
Commit(s) ==
    /\ pc[s] = "commit"
    /\ IF op[s].kind = "read"
       THEN UNCHANGED <<credits, debits>>
       ELSE /\ credits' = [credits EXCEPT ![op[s].dst] = @ + op[s].amt]
            /\ debits' = [debits EXCEPT ![op[s].src] = @ + op[s].amt]
    /\ Goto(s, "committed")
    /\ ReleaseLocks(s)
    /\ seen' = [seen EXCEPT ![s] = NothingSeen]
    /\ UNCHANGED op

(* Any other exception in the handler, a cancelled request, a lost connection *)
(* or a crash of the process: at any await, with the same effect.             *)
Abort(s) ==
    /\ pc[s] \notin Ended \cup {"idle"}
    /\ RollBack(s)

(* PostgreSQL's deadlock detector: the session aborted is one that waits for  *)
(* itself, i.e. belongs to every set closed under WaitsFor that follows it.   *)
OnWaitCycle(s) ==
    \A C \in SUBSET Sessions :
        (WaitsFor(s) \subseteq C /\ \A t \in C : WaitsFor(t) \subseteq C) => s \in C

DeadlockVictim(s) ==
    /\ OnWaitCycle(s)
    /\ RollBack(s)

Step(s) ==
    \/ SelectForUpdate(s)
    \/ AccountNotFound(s)
    \/ GetBalance(s)
    \/ CheckFunds(s)
    \/ CreateDoubleEntry(s)
    \/ ReferenceDebited(s)
    \/ ReferenceCredited(s)
    \/ Commit(s)

(* Every session has ended: the database is left as it is. *)
Terminating ==
    /\ \A s \in Sessions : pc[s] \in Ended
    /\ UNCHANGED vars

Next ==
    \/ \E s \in Sessions : Begin(s) \/ Step(s) \/ Abort(s) \/ DeadlockVictim(s)
    \/ Terminating

(* A handler that runs keeps running and the detector runs; nothing obliges a *)
(* request to arrive or to fail.                                              *)
Fairness == \A s \in Sessions : WF_vars(Step(s)) /\ WF_vars(DeadlockVictim(s))

Spec == Init /\ [][Next]_vars /\ Fairness

--------------------------------------------------------------------------------
TypeOK ==
    /\ pc \in [Sessions -> Phases]
    /\ op \in [Sessions -> Operations]
    /\ seen \in [Sessions -> [credits : Nat, debits : Nat]]
    /\ forUpdate \in [Accounts -> Sessions \cup {Nobody}]
    /\ keyShare \in [Accounts -> SUBSET Sessions]
    /\ credits \in [Accounts -> Nat]
    /\ debits \in [Accounts -> Nat]

(* No interleaving of debits, credits, rollbacks and retries overdraws a      *)
(* customer account (account_repository.py:69-71, "preventing overdraft").    *)
NoOverdraft == \A a \in Accounts \ Reserve : Balance(a) >= 0

(* From the second SUM of get_balance until the end of the session, the       *)
(* balance a session derived under the row lock is the committed balance,     *)
(* although nothing locks the ledger_entries rows it was derived from.        *)
LockedBalanceExact ==
    \A s \in Sessions :
        (op[s].kind = "debit" /\ pc[s] \in {"check", "post", "srcKey", "dstKey", "commit"})
            => SeenBalance(s) = Balance(op[s].src)

(* get_balance without the lock is not a snapshot, but as it sums the credits *)
(* first it never reports more than the account really holds at its end.      *)
ReadNeverOverstates ==
    [][\A s \in Sessions :
          (pc[s] = "secondSum" /\ pc'[s] \in {"check", "commit"})
              => SeenBalance(s)' <= Balance(op[s].src)']_vars

(* A session that has begun ends, whatever the others do: row locks and       *)
(* key-share locks may wait for each other, and the detector breaks the tie.  *)
EverySessionEnds ==
    \A s \in Sessions : pc[s] # "idle" ~> pc[s] \in Ended

(* The repositories implement the abstract book: every commit is one funded   *)
(* transfer of the book, and every other step leaves the book alone.          *)
Book == INSTANCE AccountBook
            WITH Amounts <- {c.amt : c \in Operations},
                 Opening <- [a \in Accounts |-> OpenCredits[a] - OpenDebits[a]],
                 balance <- [a \in Accounts |-> Balance(a)]

ImplementsAccountBook == Book!Spec
================================================================================
