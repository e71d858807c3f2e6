----------------------------- MODULE LedgerProofs -----------------------------
(***************************************************************************)
(* What Ledger guarantees for any accounts, sessions, calls and opening    *)
(* sums: type correctness, no overdraft, exactness of the balance derived  *)
(* under the row lock, and that the repositories implement AccountBook.    *)
(*                                                                         *)
(* The argument: while a session holds an account FOR UPDATE no other one  *)
(* can hold its key share, and an entry is committed only by a session     *)
(* that shares the keys of both its accounts.  So the sums read under the  *)
(* lock stay the committed ones, and the check made on them is still true  *)
(* at the commit.                                                          *)
(***************************************************************************)
EXTENDS Ledger, TLAPS

AfterFirstSum  == {"secondSum", "check", "post", "srcKey", "dstKey", "commit"}
AfterSecondSum == {"check", "post", "srcKey", "dstKey", "commit"}
AfterCheck     == {"post", "srcKey", "dstKey", "commit"}
AfterInsert    == {"srcKey", "dstKey", "commit"}

Debiting(s) == op[s].kind = "debit"
Posting(s)  == op[s].kind # "read"

(* A debit holds its source's row lock from the SELECT to its end. *)
LockHeld ==
    \A s \in Sessions : (Debiting(s) /\ pc[s] \in {"firstSum"} \cup AfterFirstSum)
        => op[s].src \in Accounts /\ forUpdate[op[s].src] = s

(* The foreign-key checks of an INSERT have left their locks behind. *)
KeysHeld ==
    \A s \in Sessions : Posting(s) =>
        /\ pc[s] \in {"dstKey", "commit"} =>
               op[s].src \in Accounts /\ s \in keyShare[op[s].src]
        /\ pc[s] = "commit" =>
               op[s].dst \in Accounts /\ s \in keyShare[op[s].dst]

(* FOR UPDATE and another session's FOR KEY SHARE exclude each other. *)
LocksConflict ==
    \A a \in Accounts : forUpdate[a] # Nobody => keyShare[a] \subseteq {forUpdate[a]}

SeenExact ==
    \A s \in Sessions : Debiting(s) =>
        /\ pc[s] \in AfterFirstSum => seen[s].credits = credits[op[s].src]
        /\ pc[s] \in AfterSecondSum => seen[s].debits = debits[op[s].src]

(* Without a lock the credits read first can only have grown since. *)
SeenNotAhead ==
    \A s \in Sessions : pc[s] = "secondSum" =>
        op[s].src \in Accounts /\ seen[s].credits <= credits[op[s].src]

ReadersRead ==
    \A s \in Sessions : pc[s] = "firstSum" => op[s].src \in Accounts

Funded ==
    \A s \in Sessions : (Debiting(s) /\ pc[s] \in AfterCheck) => SeenBalance(s) >= op[s].amt

Postable ==
    \A s \in Sessions : (Posting(s) /\ pc[s] \in AfterInsert) => Balanced(op[s])

(* What is inductive: the locks held, the sums seen and checked under them,   *)
(* and, as a credit never went through the check, that balances of customers  *)
(* are not negative.                                                          *)
IInv ==
    /\ TypeOK
    /\ LockHeld
    /\ KeysHeld
    /\ LocksConflict
    /\ SeenExact
    /\ SeenNotAhead
    /\ ReadersRead
    /\ Funded
    /\ Postable
    /\ NoOverdraft

USE AccountsAssumption, SessionsAssumption, OperationsAssumption, OpeningAssumption

(* What the program is called with: an id for the destination, a RESERVE      *)
(* source for credits, a row for reads.                                       *)
LEMMA CallFields ==
    ASSUME TypeOK, NEW s \in Sessions
    PROVE  /\ op[s].kind \in {"debit", "credit", "read"}
           /\ op[s].amt \in Int
           /\ op[s].kind = "credit" => op[s].src \in Reserve
           /\ op[s].kind = "read" => op[s].src \in Accounts
BY DEF TypeOK, Calls, AccountIds

(* A database without sessions satisfies the inductive invariant.             *)
LEMMA InitEstablishes == Init => IInv
BY DEF Init, IInv, TypeOK, LockHeld, KeysHeld, LocksConflict, SeenExact, SeenNotAhead,
       ReadersRead, Funded, Postable, NoOverdraft, Phases, NothingSeen, AfterFirstSum,
       AfterSecondSum, AfterCheck, AfterInsert, Balance

(* A rollback gives back locks and forgets sums; nobody else can tell. *)
LEMMA RollBackPreserves ==
    ASSUME IInv, NEW s \in Sessions, RollBack(s)
    PROVE  IInv'
<1> USE DEF RollBack, Goto, ReleaseLocks, NothingSeen, AfterFirstSum, AfterSecondSum,
            AfterCheck, AfterInsert, Debiting, Posting
<1>1. TypeOK'  BY DEF IInv, TypeOK, Phases
<1>2. LockHeld'  BY DEF IInv, TypeOK, LockHeld
<1>3. KeysHeld'  BY DEF IInv, TypeOK, KeysHeld
<1>4. LocksConflict'  BY DEF IInv, TypeOK, LocksConflict
<1>5. SeenExact'  BY DEF IInv, TypeOK, SeenExact
<1>6. SeenNotAhead' /\ ReadersRead'  BY DEF IInv, TypeOK, SeenNotAhead, ReadersRead
<1>7. Funded'  BY DEF IInv, TypeOK, Funded, SeenBalance
<1>8. Postable'  BY DEF IInv, TypeOK, Postable, Balanced
<1>9. NoOverdraft'  BY DEF IInv, NoOverdraft, Balance
<1> QED BY <1>1, <1>2, <1>3, <1>4, <1>5, <1>6, <1>7, <1>8, <1>9 DEF IInv

(* A session that begins has no lock and has seen no sum.                     *)
LEMMA BeginPreserves ==
    ASSUME IInv, NEW s \in Sessions, Begin(s)
    PROVE  IInv'
<1> USE CallFields DEF Begin, Goto, AfterFirstSum, AfterSecondSum, AfterCheck, AfterInsert,
            Debiting, Posting
<1>0. TypeOK  BY DEF IInv
<1>1. TypeOK'  BY DEF IInv, TypeOK, Phases
<1>2. LockHeld'
  <2> SUFFICES ASSUME NEW t \in Sessions, (Debiting(t) /\ pc[t] \in {"firstSum"} \cup AfterFirstSum)'
               PROVE  (op[t].src \in Accounts /\ forUpdate[op[t].src] = t)'
    BY DEF LockHeld
  <2>1. CASE t = s  BY <2>1 DEF IInv, TypeOK
  <2>2. CASE t # s  BY <2>2 DEF IInv, TypeOK, LockHeld
  <2> QED BY <2>1, <2>2
<1>3. KeysHeld'  BY DEF IInv, TypeOK, KeysHeld
<1>4. LocksConflict'  BY DEF IInv, TypeOK, LocksConflict
<1>5. SeenExact'
  <2> SUFFICES ASSUME NEW t \in Sessions, Debiting(t)'
               PROVE  (/\ pc[t] \in AfterFirstSum => seen[t].credits = credits[op[t].src]
                       /\ pc[t] \in AfterSecondSum => seen[t].debits = debits[op[t].src])'
    BY DEF SeenExact
  <2>1. CASE t = s  BY <2>1 DEF IInv, TypeOK
  <2>2. CASE t # s  BY <2>2 DEF IInv, TypeOK, SeenExact
  <2> QED BY <2>1, <2>2
<1>6. SeenNotAhead' /\ ReadersRead'  BY <1>0, AccountsAssumption DEF IInv, TypeOK, SeenNotAhead, ReadersRead
<1>7. Funded'
  <2> SUFFICES ASSUME NEW t \in Sessions, (Debiting(t) /\ pc[t] \in AfterCheck)'
               PROVE  (SeenBalance(t) >= op[t].amt)'
    BY DEF Funded
  <2>1. CASE t = s  BY <2>1 DEF IInv, TypeOK
  <2>2. CASE t # s  BY <2>2 DEF IInv, TypeOK, Funded, SeenBalance
  <2> QED BY <2>1, <2>2
<1>8. Postable'  BY DEF IInv, TypeOK, Postable, Balanced
<1>9. NoOverdraft'  BY DEF IInv, NoOverdraft, Balance
<1> QED BY <1>1, <1>2, <1>3, <1>4, <1>5, <1>6, <1>7, <1>8, <1>9 DEF IInv

(* FOR UPDATE is granted only when nobody holds or shares the row.            *)
LEMMA SelectForUpdatePreserves ==
    ASSUME IInv, NEW s \in Sessions, SelectForUpdate(s)
    PROVE  IInv'
<1> USE DEF SelectForUpdate, Goto, AfterFirstSum, AfterSecondSum, AfterCheck, AfterInsert,
            Debiting, Posting
<1>0. forUpdate[op[s].src] \in {Nobody, s} /\ keyShare[op[s].src] \subseteq {s}
  BY DEF WaitsFor
<1>1. TypeOK'  BY DEF IInv, TypeOK, Phases
<1>2. LockHeld'
  <2> SUFFICES ASSUME NEW t \in Sessions, (Debiting(t) /\ pc[t] \in {"firstSum"} \cup AfterFirstSum)'
               PROVE  (op[t].src \in Accounts /\ forUpdate[op[t].src] = t)'
    BY DEF LockHeld
  <2>1. CASE t = s  BY <2>1 DEF IInv, TypeOK
  <2>2. CASE t # s  BY <1>0, <2>2 DEF IInv, TypeOK, LockHeld
  <2> QED BY <2>1, <2>2
<1>3. KeysHeld'  BY DEF IInv, TypeOK, KeysHeld
<1>4. LocksConflict'  BY <1>0 DEF IInv, TypeOK, LocksConflict
<1>5. SeenExact'  BY DEF IInv, TypeOK, SeenExact
<1>6. SeenNotAhead' /\ ReadersRead'  BY DEF IInv, TypeOK, SeenNotAhead, ReadersRead
<1>7. Funded'  BY DEF IInv, TypeOK, Funded, SeenBalance
<1>8. Postable'  BY DEF IInv, TypeOK, Postable, Balanced
<1>9. NoOverdraft'  BY DEF IInv, NoOverdraft, Balance
<1> QED BY <1>1, <1>2, <1>3, <1>4, <1>5, <1>6, <1>7, <1>8, <1>9 DEF IInv

(* Each SUM a debit reads is the committed one, and stays so under its lock.  *)
LEMMA GetBalancePreserves ==
    ASSUME IInv, NEW s \in Sessions, GetBalance(s)
    PROVE  IInv'
<1> USE CallFields DEF GetBalance, Goto, AfterFirstSum, AfterSecondSum, AfterCheck, AfterInsert,
            Debiting, Posting
<1>0. TypeOK /\ op[s].src \in Accounts  BY DEF IInv, SeenNotAhead, ReadersRead
<1>a. credits[op[s].src] \in Nat /\ debits[op[s].src] \in Nat  BY <1>0 DEF TypeOK
<1>1. TypeOK'
  <2>1. pc' \in [Sessions -> Phases]  BY <1>0 DEF TypeOK, Phases
  <2>2. seen[s] \in [credits : Nat, debits : Nat]  BY <1>0 DEF TypeOK
  <2>3. /\ [seen[s] EXCEPT !.credits = credits[op[s].src]] \in [credits : Nat, debits : Nat]
        /\ [seen[s] EXCEPT !.debits = debits[op[s].src]] \in [credits : Nat, debits : Nat]
    BY <2>2, <1>a
  <2>4. seen' \in [Sessions -> [credits : Nat, debits : Nat]]  BY <2>3, <1>0 DEF TypeOK
  <2> QED BY <2>1, <2>4, <1>0 DEF TypeOK
<1>2. LockHeld'  BY DEF IInv, TypeOK, LockHeld
<1>3. KeysHeld'  BY DEF IInv, TypeOK, KeysHeld
<1>4. LocksConflict'  BY DEF IInv, TypeOK, LocksConflict
<1>5. SeenExact'  BY DEF IInv, TypeOK, SeenExact
<1>6. SeenNotAhead' /\ ReadersRead'  BY <1>0, <1>a DEF IInv, TypeOK, SeenNotAhead, ReadersRead
<1>7. Funded'  BY DEF IInv, TypeOK, Funded, SeenBalance
<1>8. Postable'  BY DEF IInv, TypeOK, Postable, Balanced
<1>9. NoOverdraft'  BY DEF IInv, NoOverdraft, Balance
<1> QED BY <1>1, <1>2, <1>3, <1>4, <1>5, <1>6, <1>7, <1>8, <1>9 DEF IInv

(* Past the check of InsufficientFundsError the balance covers the amount.    *)
LEMMA CheckFundsPreserves ==
    ASSUME IInv, NEW s \in Sessions, CheckFunds(s)
    PROVE  IInv'
<1>1. CASE SeenBalance(s) < op[s].amt  BY <1>1, RollBackPreserves DEF CheckFunds
<1>2. CASE ~(SeenBalance(s) < op[s].amt)
  <2> USE <1>2 DEF CheckFunds, Goto, AfterFirstSum, AfterSecondSum, AfterCheck, AfterInsert,
                   Debiting, Posting
  <2>1. TypeOK'  BY DEF IInv, TypeOK, Phases
  <2>2. LockHeld'  BY DEF IInv, TypeOK, LockHeld
  <2>3. KeysHeld'  BY DEF IInv, TypeOK, KeysHeld
  <2>4. LocksConflict'  BY DEF IInv, TypeOK, LocksConflict
  <2>5. SeenExact'  BY DEF IInv, TypeOK, SeenExact
  <2>6. SeenNotAhead' /\ ReadersRead'  BY DEF IInv, TypeOK, SeenNotAhead, ReadersRead
  <2>7. Funded'
    <3>1. op[s].amt \in Int /\ SeenBalance(s) \in Int
      BY CallFields DEF IInv, TypeOK, SeenBalance
    <3>2. SeenBalance(s) >= op[s].amt  BY <3>1
    <3> QED BY <3>2 DEF IInv, TypeOK, Funded, SeenBalance
  <2>8. Postable'  BY DEF IInv, TypeOK, Postable, Balanced
  <2>9. NoOverdraft'  BY DEF IInv, NoOverdraft, Balance
  <2> QED BY <2>1, <2>2, <2>3, <2>4, <2>5, <2>6, <2>7, <2>8, <2>9 DEF IInv
<1> QED BY <1>1, <1>2

(* Past the guards the amount is positive and the accounts differ.            *)
LEMMA CreateDoubleEntryPreserves ==
    ASSUME IInv, NEW s \in Sessions, CreateDoubleEntry(s)
    PROVE  IInv'
<1>1. CASE ~Balanced(op[s])  BY <1>1, RollBackPreserves DEF CreateDoubleEntry
<1>2. CASE Balanced(op[s])
  <2> USE <1>2 DEF CreateDoubleEntry, Goto, AfterFirstSum, AfterSecondSum, AfterCheck,
                   AfterInsert, Debiting, Posting
  <2>1. TypeOK'  BY DEF IInv, TypeOK, Phases
  <2>2. LockHeld'  BY DEF IInv, TypeOK, LockHeld
  <2>3. KeysHeld'  BY DEF IInv, TypeOK, KeysHeld
  <2>4. LocksConflict'  BY DEF IInv, TypeOK, LocksConflict
  <2>5. SeenExact'  BY DEF IInv, TypeOK, SeenExact
  <2>6. SeenNotAhead' /\ ReadersRead'  BY DEF IInv, TypeOK, SeenNotAhead, ReadersRead
  <2>7. Funded'  BY DEF IInv, TypeOK, Funded, SeenBalance
  <2>8. Postable'  BY DEF IInv, TypeOK, Postable, Balanced
  <2>9. NoOverdraft'  BY DEF IInv, NoOverdraft, Balance
  <2> QED BY <2>1, <2>2, <2>3, <2>4, <2>5, <2>6, <2>7, <2>8, <2>9 DEF IInv
<1> QED BY <1>1, <1>2

(* Sharing the key of an account: no other session holds it FOR UPDATE. *)
LEMMA ReferenceDebitedPreserves ==
    ASSUME IInv, NEW s \in Sessions, ReferenceDebited(s)
    PROVE  IInv'
<1>1. CASE op[s].src \notin Accounts
  BY <1>1, RollBackPreserves DEF ReferenceDebited, ReferenceAccount
<1>2. CASE op[s].src \in Accounts
  <2> USE <1>2 DEF AfterFirstSum, AfterSecondSum, AfterCheck, AfterInsert, Debiting, Posting
  <2>a. /\ pc[s] = "srcKey"
        /\ pc' = [pc EXCEPT ![s] = "dstKey"]
        /\ keyShare' = [keyShare EXCEPT ![op[s].src] = @ \cup {s}]
        /\ UNCHANGED <<op, seen, forUpdate, credits, debits>>
    BY DEF ReferenceDebited, ReferenceAccount, Goto
  <2>0. forUpdate[op[s].src] \in {Nobody, s}  BY <2>a DEF ReferenceDebited, ReferenceAccount, WaitsFor
  <2>1. TypeOK'
    <3>1. pc' \in [Sessions -> Phases]  BY <2>a DEF IInv, TypeOK, Phases
    <3>2. keyShare' \in [Accounts -> SUBSET Sessions]  BY <2>a DEF IInv, TypeOK
    <3> QED BY <2>a, <3>1, <3>2 DEF IInv, TypeOK
  <2>2. LockHeld'  BY <2>a DEF IInv, TypeOK, LockHeld
  <2>3. KeysHeld'  BY <2>a DEF IInv, TypeOK, KeysHeld
  <2>4. LocksConflict'  BY <2>a, <2>0 DEF IInv, TypeOK, LocksConflict
  <2>5. SeenExact'  BY <2>a DEF IInv, TypeOK, SeenExact
  <2>6. SeenNotAhead' /\ ReadersRead'  BY <2>a DEF IInv, TypeOK, SeenNotAhead, ReadersRead
  <2>7. Funded'  BY <2>a DEF IInv, TypeOK, Funded, SeenBalance
  <2>8. Postable'  BY <2>a DEF IInv, TypeOK, Postable, Balanced
  <2>9. NoOverdraft'  BY <2>a DEF IInv, NoOverdraft, Balance
  <2> QED BY <2>1, <2>2, <2>3, <2>4, <2>5, <2>6, <2>7, <2>8, <2>9 DEF IInv
<1> QED BY <1>1, <1>2

(* As ReferenceDebitedPreserves, for the credited account.                    *)
LEMMA ReferenceCreditedPreserves ==
    ASSUME IInv, NEW s \in Sessions, ReferenceCredited(s)
    PROVE  IInv'
<1>1. CASE op[s].dst \notin Accounts
  BY <1>1, RollBackPreserves DEF ReferenceCredited, ReferenceAccount
<1>2. CASE op[s].dst \in Accounts
  <2> USE <1>2 DEF AfterFirstSum, AfterSecondSum, AfterCheck, AfterInsert, Debiting, Posting
  <2>a. /\ pc[s] = "dstKey"
        /\ pc' = [pc EXCEPT ![s] = "commit"]
        /\ keyShare' = [keyShare EXCEPT ![op[s].dst] = @ \cup {s}]
        /\ UNCHANGED <<op, seen, forUpdate, credits, debits>>
    BY DEF ReferenceCredited, ReferenceAccount, Goto
  <2>0. forUpdate[op[s].dst] \in {Nobody, s}  BY <2>a DEF ReferenceCredited, ReferenceAccount, WaitsFor
  <2>1. TypeOK'
    <3>1. pc' \in [Sessions -> Phases]  BY <2>a DEF IInv, TypeOK, Phases
    <3>2. keyShare' \in [Accounts -> SUBSET Sessions]  BY <2>a DEF IInv, TypeOK
    <3> QED BY <2>a, <3>1, <3>2 DEF IInv, TypeOK
  <2>2. LockHeld'  BY <2>a DEF IInv, TypeOK, LockHeld
  <2>3. KeysHeld'
    <3> SUFFICES ASSUME NEW t \in Sessions, Posting(t)'
                 PROVE  (/\ pc[t] \in {"dstKey", "commit"} =>
                                op[t].src \in Accounts /\ t \in keyShare[op[t].src]
                         /\ pc[t] = "commit" =>
                                op[t].dst \in Accounts /\ t \in keyShare[op[t].dst])'
      BY DEF KeysHeld
    <3>1. CASE t = s  BY <2>a, <3>1 DEF IInv, TypeOK, KeysHeld
    <3>2. CASE t # s  BY <2>a, <3>2 DEF IInv, TypeOK, KeysHeld
    <3> QED BY <3>1, <3>2
  <2>4. LocksConflict'  BY <2>a, <2>0 DEF IInv, TypeOK, LocksConflict
  <2>5. SeenExact'  BY <2>a DEF IInv, TypeOK, SeenExact
  <2>6. SeenNotAhead' /\ ReadersRead'  BY <2>a DEF IInv, TypeOK, SeenNotAhead, ReadersRead
  <2>7. Funded'  BY <2>a DEF IInv, TypeOK, Funded, SeenBalance
  <2>8. Postable'  BY <2>a DEF IInv, TypeOK, Postable, Balanced
  <2>9. NoOverdraft'  BY <2>a DEF IInv, NoOverdraft, Balance
  <2> QED BY <2>1, <2>2, <2>3, <2>4, <2>5, <2>6, <2>7, <2>8, <2>9 DEF IInv
<1> QED BY <1>1, <1>2

(* The commit of s changes the sums of accounts whose keys s shares, which  *)
(* no other session holds FOR UPDATE.                                       *)
LEMMA CommitPreserves ==
    ASSUME IInv, NEW s \in Sessions, Commit(s)
    PROVE  IInv'
<1> USE CallFields DEF AfterFirstSum, AfterSecondSum, AfterCheck, AfterInsert,
                       Debiting, Posting
<1>0. TypeOK  BY DEF IInv
<1>a. /\ pc[s] = "commit"
      /\ pc' = [pc EXCEPT ![s] = "committed"]
      /\ forUpdate' = [a \in Accounts |-> IF forUpdate[a] = s THEN Nobody ELSE forUpdate[a]]
      /\ keyShare' = [a \in Accounts |-> keyShare[a] \ {s}]
      /\ seen' = [seen EXCEPT ![s] = NothingSeen]
      /\ op' = op
  BY DEF Commit, Goto, ReleaseLocks
<1>b. CASE ~Posting(s)
  <2>a. credits' = credits /\ debits' = debits  BY <1>b, <1>0 DEF Commit
  <2>1. TypeOK'  BY <1>a, <2>a, <1>0 DEF TypeOK, Phases, NothingSeen
  <2>2. LockHeld'  BY <1>a DEF IInv, TypeOK, LockHeld
  <2>3. KeysHeld'  BY <1>a DEF IInv, TypeOK, KeysHeld
  <2>4. LocksConflict'  BY <1>a DEF IInv, TypeOK, LocksConflict
  <2>5. SeenExact'  BY <1>a, <2>a DEF IInv, TypeOK, SeenExact
  <2>6. SeenNotAhead' /\ ReadersRead'
    BY <1>a, <2>a DEF IInv, TypeOK, SeenNotAhead, ReadersRead
  <2>7. Funded'  BY <1>a DEF IInv, TypeOK, Funded, SeenBalance
  <2>8. Postable'  BY <1>a DEF IInv, TypeOK, Postable, Balanced
  <2>9. NoOverdraft'  BY <2>a DEF IInv, NoOverdraft, Balance
  <2> QED BY <2>1, <2>2, <2>3, <2>4, <2>5, <2>6, <2>7, <2>8, <2>9 DEF IInv
<1>c. CASE Posting(s)
  <2> DEFINE src == op[s].src
             dst == op[s].dst
             amt == op[s].amt
  <2>a. /\ src \in Accounts /\ dst \in Accounts
        /\ s \in keyShare[src] /\ s \in keyShare[dst]
        /\ src # dst /\ amt \in Int /\ amt > 0
    BY <1>a, <1>c, <1>0 DEF IInv, KeysHeld, Postable, Balanced
  <2>b. /\ credits' = [credits EXCEPT ![src] = credits[src], ![dst] = credits[dst] + amt]
        /\ debits' = [debits EXCEPT ![src] = debits[src] + amt]
    BY <1>c, <1>0, <2>a DEF Commit, TypeOK
  <2>c. credits' \in [Accounts -> Nat] /\ debits' \in [Accounts -> Nat]
    BY <2>a, <2>b, <1>0 DEF TypeOK
  <2>d. \A a \in Accounts : credits[a] <= credits'[a]
    BY <2>a, <2>b, <1>0 DEF TypeOK
  (* Sums of an account another session holds FOR UPDATE do not change. *)
  <2>e. ASSUME NEW t \in Sessions, t # s, NEW a \in Accounts, forUpdate[a] = t
        PROVE  credits'[a] = credits[a] /\ debits'[a] = debits[a]
    <3>1. a # src /\ a # dst
      BY <2>e, <2>a, SessionsAssumption DEF IInv, LocksConflict
    <3> QED BY <3>1, <2>b, <1>0 DEF TypeOK
  <2>1. TypeOK'  BY <1>a, <2>c, <1>0 DEF TypeOK, Phases, NothingSeen
  <2>2. LockHeld'  BY <1>a DEF IInv, TypeOK, LockHeld
  <2>3. KeysHeld'  BY <1>a DEF IInv, TypeOK, KeysHeld
  <2>4. LocksConflict'  BY <1>a DEF IInv, TypeOK, LocksConflict
  <2>5. SeenExact'
    <3> SUFFICES ASSUME NEW t \in Sessions, Debiting(t)', (pc[t] \in AfterFirstSum)'
                 PROVE  (/\ seen[t].credits = credits[op[t].src]
                         /\ pc[t] \in AfterSecondSum => seen[t].debits = debits[op[t].src])'
      BY DEF SeenExact
    <3>1. t # s /\ Debiting(t) /\ pc[t] \in AfterFirstSum /\ pc'[t] = pc[t] /\ seen'[t] = seen[t]
      BY <1>a, <1>0 DEF TypeOK
    <3>2. op[t].src \in Accounts /\ forUpdate[op[t].src] = t
      BY <3>1 DEF IInv, LockHeld
    <3>3. credits'[op[t].src] = credits[op[t].src] /\ debits'[op[t].src] = debits[op[t].src]
      BY <3>1, <3>2, <2>e
    <3> QED BY <1>a, <3>1, <3>3 DEF IInv, SeenExact
  <2>6. SeenNotAhead' /\ ReadersRead'
    <3> SUFFICES ASSUME NEW t \in Sessions
                 PROVE  (/\ pc[t] = "secondSum" =>
                              op[t].src \in Accounts /\ seen[t].credits <= credits[op[t].src]
                         /\ pc[t] = "firstSum" => op[t].src \in Accounts)'
      BY DEF SeenNotAhead, ReadersRead
    <3>1. CASE t = s  BY <3>1, <1>a, <1>0 DEF TypeOK
    <3>2. CASE t # s
      <4>1. pc'[t] = pc[t] /\ seen'[t] = seen[t] /\ seen[t].credits \in Nat
        BY <3>2, <1>a, <1>0 DEF TypeOK
      <4>2. CASE pc[t] = "secondSum"
        <5>1. op[t].src \in Accounts /\ seen[t].credits <= credits[op[t].src]
          BY <4>2 DEF IInv, SeenNotAhead
        <5>2. /\ credits[op[t].src] \in Nat /\ credits'[op[t].src] \in Nat
              /\ credits[op[t].src] <= credits'[op[t].src]
          BY <5>1, <2>c, <2>d, <1>0 DEF TypeOK
        <5> QED BY <4>1, <4>2, <5>1, <5>2, <1>a
      <4>3. CASE pc[t] # "secondSum"  BY <4>1, <4>3, <1>a DEF IInv, ReadersRead
      <4> QED BY <4>2, <4>3
    <3> QED BY <3>1, <3>2
  <2>7. Funded'  BY <1>a DEF IInv, TypeOK, Funded, SeenBalance
  <2>8. Postable'  BY <1>a DEF IInv, TypeOK, Postable, Balanced
  <2>9. NoOverdraft'
    <3> SUFFICES ASSUME NEW a \in Accounts \ Reserve
                 PROVE  credits'[a] - debits'[a] >= 0
      BY DEF NoOverdraft, Balance
    <3>1. credits[a] \in Nat /\ debits[a] \in Nat /\ credits[a] - debits[a] >= 0
      BY <1>0 DEF IInv, NoOverdraft, Balance, TypeOK
    <3>2. CASE a = src
      <4>1. Debiting(s)  BY <3>2, <1>c, <1>0
      <4>2. credits[a] - debits[a] >= amt
        BY <3>2, <4>1, <1>a DEF IInv, Funded, SeenExact, SeenBalance
      <4> QED BY <3>1, <3>2, <4>2, <2>a, <2>b, <1>0 DEF TypeOK
    <3>3. CASE a # src  BY <3>1, <3>3, <2>a, <2>b, <1>0 DEF TypeOK
    <3> QED BY <3>2, <3>3
  <2> QED BY <2>1, <2>2, <2>3, <2>4, <2>5, <2>6, <2>7, <2>8, <2>9 DEF IInv
<1> QED BY <1>b, <1>c

--------------------------------------------------------------------------------

(* Every step of the ledger preserves the inductive invariant.                *)
LEMMA NextPreserves == IInv /\ [Next]_vars => IInv'
<1> SUFFICES ASSUME IInv, [Next]_vars  PROVE IInv'
  OBVIOUS
<1>1. CASE UNCHANGED vars
  BY <1>1 DEF vars, IInv, TypeOK, LockHeld, KeysHeld, LocksConflict, SeenExact, SeenNotAhead,
              ReadersRead, Funded, Postable, NoOverdraft, Balance, SeenBalance, Balanced,
              Debiting, Posting
<1>2. ASSUME NEW s \in Sessions, Begin(s)  PROVE IInv'
  BY <1>2, BeginPreserves
<1>3. ASSUME NEW s \in Sessions, SelectForUpdate(s)  PROVE IInv'
  BY <1>3, SelectForUpdatePreserves
<1>4. ASSUME NEW s \in Sessions, GetBalance(s)  PROVE IInv'
  BY <1>4, GetBalancePreserves
<1>5. ASSUME NEW s \in Sessions, CheckFunds(s)  PROVE IInv'
  BY <1>5, CheckFundsPreserves
<1>6. ASSUME NEW s \in Sessions, CreateDoubleEntry(s)  PROVE IInv'
  BY <1>6, CreateDoubleEntryPreserves
<1>7. ASSUME NEW s \in Sessions, ReferenceDebited(s)  PROVE IInv'
  BY <1>7, ReferenceDebitedPreserves
<1>8. ASSUME NEW s \in Sessions, ReferenceCredited(s)  PROVE IInv'
  BY <1>8, ReferenceCreditedPreserves
<1>9. ASSUME NEW s \in Sessions, Commit(s)  PROVE IInv'
  BY <1>9, CommitPreserves
<1>10. ASSUME NEW s \in Sessions, AccountNotFound(s) \/ Abort(s) \/ DeadlockVictim(s)
       PROVE  IInv'
  BY <1>10, RollBackPreserves DEF AccountNotFound, Abort, DeadlockVictim
<1> QED
  BY <1>1, <1>2, <1>3, <1>4, <1>5, <1>6, <1>7, <1>8, <1>9, <1>10
     DEF Next, Step, Terminating

(* The invariant from which the properties of this module follow:             *)
(* row locks exclude each other, and what a session has seen and checked      *)
(* under its lock is still true.                                              *)
THEOREM Inductive == Spec => []IInv
BY InitEstablishes, NextPreserves, PTL DEF Spec

(* Every variable keeps its type, the sums in particular never leave Nat. *)
THEOREM TypeCorrect == Spec => []TypeOK
<1>1. IInv => TypeOK  BY DEF IInv
<1> QED BY <1>1, Inductive, PTL

(* No interleaving of any number of sessions overdraws a customer account:   *)
(* get_balance_for_update, the caller's check and create_double_entry.       *)
THEOREM Solvency == Spec => []NoOverdraft
<1>1. IInv => NoOverdraft  BY DEF IInv
<1> QED BY <1>1, Inductive, PTL

(* The balance get_balance_for_update returns stays exact until the end of    *)
(* the session that holds the lock.                                           *)
THEOREM LockedBalance == Spec => []LockedBalanceExact
<1>1. IInv => LockedBalanceExact
  BY DEF IInv, SeenExact, LockedBalanceExact, SeenBalance, Balance, Debiting,
         AfterFirstSum, AfterSecondSum
<1> QED BY <1>1, Inductive, PTL

(* get_balance reads the debits no earlier than the credits.                  *)
LEMMA ReadStep == IInv /\ [Next]_vars =>
    \A s \in Sessions : (pc[s] = "secondSum" /\ pc'[s] \in {"check", "commit"})
        => SeenBalance(s)' <= Balance(op[s].src)'
<1> SUFFICES ASSUME IInv, [Next]_vars, NEW s \in Sessions,
                    pc[s] = "secondSum", pc'[s] \in {"check", "commit"}
             PROVE  SeenBalance(s)' <= Balance(op[s].src)'
  OBVIOUS
<1>0. TypeOK  BY DEF IInv
<1>1. ASSUME NEW t \in Sessions, t # s, pc'[t] # pc[t],
             \E x \in Phases : pc' = [pc EXCEPT ![t] = x]
      PROVE  FALSE
  BY <1>1, <1>0 DEF TypeOK
<1>2. ASSUME NEW t \in Sessions, RollBack(t)  PROVE FALSE
  BY <1>2, <1>0 DEF RollBack, Goto, TypeOK
<1>3. GetBalance(s)
  <2>1. ~UNCHANGED vars  BY DEF vars
  <2>2. ~(\E t \in Sessions : Begin(t))  BY <1>0 DEF Begin, Goto, TypeOK
  <2>3. ~(\E t \in Sessions : SelectForUpdate(t))  BY <1>0 DEF SelectForUpdate, Goto, TypeOK
  <2>4. ~(\E t \in Sessions : CheckFunds(t))  BY <1>2, <1>0 DEF CheckFunds, Goto, TypeOK
  <2>5. ~(\E t \in Sessions : CreateDoubleEntry(t))
    BY <1>2, <1>0 DEF CreateDoubleEntry, Goto, TypeOK
  <2>6. ~(\E t \in Sessions : ReferenceDebited(t) \/ ReferenceCredited(t))
    BY <1>2, <1>0 DEF ReferenceDebited, ReferenceCredited, ReferenceAccount, Goto, TypeOK
  <2>7. ~(\E t \in Sessions : Commit(t))  BY <1>0 DEF Commit, Goto, TypeOK
  <2>8. ~(\E t \in Sessions : AccountNotFound(t) \/ Abort(t) \/ DeadlockVictim(t))
    BY <1>2 DEF AccountNotFound, Abort, DeadlockVictim
  <2>9. ASSUME NEW t \in Sessions, GetBalance(t)  PROVE t = s
    BY <2>9, <1>0 DEF GetBalance, Goto, TypeOK
  <2> QED
    BY <2>1, <2>2, <2>3, <2>4, <2>5, <2>6, <2>7, <2>8, <2>9 DEF Next, Step, Terminating
<1>4. op[s].src \in Accounts /\ seen[s].credits <= credits[op[s].src]
  BY DEF IInv, SeenNotAhead
<1>5. /\ seen[s] \in [credits : Nat, debits : Nat]
      /\ credits[op[s].src] \in Nat /\ debits[op[s].src] \in Nat
  BY <1>0, <1>4 DEF TypeOK
<1>6. /\ seen' = [seen EXCEPT ![s].debits = debits[op[s].src]]
      /\ op' = op /\ credits' = credits /\ debits' = debits
  BY <1>3 DEF GetBalance
<1>7. seen'[s].debits = debits[op[s].src] /\ seen'[s].credits = seen[s].credits
  BY <1>5, <1>6, <1>0 DEF TypeOK
<1> QED BY <1>4, <1>5, <1>6, <1>7 DEF SeenBalance, Balance

(* get_balance without the lock never reports more than the account holds.   *)
THEOREM ReadSound == Spec => ReadNeverOverstates
BY Inductive, ReadStep, PTL DEF Spec, ReadNeverOverstates

--------------------------------------------------------------------------------
(* Refinement: a committing debit or credit is Book!Transfer, and every other *)
(* step leaves the book as it is.                                             *)

(* A step that changes no sum changes no balance.                             *)
LEMMA BookUnchanged ==
    ASSUME UNCHANGED <<credits, debits>>
    PROVE  [a \in Accounts |-> Balance(a)]' = [a \in Accounts |-> Balance(a)]
BY DEF Balance

(* The commit of a posted entry is one funded transfer of the account book.   *)
LEMMA CommitIsTransfer ==
    ASSUME IInv, NEW s \in Sessions, Commit(s)
    PROVE  [Book!Next]_[a \in Accounts |-> Balance(a)]
<1> USE CallFields
<1>0. TypeOK /\ pc[s] = "commit"  BY DEF IInv, Commit
<1>1. CASE op[s].kind = "read"  BY <1>1, BookUnchanged DEF Commit
<1>2. CASE op[s].kind # "read"
  <2> DEFINE src == op[s].src
             dst == op[s].dst
             amt == op[s].amt
  <2>1. /\ src \in Accounts /\ dst \in Accounts
        /\ src # dst /\ amt \in Int /\ amt > 0
        /\ amt \in {c.amt : c \in Operations}
    BY <1>0, <1>2 DEF IInv, KeysHeld, Postable, Balanced, Posting, AfterInsert, TypeOK
  <2>2. /\ credits' = [credits EXCEPT ![dst] = credits[dst] + amt]
        /\ debits' = [debits EXCEPT ![src] = debits[src] + amt]
    BY <1>2 DEF Commit
  <2>3. src \in Reserve \/ Balance(src) >= amt
    <3>1. CASE op[s].kind = "credit"  BY <3>1, <1>0
    <3>2. CASE op[s].kind = "debit"
      BY <3>2, <1>0 DEF IInv, Funded, SeenExact, SeenBalance, Balance, Debiting,
                        AfterFirstSum, AfterSecondSum, AfterCheck
    <3> QED BY <3>1, <3>2, <1>0, <1>2
  <2>4. \A a \in Accounts : credits[a] \in Nat /\ debits[a] \in Nat
    BY <1>0 DEF TypeOK
  <2>5. [a \in Accounts |-> Balance(a)]'
          = [[a \in Accounts |-> Balance(a)] EXCEPT ![src] = @ - amt, ![dst] = @ + amt]
    BY <2>1, <2>2, <2>4, <1>0 DEF Balance, TypeOK
  <2>6. Book!Transfer(src, dst, amt)
    BY <2>1, <2>3, <2>5 DEF Book!Transfer
  <2> QED BY <2>1, <2>6 DEF Book!Next
<1> QED BY <1>1, <1>2

(* Every step of the ledger is a step of the account book or leaves it alone. *)
LEMMA BookStep == IInv /\ [Next]_vars => [Book!Next]_[a \in Accounts |-> Balance(a)]
<1> SUFFICES ASSUME IInv, [Next]_vars
             PROVE  [Book!Next]_[a \in Accounts |-> Balance(a)]
  OBVIOUS
<1>1. ASSUME NEW s \in Sessions, Commit(s)
      PROVE  [Book!Next]_[a \in Accounts |-> Balance(a)]
  BY <1>1, CommitIsTransfer
<1>2. CASE ~\E s \in Sessions : Commit(s)
  <2>1. UNCHANGED <<credits, debits>>
    BY <1>2 DEF Next, Step, Terminating, vars, Begin, SelectForUpdate, AccountNotFound,
                GetBalance, CheckFunds, CreateDoubleEntry, ReferenceDebited,
                ReferenceCredited, ReferenceAccount, Abort, DeadlockVictim, RollBack
  <2> QED BY <2>1, BookUnchanged
<1> QED BY <1>1, <1>2

(* The repositories implement the abstract account book.                      *)
THEOREM Refinement == Spec => ImplementsAccountBook
<1>1. Init => Book!Init  BY DEF Init, Book!Init, Balance
<1> QED BY <1>1, Inductive, BookStep, PTL DEF Spec, ImplementsAccountBook, Book!Spec

================================================================================
