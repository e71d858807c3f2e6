--------------------------- MODULE OnboardingProofs ---------------------------
(***************************************************************************)
(* What registration and bank-account linking guarantee for any requests   *)
(* and addresses.                                                          *)
(*                                                                         *)
(* The argument: the rows a request has follow from where it is, and of    *)
(* the registrations of one address at most one has a users row, because   *)
(* an INSERT waits for the writer of the address and then fails or goes    *)
(* ahead according to how that one ended.                                  *)
(***************************************************************************)
EXTENDS Onboarding, TLAPS

(* Which rows a request has written, and which are durable, at each place.   *)
Progress ==
    \A r \in Requests :
        /\ pc[r] \in {"idle", "check", "user", "link", "done"} => written[r] = {}
        /\ pc[r] \in {"user", "profile", "account"} => r \in Registering
        /\ pc[r] = "link" => r \in Linking
        /\ pc[r] = "profile" => written[r] = {"users"}
        /\ pc[r] = "account" => written[r] = {"users", "user_profiles"}
        /\ pc[r] = "commit" =>
               written[r] = TablesOf(call[r]) /\ outcome[r] \in {"created", "linked"}
        /\ pc[r] \notin {"commit", "done"} => outcome[r] = "none"

HasEntry(r) == "users" \in written[r] \/ "users" \in durable[r]

(* The unique index. *)
OneEntry ==
    \A q, r \in Registering :
        (q # r /\ HasEntry(q) /\ HasEntry(r)) => StoredEmail(q) # StoredEmail(r)

IInv ==
    /\ TypeOK
    /\ Progress
    /\ RegistrationAtomic
    /\ OneEntry
    /\ RefusalJustified

USE CallsAssumption

(* A request's rows are in tables of its kind. *)
LEMMA OwnTables ==
    ASSUME TypeOK, NEW r \in Requests
    PROVE  TablesOf(call[r]) \subseteq Tables
<1>1. call[r] \in CallType
  BY DEF TypeOK
<1>. QED
  BY <1>1 DEF Tables

(* Before the first request the inductive invariant holds.                   *)
LEMMA InitEstablishes == Init => IInv
<1>. SUFFICES ASSUME Init PROVE IInv
  OBVIOUS
<1>1. TypeOK
  BY DEF Init, TypeOK, Phases, Outcomes
<1>2. Progress
  BY DEF Init, Progress
<1>3. RegistrationAtomic
  BY DEF Init, RegistrationAtomic
<1>4. OneEntry
  BY DEF Init, OneEntry, HasEntry, Registering
<1>5. RefusalJustified
  BY DEF Init, RefusalJustified
<1>. QED
  BY <1>1, <1>2, <1>3, <1>4, <1>5 DEF IInv

(* An exception in any handler: nothing of the request remains, and what     *)
(* others have is untouched, so whoever was refused is still justified.      *)
LEMMA FailPreserves ==
    ASSUME IInv, NEW r \in Requests, NEW why \in Outcomes,
           pc[r] \notin {"idle", "done"}, Fail(r, why),
           why \notin {"none", "created", "linked"},
           why \in {"UserAlreadyExistsError", "IntegrityError"} =>
               \E q \in Registering \ {r} :
                   "users" \in durable[q] /\ Lower[call[q].email] = Lower[call[r].email],
           why = "BankAccountAlreadyLinkedError" =>
               \E q \in Linking \ {r} : "bank_accounts" \in durable[q] /\ call[q].ref = call[r].ref
    PROVE  IInv'
<1>. USE DEF IInv, Fail, Goto
<1>1. TypeOK'
  BY DEF TypeOK, Phases
<1>2. Progress'
  BY DEF TypeOK, Progress, Registering, Linking
<1>3. durable[r] = {}
  BY DEF RegistrationAtomic
<1>4. RegistrationAtomic'
  BY <1>3 DEF TypeOK, RegistrationAtomic
<1>5. OneEntry'
  BY DEF TypeOK, OneEntry, HasEntry, StoredEmail, Registering
<1>6. RefusalJustified'
  BY DEF TypeOK, RefusalJustified, Registering, Linking
<1>. QED
  BY <1>1, <1>2, <1>4, <1>5, <1>6

(* Where a request goes on without writing anything.                         *)
LEMMA MovePreserves ==
    ASSUME IInv, NEW r \in Requests, NEW phase \in {"check", "user", "link"},
           pc[r] \in {"idle", "check"}, Goto(r, phase),
           UNCHANGED <<call, written, durable, outcome>>,
           phase = "user" => r \in Registering,
           phase = "link" => r \in Linking
    PROVE  IInv'
<1>. USE DEF IInv, Goto
<1>1. TypeOK'
  BY DEF TypeOK, Phases
<1>2. Progress'
  BY DEF TypeOK, Progress, Registering, Linking
<1>3. RegistrationAtomic'
  BY DEF TypeOK, RegistrationAtomic
<1>4. OneEntry' /\ RefusalJustified'
  BY DEF OneEntry, HasEntry, StoredEmail, RefusalJustified, Registering, Linking
<1>. QED
  BY <1>1, <1>2, <1>3, <1>4

(* The check on committed users: refused because of one of them, or on.      *)
LEMMA ExistsByEmailPreserves ==
    ASSUME IInv, NEW r \in Requests, ExistsByEmail(r)
    PROVE  IInv'
<1>1. CASE Registered(call[r].email) /\ Fail(r, "UserAlreadyExistsError")
  <2>1. PICK q \in Registering : "users" \in durable[q] /\ StoredEmail(q) = Lower[call[r].email]
    BY <1>1 DEF Registered
  <2>2. durable[r] = {}
    BY DEF IInv, RegistrationAtomic, ExistsByEmail
  <2>3. q \in Registering \ {r}
    BY <2>1, <2>2
  <2>. QED
    BY <1>1, <2>1, <2>3, FailPreserves DEF ExistsByEmail, StoredEmail, Outcomes
<1>2. CASE ~(Registered(call[r].email) /\ Fail(r, "UserAlreadyExistsError"))
  BY <1>2, MovePreserves DEF ExistsByEmail
<1>. QED
  BY <1>1, <1>2

(* The INSERT of the user: nobody else has the address, in progress or       *)
(* durable, or the request is refused because somebody durably has.          *)
LEMMA InsertUserPreserves ==
    ASSUME IInv, NEW r \in Requests, InsertUser(r)
    PROVE  IInv'
<1>. pc[r] = "user" /\ ~InFlight(r) /\ r \in Registering /\ written[r] = {} /\ durable[r] = {}
  BY DEF InsertUser, IInv, Progress, RegistrationAtomic
<1>1. CASE Taken(r)
  BY <1>1, FailPreserves DEF InsertUser, Taken, StoredEmail, Outcomes
<1>2. CASE ~Taken(r)
  <2>. written' = [written EXCEPT ![r] = {"users"}] /\ pc' = [pc EXCEPT ![r] = "profile"]
       /\ UNCHANGED <<call, durable, outcome>>
    BY <1>2 DEF InsertUser, Write, Goto, IInv, TypeOK
  <2>1. {"users"} \subseteq TablesOf(call[r])
    BY DEF Registering, TablesOf
  <2>2. TypeOK'
    BY <2>1, OwnTables DEF IInv, TypeOK, Phases
  <2>3. Progress'
    BY DEF IInv, TypeOK, Progress, Registering, Linking
  <2>4. RegistrationAtomic'
    BY DEF IInv, TypeOK, RegistrationAtomic
  <2>5. \A q \in Registering \ {r} : HasEntry(q) => StoredEmail(q) # StoredEmail(r)
    BY <1>2 DEF InFlight, Taken, HasEntry
  <2>6. OneEntry'
    BY <2>5 DEF IInv, TypeOK, OneEntry, HasEntry, StoredEmail, Registering
  <2>7. RefusalJustified'
    BY DEF IInv, RefusalJustified, Registering, Linking
  <2>. QED
    BY <2>2, <2>3, <2>4, <2>6, <2>7 DEF IInv
<1>. QED
  BY <1>1, <1>2

(* The INSERT of the profile, after that of the user.                        *)
LEMMA InsertProfilePreserves ==
    ASSUME IInv, NEW r \in Requests, InsertProfile(r)
    PROVE  IInv'
<1>. pc[r] = "profile" /\ r \in Registering /\ written[r] = {"users"}
  BY DEF InsertProfile, IInv, Progress
<1>. written' = [written EXCEPT ![r] = {"users", "user_profiles"}]
     /\ pc' = [pc EXCEPT ![r] = "account"] /\ UNCHANGED <<call, durable, outcome>>
  BY DEF InsertProfile, Write, Goto, IInv, TypeOK
<1>1. {"users", "user_profiles"} \subseteq TablesOf(call[r])
  BY DEF Registering, TablesOf
<1>2. TypeOK'
  BY <1>1, OwnTables DEF IInv, TypeOK, Phases
<1>3. Progress'
  BY DEF IInv, TypeOK, Progress, Registering, Linking
<1>4. RegistrationAtomic'
  BY DEF IInv, TypeOK, RegistrationAtomic
<1>5. OneEntry'
  BY DEF IInv, TypeOK, OneEntry, HasEntry, StoredEmail, Registering
<1>6. RefusalJustified'
  BY DEF IInv, RefusalJustified, Registering, Linking
<1>. QED
  BY <1>2, <1>3, <1>4, <1>5, <1>6 DEF IInv

(* The INSERT of the account completes the rows of a registration.           *)
LEMMA CreateDefaultAccountPreserves ==
    ASSUME IInv, NEW r \in Requests, CreateDefaultAccount(r)
    PROVE  IInv'
<1>. pc[r] = "account" /\ r \in Registering /\ written[r] = {"users", "user_profiles"}
  BY DEF CreateDefaultAccount, IInv, Progress
<1>1. TablesOf(call[r]) = {"users", "user_profiles", "accounts"}
  BY DEF Registering, TablesOf
<1>. written' = [written EXCEPT ![r] = TablesOf(call[r])]
     /\ pc' = [pc EXCEPT ![r] = "commit"] /\ outcome' = [outcome EXCEPT ![r] = "created"]
     /\ UNCHANGED <<call, durable>>
  BY <1>1 DEF CreateDefaultAccount, Write, Goto, IInv, TypeOK
<1>2. TypeOK'
  BY <1>1, OwnTables DEF IInv, TypeOK, Phases, Outcomes
<1>3. Progress'
  BY DEF IInv, TypeOK, Progress, Registering, Linking
<1>4. RegistrationAtomic'
  BY DEF IInv, TypeOK, RegistrationAtomic
<1>5. OneEntry'
  BY <1>1 DEF IInv, TypeOK, OneEntry, HasEntry, StoredEmail, Registering
<1>6. RefusalJustified'
  BY DEF IInv, TypeOK, RefusalJustified, Registering, Linking
<1>. QED
  BY <1>2, <1>3, <1>4, <1>5, <1>6 DEF IInv

(* The check on committed bank accounts: refused because of one, or on.      *)
LEMMA GetByExternalReferencePreserves ==
    ASSUME IInv, NEW r \in Requests, GetByExternalReference(r)
    PROVE  IInv'
<1>1. CASE Linked(call[r].ref) /\ Fail(r, "BankAccountAlreadyLinkedError")
  <2>1. PICK q \in Linking : "bank_accounts" \in durable[q] /\ call[q].ref = call[r].ref
    BY <1>1 DEF Linked
  <2>2. durable[r] = {}
    BY DEF IInv, RegistrationAtomic, GetByExternalReference
  <2>3. q \in Linking \ {r}
    BY <2>1, <2>2
  <2>. QED
    BY <1>1, <2>1, <2>3, FailPreserves DEF GetByExternalReference, Outcomes
<1>2. CASE ~(Linked(call[r].ref) /\ Fail(r, "BankAccountAlreadyLinkedError"))
  BY <1>2, MovePreserves DEF GetByExternalReference
<1>. QED
  BY <1>1, <1>2

(* The INSERT of a bank account, which no constraint refuses.                *)
LEMMA InsertBankAccountPreserves ==
    ASSUME IInv, NEW r \in Requests, InsertBankAccount(r)
    PROVE  IInv'
<1>. pc[r] = "link" /\ r \in Linking /\ written[r] = {}
  BY DEF InsertBankAccount, IInv, Progress
<1>1. TablesOf(call[r]) = {"bank_accounts"}
  BY DEF Linking, TablesOf
<1>. written' = [written EXCEPT ![r] = TablesOf(call[r])]
     /\ pc' = [pc EXCEPT ![r] = "commit"] /\ outcome' = [outcome EXCEPT ![r] = "linked"]
     /\ UNCHANGED <<call, durable>>
  BY <1>1 DEF InsertBankAccount, Write, Goto, IInv, TypeOK
<1>2. TypeOK'
  BY <1>1, OwnTables DEF IInv, TypeOK, Phases, Outcomes
<1>3. Progress'
  BY DEF IInv, TypeOK, Progress, Registering, Linking
<1>4. RegistrationAtomic'
  BY DEF IInv, TypeOK, RegistrationAtomic
<1>5. OneEntry'
  BY <1>1 DEF IInv, TypeOK, OneEntry, HasEntry, StoredEmail, Registering
<1>6. RefusalJustified'
  BY DEF IInv, TypeOK, RefusalJustified, Registering, Linking
<1>. QED
  BY <1>2, <1>3, <1>4, <1>5, <1>6 DEF IInv

(* The commit makes durable exactly what was written.                        *)
LEMMA CommitPreserves ==
    ASSUME IInv, NEW r \in Requests, Commit(r)
    PROVE  IInv'
<1>. pc[r] = "commit" /\ written[r] = TablesOf(call[r]) /\ durable[r] = {}
     /\ outcome[r] \in {"created", "linked"}
  BY DEF Commit, IInv, Progress, RegistrationAtomic
<1>. durable' = [durable EXCEPT ![r] = TablesOf(call[r])]
     /\ written' = [written EXCEPT ![r] = {}]
     /\ pc' = [pc EXCEPT ![r] = "done"] /\ UNCHANGED <<call, outcome>>
  BY DEF Commit, Goto
<1>1. TypeOK'
  BY OwnTables DEF IInv, TypeOK, Phases
<1>2. Progress'
  BY DEF IInv, TypeOK, Progress, Registering, Linking
<1>3. RegistrationAtomic'
  BY DEF IInv, TypeOK, RegistrationAtomic
<1>4. \A q \in Requests : HasEntry(q)' => HasEntry(q)
  BY DEF IInv, TypeOK, HasEntry
<1>5. OneEntry'
  BY <1>4 DEF IInv, OneEntry, StoredEmail, Registering
<1>6. \A q \in Requests : durable[q] \subseteq durable'[q]
  BY DEF IInv, TypeOK
<1>7. RefusalJustified'
  BY <1>6 DEF IInv, RefusalJustified, Registering, Linking
<1>. QED
  BY <1>1, <1>2, <1>3, <1>5, <1>7 DEF IInv

(* Every step preserves the inductive invariant.                             *)
LEMMA NextPreserves == IInv /\ [Next]_vars => IInv'
<1>. SUFFICES ASSUME IInv, [Next]_vars PROVE IInv'
  OBVIOUS
<1>1. ASSUME NEW r \in Requests, Arrive(r) PROVE IInv'
  BY <1>1, MovePreserves DEF Arrive
<1>2. ASSUME NEW r \in Requests, Abort(r) PROVE IInv'
  BY <1>2, FailPreserves DEF Abort, Outcomes
<1>3. ASSUME NEW r \in Requests, Step(r) PROVE IInv'
  BY <1>3, ExistsByEmailPreserves, InsertUserPreserves, InsertProfilePreserves,
     CreateDefaultAccountPreserves, GetByExternalReferencePreserves,
     InsertBankAccountPreserves, CommitPreserves DEF Step
<1>4. CASE UNCHANGED vars
  BY <1>4 DEF vars, IInv, TypeOK, Progress, RegistrationAtomic, OneEntry, HasEntry,
              RefusalJustified, StoredEmail, Registering, Linking
<1>. QED
  BY <1>1, <1>2, <1>3, <1>4 DEF Next, Terminating

(* The inductive invariant holds in every reachable state.                   *)
THEOREM Inductive == Spec => []IInv
  BY InitEstablishes, NextPreserves, PTL DEF Spec

(* Every variable keeps its type; no request has rows of another kind.       *)
THEOREM TypeCorrect == Spec => []TypeOK
<1>1. IInv => TypeOK
  BY DEF IInv
<1>. QED
  BY <1>1, Inductive, PTL

(* One durable user per address, however it is spelled.                      *)
THEOREM UniqueEmail == Spec => []OneUserPerEmail
<1>1. IInv => OneUserPerEmail
  BY DEF IInv, OneEntry, HasEntry, OneUserPerEmail, StoredEmail
<1>. QED
  BY <1>1, Inductive, PTL

(* A refusal is because of somebody who durably has what was asked for.      *)
THEOREM Justified == Spec => []RefusalJustified
<1>1. IInv => RefusalJustified
  BY DEF IInv
<1>. QED
  BY <1>1, Inductive, PTL

(* A request leaves all the rows of its kind, or none.                       *)
THEOREM Atomic == Spec => []RegistrationAtomic
<1>1. IInv => RegistrationAtomic
  BY DEF IInv
<1>. QED
  BY <1>1, Inductive, PTL
================================================================================
