------------------------------ MODULE Onboarding ------------------------------
(***************************************************************************)
(* OnboardingService: register_user and link_bank_account, each a check    *)
(* on what is committed followed by INSERTs that are durable only when the *)
(* request's session commits, after the reply.  The users table has a      *)
(* unique index on the stored e-mail address; bank_accounts has no unique  *)
(* constraint.                                                             *)
(***************************************************************************)
CONSTANTS Requests,    \* calls of register_user and link_bank_account
          Addresses,   \* e-mail addresses as callers type them
          Lower,       \* str.lower
          BankRefs,    \* pairs of a user and an external reference
          Calls        \* the arguments requests come with

CallType == [kind : {"register"}, email : Addresses] \cup [kind : {"link"}, ref : BankRefs]

ASSUME LowerAssumption ==
    Lower \in [Addresses -> Addresses] /\ \A a \in Addresses : Lower[Lower[a]] = Lower[a]
ASSUME CallsAssumption == Calls \subseteq CallType

VARIABLES pc,        \* where each request is in its handler
          call,      \* its arguments
          written,   \* tables it has inserted a row into and not committed
          durable,   \* tables in which its row is committed
          outcome    \* what its caller is told, or the exception

vars == <<pc, call, written, durable, outcome>>

(* The tables a call inserts one row each into. *)
TablesOf(c) ==
    IF c.kind = "register" THEN {"users", "user_profiles", "accounts"} ELSE {"bank_accounts"}

Tables == UNION {TablesOf(c) : c \in CallType}

Phases == {"idle", "check", "user", "profile", "account", "link", "commit", "done"}

Outcomes == {"none", "created", "linked", "UserAlreadyExistsError", "IntegrityError",
             "BankAccountAlreadyLinkedError", "Aborted"}

Init ==
    /\ pc = [r \in Requests |-> "idle"]
    /\ call \in [Requests -> Calls]
    /\ written = [r \in Requests |-> {}]
    /\ durable = [r \in Requests |-> {}]
    /\ outcome = [r \in Requests |-> "none"]

--------------------------------------------------------------------------------
Goto(r, phase) == pc' = [pc EXCEPT ![r] = phase]

Write(r, table) == written' = [written EXCEPT ![r] = @ \cup {table}]

Registering == {r \in Requests : call[r].kind = "register"}
Linking == {r \in Requests : call[r].kind = "link"}

(* A definition whose name adds a suffix to the next one's is a broken variant *)
(* of it, which some property must refute.                                     *)
FailLeavingTransaction(r, why) ==
    /\ Goto(r, "done")
    /\ outcome' = [outcome EXCEPT ![r] = why]
    /\ UNCHANGED <<call, written, durable>>

(* An exception leaves the handler and get_db rolls back. *)
Fail(r, why) ==
    /\ Goto(r, "done")
    /\ outcome' = [outcome EXCEPT ![r] = why]
    /\ written' = [written EXCEPT ![r] = {}]
    /\ UNCHANGED <<call, durable>>

Arrive(r) ==
    /\ pc[r] = "idle"
    /\ Goto(r, "check")
    /\ UNCHANGED <<call, written, durable, outcome>>

(* What create_with_profile stores. *)
StoredEmailAsTyped(r) == call[r].email

StoredEmail(r) == Lower[call[r].email]

(* exists_by_email: the committed users with the lowercased address. *)
Registered(a) ==
    \E q \in Registering : "users" \in durable[q] /\ StoredEmail(q) = Lower[a]

ExistsByEmail(r) ==
    /\ pc[r] = "check" /\ r \in Registering
    /\ \/ Registered(call[r].email) /\ Fail(r, "UserAlreadyExistsError")
       \/ /\ ~Registered(call[r].email)
          /\ Goto(r, "user")
          /\ UNCHANGED <<call, written, durable, outcome>>

(* The unique index: an INSERT waits for a session that has written the      *)
(* address and not ended, then fails if that one has committed.              *)
InFlight(r) ==
    \E q \in Registering \ {r} : "users" \in written[q] /\ StoredEmail(q) = StoredEmail(r)

InFlightIgnored(r) == FALSE

Taken(r) ==
    \E q \in Registering \ {r} : "users" \in durable[q] /\ StoredEmail(q) = StoredEmail(r)

InsertUserFailFast(r) ==
    /\ pc[r] = "user"
    /\ IF Taken(r) \/ InFlight(r)
       THEN Fail(r, "IntegrityError")
       ELSE /\ Write(r, "users")
            /\ Goto(r, "profile")
            /\ UNCHANGED <<call, durable, outcome>>

InsertUser(r) ==
    /\ pc[r] = "user"
    /\ ~InFlight(r)
    /\ IF Taken(r)
       THEN Fail(r, "IntegrityError")
       ELSE /\ Write(r, "users")
            /\ Goto(r, "profile")
            /\ UNCHANGED <<call, durable, outcome>>

InsertProfileCommitting(r) ==
    /\ pc[r] = "profile"
    /\ durable' = [durable EXCEPT ![r] = {"users", "user_profiles"}]
    /\ written' = [written EXCEPT ![r] = {}]
    /\ Goto(r, "account")
    /\ UNCHANGED <<call, outcome>>

(* The profile and the account name the new user's id, which nobody else can *)
(* have: their unique constraints neither wait nor fail.                     *)
InsertProfile(r) ==
    /\ pc[r] = "profile"
    /\ Write(r, "user_profiles")
    /\ Goto(r, "account")
    /\ UNCHANGED <<call, durable, outcome>>

CreateDefaultAccount(r) ==
    /\ pc[r] = "account"
    /\ Write(r, "accounts")
    /\ Goto(r, "commit")
    /\ outcome' = [outcome EXCEPT ![r] = "created"]
    /\ UNCHANGED <<call, durable>>

--------------------------------------------------------------------------------
(* link_bank_account: no gateway is called, whatever its docstring says.     *)
Linked(ref) ==
    \E q \in Linking : "bank_accounts" \in durable[q] /\ call[q].ref = ref

GetByExternalReference(r) ==
    /\ pc[r] = "check" /\ r \in Linking
    /\ \/ Linked(call[r].ref) /\ Fail(r, "BankAccountAlreadyLinkedError")
       \/ /\ ~Linked(call[r].ref)
          /\ Goto(r, "link")
          /\ UNCHANGED <<call, written, durable, outcome>>

InsertBankAccountAsAccount(r) ==
    /\ pc[r] = "link"
    /\ Write(r, "accounts")
    /\ Goto(r, "commit")
    /\ outcome' = [outcome EXCEPT ![r] = "linked"]
    /\ UNCHANGED <<call, durable>>

InsertBankAccount(r) ==
    /\ pc[r] = "link"
    /\ Write(r, "bank_accounts")
    /\ Goto(r, "commit")
    /\ outcome' = [outcome EXCEPT ![r] = "linked"]
    /\ UNCHANGED <<call, durable>>

(* get_db, after the reply. *)
Commit(r) ==
    /\ pc[r] = "commit"
    /\ durable' = [durable EXCEPT ![r] = written[r]]
    /\ written' = [written EXCEPT ![r] = {}]
    /\ Goto(r, "done")
    /\ UNCHANGED <<call, outcome>>

(* A cancelled request, a lost connection, a crash. *)
Abort(r) ==
    /\ pc[r] \notin {"idle", "done"}
    /\ Fail(r, "Aborted")

Step(r) ==
    \/ ExistsByEmail(r)
    \/ InsertUser(r)
    \/ InsertProfile(r)
    \/ CreateDefaultAccount(r)
    \/ GetByExternalReference(r)
    \/ InsertBankAccount(r)
    \/ Commit(r)

Terminating ==
    /\ \A r \in Requests : pc[r] = "done"
    /\ UNCHANGED vars

Next ==
    \/ \E r \in Requests : Arrive(r) \/ Step(r) \/ Abort(r)
    \/ Terminating

(* The event loop runs every handler. *)
Fairness == \A r \in Requests : WF_vars(Step(r))

Spec == Init /\ [][Next]_vars /\ Fairness

--------------------------------------------------------------------------------
TypeOK ==
    /\ pc \in [Requests -> Phases]
    /\ call \in [Requests -> Calls]
    /\ written \in [Requests -> SUBSET Tables]
    /\ durable \in [Requests -> SUBSET Tables]
    /\ \A r \in Requests : written[r] \cup durable[r] \subseteq TablesOf(call[r])
    /\ outcome \in [Requests -> Outcomes]

(* user_repository.py:19 and :42: registrations that race past the check, and *)
(* spell the address differently, leave one durable user for it.              *)
OneUserPerEmail ==
    \A q, r \in Registering :
        (q # r /\ "users" \in durable[q] /\ "users" \in durable[r])
            => Lower[call[q].email] # Lower[call[r].email]

(* Nobody is refused an address, or a bank account, because of a request that *)
(* was rolled back afterwards: somebody durably has what was refused.         *)
RefusalJustified ==
    \A r \in Requests :
        /\ outcome[r] \in {"UserAlreadyExistsError", "IntegrityError"} =>
              \E q \in Registering \ {r} :
                  "users" \in durable[q] /\ Lower[call[q].email] = Lower[call[r].email]
        /\ outcome[r] = "BankAccountAlreadyLinkedError" =>
              \E q \in Linking \ {r} : "bank_accounts" \in durable[q] /\ call[q].ref = call[r].ref

(* onboarding_service.py:53: a user is never durable without the profile and  *)
(* the default account, whichever step fails, and although the reply precedes *)
(* the commit a request that ended well has left all its rows.                *)
RegistrationAtomic ==
    \A r \in Requests :
        durable[r] = IF pc[r] = "done" /\ outcome[r] \in {"created", "linked"}
                     THEN TablesOf(call[r]) ELSE {}

(* Registrations that wait for each other's index entry all end, although any *)
(* of them may be rolled back.                                                *)
EveryRequestEnds == \A r \in Requests : pc[r] # "idle" ~> pc[r] = "done"

--------------------------------------------------------------------------------
(* What the repository says and the code does not do.                         *)

(* exceptions.py:62 and onboarding_service.py:98: a bank account the user has *)
(* linked is not linked a second time.                                        *)
LinkedOnce ==
    \A q, r \in Linking :
        (q # r /\ "bank_accounts" \in durable[q] /\ "bank_accounts" \in durable[r])
            => call[q].ref # call[r].ref
================================================================================
