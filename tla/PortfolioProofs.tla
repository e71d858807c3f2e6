--------------------------- MODULE PortfolioProofs ---------------------------
(***************************************************************************)
(* What summaries next to orders guarantee, for any of them: each step is  *)
(* one of UnitOfWork, whose invariants they have therefore; and a summary  *)
(* is three reads, in order, of a history that only grows.                 *)
(*                                                                         *)
(* What follows for the cash it shows: it differs from that of the moment  *)
(* of the positions by the money of orders that became durable before the  *)
(* credits, and before the debits, were read (module Sums).                *)
(***************************************************************************)
EXTENDS Portfolio, UnitOfWorkProofs, Sums

(* A step of a summary or of anything else is a step of UnitOfWork. *)
LEMMA UnitOfWorkStep == [PNext]_pvars => [Next]_vars
<1> SUFFICES ASSUME [PNext]_pvars  PROVE [Next]_vars
  OBVIOUS
<1>1. ASSUME NEW r \in Requests, Summarise(r)  PROVE Step(r) \/ Event(r)
  <2>1. ReturnEarly(r) \/ \E s \in Reads : Read(r, s)
    BY <1>1 DEF Summarise, LoadPositions, FindAccount, SumCredits, SumDebits, Reads
  <2> QED BY <2>1 DEF Step, Event
<1>2. ASSUME NEW r \in Requests, Request(r)  PROVE Step(r) \/ Event(r)
  BY <1>2 DEF Request, Step, Event, Reads
<1>3. CASE UNCHANGED pvars  BY <1>3 DEF pvars, vars
<1> QED BY <1>1, <1>2, <1>3 DEF PNext, Next

(* So a behaviour of summaries and orders is one of UnitOfWork. *)
LEMMA StepsOfUnitOfWork == PSpec => Init /\ [][Next]_vars
BY UnitOfWorkStep, PTL DEF PSpec, PInit

(* The invariants of UnitOfWork, next to summaries. *)
THEOREM SafeWithSummaries ==
    PSpec => [](TypeOK /\ DurableWasReported /\ LocksAreConnected /\ ProtectedNeedsUser)
BY StepsOfUnitOfWork, Inductive, Implied, PTL

--------------------------------------------------------------------------------
(* What a summary has not come to it has not read. *)
Unread ==
    \A r \in Requests :
        /\ pc[r] \notin Working \cup {"done"} => seen[r] = Unseen
        /\ pc[r] = "handler" =>
              /\ at[r] <= 1 => seen[r].units = Null
              /\ at[r] <= 4 => seen[r].credits = Null
              /\ at[r] <= 5 => seen[r].debits = Null

(* The cash of a summary is that of some later moment than its positions, and *)
(* the debits that of a later one than the credits.                           *)
MomentsOf(r, D1, D2) ==
    /\ asOf[r] \subseteq D1 /\ D1 \subseteq D2 /\ D2 \subseteq durable
    /\ seen[r].units \in {Null, Quantities(asOf[r], Owner(r))}
    /\ seen[r].credits \in {Null, CreditSum(D1, Owner(r))}
    /\ seen[r].debits \in {Null, DebitSum(D2, Owner(r))}

ReadInOrder == \A r \in Requests : \E D1, D2 \in SUBSET Requests : MomentsOf(r, D1, D2)

(* The calls do not change, and nothing else of a state is summed up. *)
LEMMA SameSums ==
    ASSUME call' = call, NEW D, NEW a
    PROVE  /\ Quantities(D, a)' = Quantities(D, a)
           /\ Listed(D, a)' = Listed(D, a)
           /\ CreditSum(D, a)' = CreditSum(D, a)
           /\ DebitSum(D, a)' = DebitSum(D, a)
BY DEF Quantities, Listed, CreditSum, DebitSum, Units, Money, OrdersOf, OrdersIn, Bought, Sold

(* What is durable stays so, and what a request asks for does not change. *)
LEMMA DurableGrows == [Next]_vars => durable \subseteq durable' /\ call' = call
<1> SUFFICES ASSUME [Next]_vars  PROVE durable \subseteq durable' /\ call' = call
  OBVIOUS
<1>1. ASSUME NEW r \in Requests, Step(r)  PROVE durable \subseteq durable' /\ call' = call
  BY <1>1 DEF Step, Authenticate, Connect, LoadUser, Read, LockAccount, Write, GatewayTimesOut,
              GiveUp, Respond, Commit, Fail, Close, Advance
<1>2. ASSUME NEW r \in Requests, Event(r)  PROVE durable \subseteq durable' /\ call' = call
  BY <1>2 DEF Event, Arrive, PoolTimesOut, ReturnEarly, GatewayAnswers, GatewayFails, Abort,
              GiveUp, Fail, Close, Advance
<1> QED BY <1>1, <1>2 DEF Next, Terminating, vars

(* The reads of a summary have their places. *)
LEMMA PlaceOf ==
    ASSUME IInv, NEW r \in Requests
    PROVE  /\ Here(r, "positions") => at[r] = 1
           /\ Here(r, "account") => at[r] = 3
           /\ Here(r, "credits") => at[r] = 4
           /\ Here(r, "debits") => at[r] = 5
<1>1. call[r].kind \in {"login", "register", "order", "portfolio", "link"}
  BY CallsOf DEF Kinds, Steps
<1> QED BY <1>1 DEF Here, HandlerSteps, Steps

(* A request goes forward: to its handler from before it, in it from await to *)
(* await, and past it for good.                                               *)
Forward(q) ==
    /\ pc'[q] \notin Working \cup {"done"} => pc[q] \notin Working \cup {"done"}
    /\ pc'[q] = "handler" => \/ pc[q] \notin Working \cup {"done"}
                             \/ pc[q] = "handler" /\ at'[q] >= at[q]

LEMMA GoesForward ==
    ASSUME IInv, [Next]_vars, NEW q \in Requests
    PROVE  Forward(q)
<1>0. TypeOK /\ at[q] \in 1..5 /\ at[q] >= at[q]  BY DEF IInv, TypeOK
<1>1. ASSUME NEW r \in Requests, Close(r)  PROVE Forward(q)
  BY <1>0, <1>1 DEF Close, Goto, Forward, TypeOK
<1>2. ASSUME NEW r \in Requests, Advance(r), pc[r] = "handler"  PROVE Forward(q)
  <2>1. CASE at[r] < Len(HandlerSteps(r))
    <3>1. at' = [at EXCEPT ![r] = at[r] + 1] /\ pc' = pc  BY <1>2, <2>1 DEF Advance
    <3>2. at'[q] >= at[q]  BY <1>0, <3>1 DEF TypeOK
    <3> QED BY <3>1, <3>2 DEF Forward
  <2>2. CASE ~(at[r] < Len(HandlerSteps(r)))
    <3>1. pc' = [pc EXCEPT ![r] = "respond"] /\ at' = at  BY <1>2, <2>2 DEF Advance, Goto
    <3> QED BY <1>0, <3>1 DEF Forward, Working, TypeOK
  <2> QED BY <2>1, <2>2
<1>3. ASSUME NEW r \in Requests, NEW x, Goto(r, x), at' = at,
             \/ pc[r] \in Working /\ x \in Working \ {"handler"}
             \/ pc[r] \notin Working \cup {"done"}
      PROVE  Forward(q)
  BY <1>0, <1>3 DEF Goto, Forward, Working, TypeOK
<1>4. CASE pc' = pc /\ at' = at  BY <1>0, <1>4 DEF Forward
<1>5. ASSUME NEW r \in Requests, Arrive(r) \/ Authenticate(r) \/ Connect(r) \/ LoadUser(r)
      PROVE  Forward(q)
  <2>1. Close(r) \/ (at' = at /\ \E x : Goto(r, x))
    BY <1>5 DEF Arrive, Authenticate, Connect, LoadUser, Fail
  <2>2. pc[r] \notin Working \cup {"done"}
    BY <1>5 DEF Arrive, Authenticate, Connect, LoadUser, Working
  <2> QED BY <2>1, <2>2, <1>1, <1>3
<1>6. ASSUME NEW r \in Requests,
             \/ \E step \in Reads : Read(r, step)
             \/ LockAccount(r) \/ Write(r) \/ GatewayAnswers(r)
             \/ GatewayTimesOut(r) \/ GatewayFails(r)
      PROVE  Forward(q)
  <2>1. pc[r] = "handler" /\ (Close(r) \/ Advance(r) \/ (pc' = pc /\ at' = at))
    BY <1>6 DEF Read, LockAccount, Write, GatewayAnswers, GatewayTimesOut, GatewayFails, GiveUp,
                Here, Fail
  <2> QED BY <2>1, <1>1, <1>2, <1>4
<1>7. ASSUME NEW r \in Requests,
             ReturnEarly(r) \/ Respond(r) \/ Commit(r) \/ Abort(r) \/ PoolTimesOut(r)
      PROVE  Forward(q)
  <2>1. \/ Close(r)
        \/ at' = at /\ pc[r] \in Working /\ \E x \in Working \ {"handler"} : Goto(r, x)
    BY <1>7 DEF ReturnEarly, NothingLeft, Here, Respond, Commit, Abort, PoolTimesOut, Fail, Working
  <2> QED BY <2>1, <1>1, <1>3
<1> QED BY <1>4, <1>5, <1>6, <1>7 DEF Next, Step, Event, Terminating, vars

--------------------------------------------------------------------------------
Shape ==
    /\ \E S : seen \in [Requests -> [units : S, credits : S, debits : S]]
    /\ asOf \in [Requests -> SUBSET Requests]

RInv == IInv /\ Shape /\ Unread /\ ReadInOrder

(* Nothing has been read before the first request. *)
LEMMA ReadsInit == PInit => RInv
<1> SUFFICES ASSUME PInit  PROVE RInv
  OBVIOUS
<1>1. seen \in [Requests -> [units : {Null}, credits : {Null}, debits : {Null}]]
  BY DEF PInit, Unseen
<1>2. Unread  BY DEF PInit, Unread, Unseen
<1>3. ReadInOrder
  <2> SUFFICES ASSUME NEW r \in Requests  PROVE MomentsOf(r, {}, {})
    BY DEF ReadInOrder
  <2> QED BY DEF PInit, Unseen, MomentsOf
<1> QED BY <1>1, <1>2, <1>3, InitEstablishes DEF PInit, RInv, Shape

(* What a request has not changed it has read in order still. *)
LEMMA StillInOrder ==
    ASSUME RInv, [Next]_vars, NEW q \in Requests, seen'[q] = seen[q], asOf'[q] = asOf[q]
    PROVE  \E D1, D2 \in SUBSET Requests : MomentsOf(q, D1, D2)'
<1>1. PICK D1, D2 \in SUBSET Requests : MomentsOf(q, D1, D2)  BY DEF RInv, ReadInOrder
<1>2. Owner(q)' = Owner(q)  BY DurableGrows DEF Owner
<1>3. MomentsOf(q, D1, D2)'
  BY <1>1, <1>2, DurableGrows, SameSums DEF MomentsOf
<1> QED BY <1>3

(* What it has not come to it has still not read. *)
LEMMA StillUnread ==
    ASSUME RInv, [Next]_vars, NEW q \in Requests, seen'[q] = seen[q]
    PROVE  /\ pc'[q] \notin Working \cup {"done"} => seen'[q] = Unseen
           /\ pc'[q] = "handler" =>
                 /\ at'[q] <= 1 => seen'[q].units = Null
                 /\ at'[q] <= 4 => seen'[q].credits = Null
                 /\ at'[q] <= 5 => seen'[q].debits = Null
<1>1. Forward(q)  BY GoesForward DEF RInv
<1>2. at[q] \in 1..5 /\ IInv'
  BY NextPreserves DEF RInv, IInv, TypeOK
<1>3. at'[q] \in 1..5  BY <1>2 DEF IInv, TypeOK
<1>4. CASE pc[q] \notin Working \cup {"done"}
  BY <1>4 DEF RInv, Unread, Unseen
<1>5. CASE pc[q] = "handler" /\ at'[q] >= at[q]
  BY <1>1, <1>2, <1>3, <1>5 DEF RInv, Unread, Forward
<1> QED BY <1>1, <1>4, <1>5 DEF Forward

(* A read of a summary is of what is durable, after all that was read before. *)
LEMMA SummariseOrdered ==
    ASSUME RInv, NEW r \in Requests, LoadPositions(r) \/ SumCredits(r) \/ SumDebits(r)
    PROVE  Shape' /\ Unread' /\ ReadInOrder'
<1>0. [Next]_vars  BY UnitOfWorkStep DEF PNext, Summarise
<1>1. PICK S : seen \in [Requests -> [units : S, credits : S, debits : S]]
  BY DEF RInv, Shape
<1>2. /\ pc[r] = "handler" /\ at[r] \in 1..5
      /\ ReturnEarly(r) \/ Close(r) \/ Advance(r)
      /\ UNCHANGED <<call, durable>>
  BY DEF LoadPositions, SumCredits, SumDebits, Read, Here, Fail, ReturnEarly, Close, Advance,
         RInv, IInv, TypeOK
<1>3. /\ pc'[r] \in Working \cup {"done"}
      /\ pc'[r] = "handler" => at'[r] = at[r] + 1
  BY <1>2 DEF ReturnEarly, Close, Advance, Goto, RInv, IInv, TypeOK, Working
<1>4. PICK D, o : D = durable /\ o = Owner(r)
  OBVIOUS
<1>5. durable' = D /\ Owner(r)' = o /\ D \in SUBSET Requests
  BY <1>2, <1>4 DEF Owner, RInv, IInv, TypeOK
<1>6. PICK D1, D2 \in SUBSET Requests : MomentsOf(r, D1, D2)  BY DEF RInv, ReadInOrder
<1>7. /\ Quantities(D, o)' = Quantities(D, o)
      /\ CreditSum(D, o)' = CreditSum(D, o) /\ CreditSum(D1, o)' = CreditSum(D1, o)
      /\ DebitSum(D, o)' = DebitSum(D, o)
  BY <1>2, SameSums
<1>8. Quantities(asOf[r], o)' = Quantities(asOf'[r], o)
  BY <1>2, SameSums
<1> DEFINE Good ==
       /\ \A q \in Requests \ {r} : seen'[q] = seen[q] /\ asOf'[q] = asOf[q]
       /\ pc'[r] = "handler" =>
             /\ at'[r] <= 1 => seen'[r].units = Null
             /\ at'[r] <= 4 => seen'[r].credits = Null
             /\ at'[r] <= 5 => seen'[r].debits = Null
       /\ \E E1, E2 \in SUBSET Requests : MomentsOf(r, E1, E2)'
<1>9. ASSUME LoadPositions(r)  PROVE Shape' /\ Good
  <2>1. at[r] = 1 /\ seen[r].units = Null /\ seen[r].credits = Null /\ seen[r].debits = Null
    BY <1>2, <1>9, PlaceOf DEF LoadPositions, Read, RInv, Unread
  <2>2. /\ asOf' = [asOf EXCEPT ![r] = D]
        /\ seen' = seen \/ seen' = [seen EXCEPT ![r].units = Quantities(D, o)]
    BY <1>4, <1>9 DEF LoadPositions
  <2>3. Shape'
    <3>1. PICK T : T = S \cup {Quantities(D, o)}  OBVIOUS
    <3>2. seen' \in [Requests -> [units : T, credits : T, debits : T]]  BY <2>2, <1>1, <3>1
    <3> QED BY <3>2, <2>2, <1>5 DEF Shape, RInv
  <2>4. seen'[r].units \in {Null, Quantities(D, o)} /\ seen'[r].credits = Null /\ seen'[r].debits = Null
    BY <2>1, <2>2, <1>1
  <2>5. asOf'[r] = D /\ \A q \in Requests \ {r} : seen'[q] = seen[q] /\ asOf'[q] = asOf[q]
    BY <2>2, <1>1 DEF RInv, Shape
  <2>6. MomentsOf(r, D, D)'  BY <2>4, <2>5, <1>5, <1>7 DEF MomentsOf
  <2>7. Good  BY <2>1, <2>4, <2>5, <2>6, <1>3, <1>5
  <2> QED BY <2>3, <2>7
<1>10. ASSUME SumCredits(r)  PROVE Shape' /\ Good
  <2>1. at[r] = 4 /\ seen[r].credits = Null /\ seen[r].debits = Null
    BY <1>2, <1>10, PlaceOf DEF SumCredits, Read, RInv, Unread
  <2>2. asOf' = asOf /\ seen' = [seen EXCEPT ![r].credits = CreditSum(D, o)]
    BY <1>4, <1>10 DEF SumCredits
  <2>3. Shape'
    <3>1. PICK T : T = S \cup {CreditSum(D, o)}  OBVIOUS
    <3>2. seen' \in [Requests -> [units : T, credits : T, debits : T]]  BY <2>2, <1>1, <3>1
    <3> QED BY <3>2, <2>2 DEF Shape, RInv
  <2>4. /\ seen'[r].units = seen[r].units /\ seen'[r].credits = CreditSum(D, o)
        /\ seen'[r].debits = Null
        /\ \A q \in Requests \ {r} : seen'[q] = seen[q] /\ asOf'[q] = asOf[q]
    BY <2>1, <2>2, <1>1
  <2>5. MomentsOf(r, D, D)'
    BY <2>2, <2>4, <1>4, <1>5, <1>6, <1>7, SameSums, <1>2 DEF MomentsOf
  <2>6. Good  BY <2>1, <2>4, <2>5, <1>3, <1>5
  <2> QED BY <2>3, <2>6
<1>11. ASSUME SumDebits(r)  PROVE Shape' /\ Good
  <2>1. at[r] = 5 /\ seen[r].debits = Null
    BY <1>2, <1>11, PlaceOf DEF SumDebits, Read, RInv, Unread
  <2>2. asOf' = asOf /\ seen' = [seen EXCEPT ![r].debits = DebitSum(D, o)]
    BY <1>4, <1>11 DEF SumDebits
  <2>3. Shape'
    <3>1. PICK T : T = S \cup {DebitSum(D, o)}  OBVIOUS
    <3>2. seen' \in [Requests -> [units : T, credits : T, debits : T]]  BY <2>2, <1>1, <3>1
    <3> QED BY <3>2, <2>2 DEF Shape, RInv
  <2>4. /\ seen'[r].units = seen[r].units /\ seen'[r].credits = seen[r].credits
        /\ seen'[r].debits = DebitSum(D, o)
        /\ \A q \in Requests \ {r} : seen'[q] = seen[q] /\ asOf'[q] = asOf[q]
    BY <2>1, <2>2, <1>1
  <2>5. MomentsOf(r, D1, D)'
    BY <2>2, <2>4, <1>4, <1>5, <1>6, <1>7, SameSums, <1>2 DEF MomentsOf
  <2>6. Good  BY <2>1, <2>4, <2>5, <1>3, <1>5
  <2> QED BY <2>3, <2>6
<1>12. Shape' /\ Good  BY <1>9, <1>10, <1>11
<1>13. Unread'
  <2> SUFFICES ASSUME NEW q \in Requests
               PROVE  /\ pc'[q] \notin Working \cup {"done"} => seen'[q] = Unseen
                      /\ pc'[q] = "handler" =>
                            /\ at'[q] <= 1 => seen'[q].units = Null
                            /\ at'[q] <= 4 => seen'[q].credits = Null
                            /\ at'[q] <= 5 => seen'[q].debits = Null
    BY DEF Unread, Unseen
  <2>1. CASE q = r  BY <2>1, <1>3, <1>12
  <2>2. CASE q # r
    <3>1. seen'[q] = seen[q]  BY <2>2, <1>12
    <3> QED BY <3>1, <1>0, StillUnread
  <2> QED BY <2>1, <2>2
<1>14. ReadInOrder'
  <2> SUFFICES ASSUME NEW q \in Requests
               PROVE  \E E1, E2 \in SUBSET Requests : MomentsOf(q, E1, E2)'
    BY DEF ReadInOrder
  <2>1. CASE q = r  BY <2>1, <1>12
  <2>2. CASE q # r
    <3>1. seen'[q] = seen[q] /\ asOf'[q] = asOf[q]  BY <2>2, <1>12
    <3> QED BY <3>1, <1>0, StillInOrder
  <2> QED BY <2>1, <2>2
<1> QED BY <1>12, <1>13, <1>14

(* Every step keeps the reads of every summary in order. *)
LEMMA ReadsNext == RInv /\ [PNext]_pvars => RInv'
<1> SUFFICES ASSUME RInv, [PNext]_pvars  PROVE RInv'
  OBVIOUS
<1>1. [Next]_vars /\ IInv'  BY UnitOfWorkStep, NextPreserves DEF RInv
<1>2. CASE \E r \in Requests : LoadPositions(r) \/ SumCredits(r) \/ SumDebits(r)
  BY <1>1, <1>2, SummariseOrdered DEF RInv
<1>3. CASE seen' = seen /\ asOf' = asOf
  <2>1. Shape'  BY <1>3 DEF RInv, Shape
  <2>2. Unread'  BY <1>1, <1>3, StillUnread DEF Unread, Unseen
  <2>3. ReadInOrder'  BY <1>1, <1>3, StillInOrder DEF ReadInOrder
  <2> QED BY <1>1, <2>1, <2>2, <2>3 DEF RInv
<1> QED BY <1>2, <1>3 DEF PNext, Summarise, FindAccount, Request, pvars

(* Whatever commits meanwhile, a summary is made of the positions of one      *)
(* moment, the credits of the same or a later one and the debits of the same  *)
(* or a later one than that.                                                  *)
THEOREM SummaryInOrder == PSpec => []ReadInOrder
<1>1. RInv => ReadInOrder  BY DEF RInv
<1> QED BY <1>1, ReadsInit, ReadsNext, PTL DEF PSpec
--------------------------------------------------------------------------------
(* What orders add up to.                                                     *)

(* Only orders, of whole units, and of money that is not negative. *)
LEMMA FilledOrders ==
    ASSUME TypeOK, NEW D \in SUBSET Requests, NEW a
    PROVE  \A r \in OrdersOf(D, a) :
               call[r].units \in Int /\ call[r].money \in Int /\ call[r].money >= 0
BY ArgumentsAssumption DEF TypeOK, OrdersOf, IsOrder

(* The units of finitely many orders are a whole number. *)
LEMMA UnitsAreWhole ==
    ASSUME NEW O, IsFiniteSet(O), \A r \in O : call[r].units \in Int
    PROVE  Units(O) \in Int
<1> DEFINE of == [r \in O |-> call[r].units]
<1>1. Units(O) = SumFunctionOnSet(of, O)  BY DEF Units, UnitsBy, SumFunction
<1>2. \A r \in O : of[r] \in Int  OBVIOUS
<1> HIDE DEF of
<1> QED BY <1>1, <1>2, SumInt

(* The money of finitely many orders is not negative, and that of a part of   *)
(* them and of the rest add up to it.                                         *)
LEMMA MoneyAddsUp ==
    ASSUME NEW O, IsFiniteSet(O), \A r \in O : call[r].money \in Int /\ call[r].money >= 0
    PROVE  /\ Money(O) \in Int /\ Money(O) >= 0
           /\ \A R \in SUBSET O : Money(O) = Money(R) + Money(O \ R)
<1> DEFINE of == [r \in O |-> call[r].money]
<1>1. \A R \in SUBSET O : Money(R) = SumFunctionOnSet(of, R)
  <2> SUFFICES ASSUME NEW R \in SUBSET O  PROVE Money(R) = SumFunctionOnSet(of, R)
    OBVIOUS
  <2> DEFINE part == [r \in R |-> call[r].money]
  <2>1. Money(R) = SumFunctionOnSet(part, R)  BY DEF Money, MoneyBy, SumFunction
  <2>2. \A r \in R : part[r] = of[r]  OBVIOUS
  <2>3. IsFiniteSet(R)  BY FS_Subset
  <2> HIDE DEF part, of
  <2> QED BY <2>1, <2>2, <2>3, SumAgree
<1>2. \A r \in O : of[r] \in Int /\ of[r] >= 0  OBVIOUS
<1> HIDE DEF of
<1>3. SumFunctionOnSet(of, O) \in Int /\ SumFunctionOnSet(of, O) >= 0
  BY <1>2, SumInt, SumNonNegative
<1>4. \A R \in SUBSET O :
          SumFunctionOnSet(of, O) = SumFunctionOnSet(of, R) + SumFunctionOnSet(of, O \ R)
  BY <1>2, SumSplit
<1>5. \A R \in SUBSET O : O \ R \in SUBSET O  OBVIOUS
<1> QED BY <1>1, <1>3, <1>4, <1>5

(* What has become durable since an earlier moment is added to what was then. *)
LEMMA MoneySince ==
    ASSUME TypeOK, NEW E \in SUBSET Requests, IsFiniteSet(E), NEW D \in SUBSET E, NEW a
    PROVE  /\ Money(Bought(E, a)) \in Int /\ Money(Bought(E, a)) >= 0
           /\ Money(Sold(E, a)) \in Int /\ Money(Sold(E, a)) >= 0
           /\ Money(Bought(E, a)) = Money(Bought(D, a)) + Money(Bought(E \ D, a))
           /\ Money(Sold(E, a)) = Money(Sold(D, a)) + Money(Sold(E \ D, a))
<1>1. /\ Bought(D, a) \in SUBSET Bought(E, a) /\ Bought(E \ D, a) = Bought(E, a) \ Bought(D, a)
      /\ Sold(D, a) \in SUBSET Sold(E, a) /\ Sold(E \ D, a) = Sold(E, a) \ Sold(D, a)
  BY DEF Bought, Sold, OrdersOf
<1>2. /\ Bought(E, a) \in SUBSET E /\ Sold(E, a) \in SUBSET E
      /\ \A r \in Bought(E, a) \cup Sold(E, a) : call[r].money \in Int /\ call[r].money >= 0
  BY FilledOrders DEF Bought, Sold, OrdersOf
<1>3. IsFiniteSet(Bought(E, a)) /\ IsFiniteSet(Sold(E, a))  BY <1>2, FS_Subset
<1>4. /\ Money(Bought(E, a)) \in Int /\ Money(Bought(E, a)) >= 0
      /\ Money(Bought(E, a)) = Money(Bought(D, a)) + Money(Bought(E, a) \ Bought(D, a))
  BY <1>1, <1>2, <1>3, MoneyAddsUp
<1>5. /\ Money(Sold(E, a)) \in Int /\ Money(Sold(E, a)) >= 0
      /\ Money(Sold(E, a)) = Money(Sold(D, a)) + Money(Sold(E, a) \ Sold(D, a))
  BY <1>1, <1>2, <1>3, MoneyAddsUp
<1> QED BY <1>1, <1>4, <1>5

(* What an account's owner holds, has been paid and has paid are whole numbers. *)
LEMMA SumsOfAccount ==
    ASSUME TypeOK, NEW D \in SUBSET Requests, IsFiniteSet(D), NEW a \in Accounts
    PROVE  /\ OpeningCredits[a] \in Int /\ OpeningDebits[a] \in Int
           /\ Quantities(D, a) \in [Assets -> Int]
           /\ CreditSum(D, a) \in Int /\ DebitSum(D, a) \in Int
<1>1. OpeningCredits[a] \in Int /\ OpeningDebits[a] \in Int  BY OpeningAssumption
<1>2. Quantities(D, a) \in [Assets -> Int]
  <2> SUFFICES ASSUME NEW s \in Assets
               PROVE  OpeningUnits[a][s] + Units(OrdersIn(D, a, s)) \in Int
    BY DEF Quantities
  <2>1. OrdersIn(D, a, s) \in SUBSET D /\ \A r \in OrdersIn(D, a, s) : call[r].units \in Int
    BY FilledOrders DEF OrdersIn, OrdersOf
  <2>2. Units(OrdersIn(D, a, s)) \in Int  BY <2>1, FS_Subset, UnitsAreWhole
  <2>3. OpeningUnits[a][s] \in Int  BY OpeningAssumption
  <2> QED BY <2>2, <2>3
<1>3. Money(Bought(D, a)) \in Int /\ Money(Sold(D, a)) \in Int
  BY MoneySince
<1> QED BY <1>1, <1>2, <1>3 DEF CreditSum, DebitSum

--------------------------------------------------------------------------------
(* Commits are finitely many. *)
Finite == IsFiniteSet(durable)

(* What a summary has come past it has read, it sums only with an account, and *)
(* it answers as PTypeOK says.                                                 *)
ReadSoFar ==
    \A r \in Requests : call[r].kind = "portfolio" =>
        /\ pc[r] = "handler" => /\ at[r] >= 2 => seen[r].units # Null
                                /\ at[r] >= 4 => call[r].cash
                                /\ at[r] >= 5 => seen[r].credits # Null
        /\ pc[r] = "respond" => Answers(r)

(* The cash is read completely, or its second sum is not read. *)
CreditsFirst == \A r \in Requests : seen[r].debits # Null => seen[r].credits # Null

SInv == RInv /\ Finite /\ ReadSoFar /\ CreditsFirst

(* One commit at a time.                                                      *)
LEMMA FiniteNext == Finite /\ [Next]_vars => Finite'
<1> SUFFICES ASSUME Finite, [Next]_vars  PROVE Finite'
  OBVIOUS
<1>1. ASSUME NEW r \in Requests, Step(r)  PROVE durable' = durable \/ durable' = durable \cup {r}
  BY <1>1 DEF Step, Authenticate, Connect, LoadUser, Read, LockAccount, Write, GatewayTimesOut,
              GiveUp, Respond, Commit, Fail, Close, Advance
<1>2. ASSUME NEW r \in Requests, Event(r)  PROVE durable' = durable
  BY <1>2 DEF Event, Arrive, PoolTimesOut, ReturnEarly, GatewayAnswers, GatewayFails, Abort,
              GiveUp, Fail, Close, Advance
<1>3. durable' = durable \/ \E r \in Requests : durable' = durable \cup {r}
  BY <1>1, <1>2 DEF Next, Terminating, vars
<1> QED BY <1>3, FS_AddElement DEF Finite

(* Before a summary and between its reads nothing moves it on but the         *)
(* exchange's answer, and nothing but its reads makes it answer.              *)
LEMMA OnlyReadsMoveOn ==
    ASSUME IInv, NEW r \in Requests, Request(r), NEW q \in Requests,
           call[q].kind = "portfolio"
    PROVE  /\ pc'[q] = "handler" => \/ at'[q] = 1
                                    \/ pc[q] = "handler" /\ at'[q] = at[q]
                                    \/ pc[q] = "handler" /\ at[q] = 2 /\ at'[q] = 3
           /\ pc'[q] = "respond" => pc[q] = "respond"
<1> DEFINE Moves ==
       /\ pc'[q] = "handler" => \/ at'[q] = 1
                                \/ pc[q] = "handler" /\ at'[q] = at[q]
                                \/ pc[q] = "handler" /\ at[q] = 2 /\ at'[q] = 3
       /\ pc'[q] = "respond" => pc[q] = "respond"
<1>0. TypeOK /\ (pc[q] \notin Working \cup {"done"} => at[q] = 1)  BY DEF IInv, SessionPhase
<1>1. HandlerSteps(q) = <<"positions", "gateway", "account", "credits", "debits">>
  BY DEF HandlerSteps, Steps
<1>2. CASE Close(r)  BY <1>0, <1>2 DEF Close, Goto, TypeOK
<1>3. CASE r # q /\ Advance(r)  BY <1>0, <1>3 DEF Advance, Goto, TypeOK
<1>4. CASE pc' = pc /\ at' = at  BY <1>4
<1>5. ASSUME NEW x, Goto(r, x), at' = at, r # q \/ x \notin {"handler", "respond"}
      PROVE  Moves
  BY <1>0, <1>5 DEF Goto, TypeOK
<1>6. CASE r = q /\ Here(q, "gateway") /\ Advance(q)
  <2>1. at[q] = 2 /\ pc[q] = "handler"  BY <1>1, <1>6 DEF Here
  <2>2. at' = [at EXCEPT ![q] = 3] /\ pc' = pc  BY <1>1, <1>6, <2>1 DEF Advance
  <2> QED BY <1>0, <2>1, <2>2 DEF TypeOK
<1>7. CASE Arrive(r) \/ Authenticate(r) \/ PoolTimesOut(r) \/ Respond(r)
           \/ Commit(r) \/ Abort(r)
  <2>1. \/ Close(r)
        \/ at' = at /\ \E x \in {"token", "connect", "commit"} : Goto(r, x)
    BY <1>7 DEF Arrive, Authenticate, PoolTimesOut, Respond, Commit, Abort, Fail
  <2> QED BY <2>1, <1>2, <1>5
<1>8. CASE Connect(r)
  <2>1. at' = at /\ \E x : Goto(r, x) /\ (r # q \/ x = "user")
    BY <1>8 DEF Connect
  <2> QED BY <2>1, <1>5
<1>9. CASE LoadUser(r)
  <2>1. \/ Close(r)
        \/ at' = at /\ Goto(r, IF HandlerSteps(r) = <<>> THEN "respond" ELSE "handler")
    BY <1>9 DEF LoadUser, Fail
  <2>2. CASE at' = at /\ r # q /\ \E x : Goto(r, x)  BY <2>2, <1>5
  <2>3. CASE at' = at /\ r = q /\ Goto(q, "handler")
    <3>1. at[q] = 1  BY <1>0, <1>9, <2>3 DEF LoadUser, Working
    <3> QED BY <1>0, <2>3, <3>1 DEF Goto, TypeOK
  <2>4. r = q => HandlerSteps(r) # <<>>  BY <1>1
  <2> QED BY <2>1, <2>2, <2>3, <2>4, <1>2
<1>10. CASE Read(r, "read") \/ LockAccount(r) \/ Write(r)
  <2>1. r # q
    BY <1>1, <1>10 DEF Read, LockAccount, Write, Here
  <2>2. Close(r) \/ Advance(r)  BY <1>10 DEF Read, LockAccount, Write, Fail
  <2> QED BY <2>1, <2>2, <1>2, <1>3
<1>11. CASE call[r].kind = "order" /\ ReturnEarly(r)
  BY <1>5, <1>11 DEF ReturnEarly
<1>12. CASE GatewayAnswers(r) \/ GatewayTimesOut(r) \/ GatewayFails(r)
  <2>1. Here(r, "gateway") /\ (Close(r) \/ Advance(r) \/ (pc' = pc /\ at' = at))
    BY <1>12 DEF GatewayAnswers, GatewayTimesOut, GatewayFails, GiveUp, Fail
  <2> QED BY <2>1, <1>2, <1>3, <1>4, <1>6
<1> QED BY <1>7, <1>9, <1>10, <1>11, <1>12, <1>8 DEF Request

(* Nothing has been read, and nothing is durable, before the first request.   *)
LEMMA SummaryInit == PInit => SInv
<1> SUFFICES ASSUME PInit  PROVE SInv
  OBVIOUS
<1>1. RInv  BY ReadsInit
<1>2. Finite  BY FS_EmptySet DEF PInit, Init, Finite
<1>3. ReadSoFar /\ CreditsFirst  BY DEF PInit, Init, Unseen, ReadSoFar, CreditsFirst
<1> QED BY <1>1, <1>2, <1>3 DEF SInv

(* What is read is a value, of positions and entries that are committed.      *)
LEMMA ReadsAreValues ==
    ASSUME SInv, NEW a \in Accounts
    PROVE  /\ Quantities(durable, a) # Null
           /\ CreditSum(durable, a) # Null
           /\ DebitSum(durable, a) # Null
<1>1. TypeOK /\ durable \in SUBSET Requests /\ IsFiniteSet(durable)
  BY DEF SInv, RInv, IInv, TypeOK, Finite
<1> QED BY <1>1, SumsOfAccount, OpeningAssumption

(* An answer stays what it is while other requests go on. *)
LEMMA StillAnswers ==
    ASSUME NEW q, Answers(q), call' = call, seen'[q] = seen[q], asOf'[q] = asOf[q]
    PROVE  Answers(q)'
<1>1. Owner(q)' = Owner(q) /\ Listed(asOf[q], Owner(q))' = Listed(asOf'[q], Owner(q))
  BY DEF Owner, Listed, OrdersIn, OrdersOf
<1>2. Listed(asOf[q], Owner(q))' = Listed(asOf[q], Owner(q))
  BY <1>1
<1> QED BY <1>2 DEF Answers, Unseen

(* A step of a summary reads its next part, or answers with what it has read. *)
LEMMA SummariseReads ==
    ASSUME SInv, NEW r \in Requests, Summarise(r)
    PROVE  ReadSoFar' /\ CreditsFirst'
<1>0. RInv /\ IInv /\ TypeOK  BY DEF SInv, RInv, IInv
<1>1. PICK S : seen \in [Requests -> [units : S, credits : S, debits : S]]
  BY <1>0 DEF RInv, Shape
<1>2. PICK a : a = Owner(r) /\ a \in Accounts
  BY <1>0, WorkloadsAssumption DEF TypeOK, Owner, IsCall
<1>3. PICK H, C, D : /\ H = Quantities(durable, a) /\ H # Null
                     /\ C = CreditSum(durable, a) /\ C # Null
                     /\ D = DebitSum(durable, a) /\ D # Null
  BY <1>2, ReadsAreValues
<1>4. /\ call' = call /\ durable' = durable /\ pc[r] = "handler" /\ at[r] \in 1..5
      /\ ReturnEarly(r) \/ Close(r) \/ Advance(r)
  BY <1>0 DEF Summarise, LoadPositions, FindAccount, SumCredits, SumDebits, Read, Here, Fail,
              ReturnEarly, Close, Advance, TypeOK
<1>5. \A q \in Requests \ {r} : pc'[q] = pc[q] /\ at'[q] = at[q]
  BY <1>0, <1>4 DEF ReturnEarly, Close, Advance, Goto, TypeOK
<1>6. \A q \in Requests \ {r} : seen'[q] = seen[q] /\ asOf'[q] = asOf[q]
  BY <1>0, <1>1 DEF Summarise, LoadPositions, FindAccount, SumCredits, SumDebits, RInv, Shape
<1>7. /\ call[r].kind = "portfolio"
      /\ HandlerSteps(r) = <<"positions", "gateway", "account", "credits", "debits">>
  <2>1. call[r].kind \in {"login", "register", "order", "portfolio", "link"}
    BY <1>0, CallsOf DEF Kinds, Steps
  <2>2. \E s \in {"positions", "account", "credits", "debits"} : Here(r, s)
    BY DEF Summarise, LoadPositions, FindAccount, SumCredits, SumDebits, Read, ReturnEarly
  <2> QED BY <2>1, <2>2 DEF Here, HandlerSteps, Steps
<1>8. ASSUME NEW n \in 1..4, at[r] = n, Close(r) \/ Advance(r)
      PROVE  pc'[r] # "respond" /\ (pc'[r] = "handler" => at'[r] = n + 1)
  <2>1. Len(HandlerSteps(r)) = 5  BY <1>7
  <2> QED BY <1>0, <1>4, <1>8, <2>1 DEF Close, Advance, Goto, TypeOK
<1> DEFINE Good ==
       /\ seen'[r].debits # Null => seen'[r].credits # Null
       /\ pc'[r] = "handler" => /\ at'[r] >= 2 => seen'[r].units # Null
                                /\ at'[r] >= 4 => call[r].cash
                                /\ at'[r] >= 5 => seen'[r].credits # Null
       /\ pc'[r] = "respond" => Answers(r)'
<1>9. ASSUME LoadPositions(r)  PROVE Good
  <2>1. at[r] = 1 /\ seen[r] = Unseen
    <3>1. at[r] = 1  BY <1>0, <1>9, PlaceOf DEF LoadPositions, Read
    <3>2. seen[r].units = Null /\ seen[r].credits = Null /\ seen[r].debits = Null
      BY <1>0, <1>4, <3>1 DEF RInv, Unread
    <3> QED BY <3>1, <3>2, <1>1 DEF Unseen
  <2>2. CASE Listed(durable, a) = {} /\ ReturnEarly(r) /\ seen' = seen
    <3>1. pc'[r] = "respond"  BY <1>0, <2>2 DEF ReturnEarly, Goto, TypeOK
    <3>2. asOf'[r] = durable  BY <1>0, <1>9 DEF LoadPositions, RInv, Shape
    <3>3. Listed(asOf[r], Owner(r))' = {}
      <4>1. Owner(r)' = a  BY <1>2, <1>4 DEF Owner
      <4>2. Listed(durable, a)' = {}  BY <1>4, <2>2 DEF Listed, OrdersIn, OrdersOf
      <4> QED BY <1>4, <3>2, <4>1, <4>2
    <3>4. Answers(r)'  BY <2>1, <2>2, <3>3 DEF Answers, Unseen
    <3> QED BY <2>1, <2>2, <3>1, <3>4 DEF Unseen
  <2>3. CASE Read(r, "positions") /\ seen' = [seen EXCEPT ![r].units = H]
    <3>1. seen'[r].units = H /\ seen'[r].credits = Null /\ seen'[r].debits = Null
      BY <1>1, <2>1, <2>3 DEF Unseen
    <3>2. Close(r) \/ Advance(r)  BY <2>3 DEF Read, Fail
    <3>3. pc'[r] # "respond" /\ (pc'[r] = "handler" => at'[r] = 2)  BY <1>8, <2>1, <3>2
    <3> QED BY <1>3, <3>1, <3>3
  <2> QED BY <1>2, <1>3, <1>9, <2>2, <2>3 DEF LoadPositions
<1>10. ASSUME FindAccount(r)  PROVE Good
  <2>1. /\ at[r] = 3 /\ seen[r].units # Null
        /\ seen[r].credits = Null /\ seen[r].debits = Null
    <3>1. at[r] = 3  BY <1>0, <1>10, PlaceOf DEF FindAccount, Read
    <3> QED BY <1>0, <1>4, <1>7, <3>1 DEF SInv, ReadSoFar, RInv, Unread
  <2>2. seen' = seen  BY <1>10 DEF FindAccount
  <2>3. CASE call[r].cash
    <3>1. Close(r) \/ Advance(r)  BY <1>10, <2>3 DEF FindAccount, Read, Fail
    <3>2. pc'[r] # "respond" /\ (pc'[r] = "handler" => at'[r] = 4)  BY <1>8, <2>1, <3>1
    <3> QED BY <2>1, <2>2, <2>3, <3>2
  <2>4. CASE ~call[r].cash
    <3>1. pc'[r] = "respond"  BY <1>0, <1>10, <2>4 DEF FindAccount, ReturnEarly, Goto, TypeOK
    <3>2. seen[r] = [Unseen EXCEPT !.units = seen[r].units]  BY <1>1, <2>1 DEF Unseen
    <3>3. Answers(r)'  BY <1>4, <2>2, <2>4, <3>2 DEF Answers, Unseen
    <3> QED BY <2>1, <2>2, <3>1, <3>3
  <2> QED BY <2>3, <2>4
<1>11. ASSUME SumCredits(r)  PROVE Good
  <2>1. at[r] = 4 /\ seen[r].units # Null /\ call[r].cash /\ seen[r].debits = Null
    <3>1. at[r] = 4  BY <1>0, <1>11, PlaceOf DEF SumCredits, Read
    <3> QED BY <1>0, <1>4, <1>7, <3>1 DEF SInv, ReadSoFar, RInv, Unread
  <2>2. seen' = [seen EXCEPT ![r].credits = C]  BY <1>2, <1>3, <1>11 DEF SumCredits
  <2>3. seen'[r].units # Null /\ seen'[r].credits = C /\ seen'[r].debits = Null
    BY <1>1, <2>1, <2>2
  <2>4. Close(r) \/ Advance(r)  BY <1>11 DEF SumCredits, Read, Fail
  <2>5. pc'[r] # "respond"  BY <1>8, <2>1, <2>4
  <2> QED BY <1>3, <2>1, <2>3, <2>5
<1>12. ASSUME SumDebits(r)  PROVE Good
  <2>1. seen[r].units # Null /\ call[r].cash /\ seen[r].credits # Null
    <3>1. at[r] = 5  BY <1>0, <1>12, PlaceOf DEF SumDebits, Read
    <3> QED BY <1>4, <1>7, <3>1 DEF SInv, ReadSoFar
  <2>2. seen' = [seen EXCEPT ![r].debits = D]  BY <1>2, <1>3, <1>12 DEF SumDebits
  <2>3. seen'[r].units # Null /\ seen'[r].credits # Null /\ seen'[r].debits = D
    BY <1>1, <2>1, <2>2
  <2>4. Answers(r)'  BY <1>3, <1>4, <2>1, <2>3 DEF Answers
  <2> QED BY <1>3, <2>1, <2>3, <2>4
<1>13. Good  BY <1>9, <1>10, <1>11, <1>12 DEF Summarise
<1> HIDE DEF Good
<1>14. ReadSoFar'
  <2> SUFFICES ASSUME NEW q \in Requests, call[q].kind = "portfolio"
               PROVE  /\ pc'[q] = "handler" => /\ at'[q] >= 2 => seen'[q].units # Null
                                               /\ at'[q] >= 4 => call[q].cash
                                               /\ at'[q] >= 5 => seen'[q].credits # Null
                      /\ pc'[q] = "respond" => Answers(q)'
    BY <1>4 DEF ReadSoFar
  <2>1. CASE q = r  BY <1>13, <2>1 DEF Good
  <2>2. CASE q # r
    <3>1. Answers(q) => Answers(q)'  BY <1>4, <1>6, <2>2, StillAnswers
    <3> QED BY <1>5, <1>6, <2>2, <3>1 DEF SInv, ReadSoFar
  <2> QED BY <2>1, <2>2
<1>15. CreditsFirst'
  BY <1>6, <1>13 DEF CreditsFirst, SInv, Good
<1> QED BY <1>14, <1>15

(* Every other step leaves what was read.                                     *)
LEMMA SummaryNext == SInv /\ [PNext]_pvars => SInv'
<1> SUFFICES ASSUME SInv, [PNext]_pvars  PROVE SInv'
  OBVIOUS
<1>1. RInv' /\ Finite'  BY ReadsNext, FiniteNext, UnitOfWorkStep DEF SInv
<1>2. ReadSoFar' /\ CreditsFirst'
  <2>1. ASSUME NEW r \in Requests, Summarise(r)  PROVE ReadSoFar' /\ CreditsFirst'
    BY <2>1, SummariseReads
  <2>2. ASSUME NEW r \in Requests, Request(r)  PROVE ReadSoFar' /\ CreditsFirst'
    <3>0. IInv  BY DEF SInv, RInv
    <3>1. seen' = seen /\ asOf' = asOf /\ call' = call
      BY <2>2, UnitOfWorkStep, DurableGrows DEF Request, PNext
    <3>2. CreditsFirst'  BY <3>1 DEF SInv, CreditsFirst
    <3> SUFFICES ASSUME NEW q \in Requests, call[q].kind = "portfolio"
                 PROVE  /\ pc'[q] = "handler" => /\ at'[q] >= 2 => seen[q].units # Null
                                                 /\ at'[q] >= 4 => call[q].cash
                                                 /\ at'[q] >= 5 => seen[q].credits # Null
                        /\ pc'[q] = "respond" => Answers(q)'
      BY <3>1, <3>2 DEF ReadSoFar
    <3>3. /\ pc'[q] = "handler" => \/ at'[q] = 1
                                   \/ pc[q] = "handler" /\ at'[q] = at[q]
                                   \/ pc[q] = "handler" /\ at[q] = 2 /\ at'[q] = 3
          /\ pc'[q] = "respond" => pc[q] = "respond"
      BY <2>2, <3>0, OnlyReadsMoveOn
    <3>4. Answers(q) => Answers(q)'  BY <3>1, StillAnswers
    <3> QED BY <3>3, <3>4 DEF SInv, ReadSoFar
  <2>3. CASE UNCHANGED pvars
    <3>1. \A q \in Requests : Answers(q) => Answers(q)'
      BY <2>3, StillAnswers DEF pvars, vars
    <3> QED BY <2>3, <3>1 DEF pvars, vars, SInv, ReadSoFar, CreditsFirst
  <2> QED BY <2>1, <2>2, <2>3 DEF PNext, Terminating, pvars
<1> QED BY <1>1, <1>2 DEF SInv

(* A summary's reads are values, in their order, and what it answers with has *)
(* been read.                                                                 *)
THEOREM SummariesRead == PSpec => []SInv
BY SummaryInit, SummaryNext, PTL DEF PSpec

--------------------------------------------------------------------------------
(* What a summary has read was durable, of finitely many orders. *)
LEMMA MomentsAreFinite ==
    ASSUME SInv, NEW r \in Requests, NEW D1, NEW D2, MomentsOf(r, D1, D2)
    PROVE  /\ TypeOK /\ Owner(r) \in Accounts
           /\ durable \in SUBSET Requests /\ IsFiniteSet(durable)
           /\ asOf[r] \in SUBSET durable /\ D1 \in SUBSET durable /\ D2 \in SUBSET durable
           /\ IsFiniteSet(asOf[r]) /\ IsFiniteSet(D1) /\ IsFiniteSet(D2)
<1>1. TypeOK /\ durable \in SUBSET Requests /\ IsFiniteSet(durable)
  BY DEF SInv, RInv, IInv, TypeOK, Finite
<1>2. Owner(r) \in Accounts  BY <1>1, WorkloadsAssumption DEF TypeOK, Owner, IsCall
<1>3. asOf[r] \in SUBSET durable /\ D1 \in SUBSET durable /\ D2 \in SUBSET durable
  BY DEF MomentsOf
<1> QED BY <1>1, <1>2, <1>3, FS_Subset

(* Quantities and sums of committed rows are whole numbers, and a summary that *)
(* answers has read no part only if its owner had no positions, the quantities *)
(* alone only without an account in the quote currency, and else all parts     *)
(* (portfolio_service.py:103 and 173).                                         *)
THEOREM SummaryTypeCorrect == PSpec => []PTypeOK
<1>1. SInv => PTypeOK
  <2> SUFFICES ASSUME SInv  PROVE PTypeOK
    OBVIOUS
  <2>1. \A r \in Requests : /\ seen[r].units \in [Assets -> Int] \cup {Null}
                            /\ seen[r].credits \in Int \cup {Null}
                            /\ seen[r].debits \in Int \cup {Null}
    <3> SUFFICES ASSUME NEW r \in Requests
                 PROVE  /\ seen[r].units \in [Assets -> Int] \cup {Null}
                        /\ seen[r].credits \in Int \cup {Null}
                        /\ seen[r].debits \in Int \cup {Null}
      OBVIOUS
    <3>1. PICK D1, D2 : MomentsOf(r, D1, D2)  BY DEF SInv, RInv, ReadInOrder
    <3>2. /\ Quantities(asOf[r], Owner(r)) \in [Assets -> Int]
          /\ CreditSum(D1, Owner(r)) \in Int
          /\ DebitSum(D2, Owner(r)) \in Int
      <4>1. /\ asOf[r] \in SUBSET Requests
            /\ D1 \in SUBSET Requests
            /\ D2 \in SUBSET Requests
        BY <3>1, MomentsAreFinite
      <4> QED BY <3>1, <4>1, MomentsAreFinite, SumsOfAccount
    <3> QED BY <3>1, <3>2 DEF MomentsOf
  <2>2. PICK S : seen \in [Requests -> [units : S, credits : S, debits : S]]
    BY DEF SInv, RInv, Shape
  <2>3. seen \in [Requests -> [units : [Assets -> Int] \cup {Null},
                               credits : Int \cup {Null},
                               debits : Int \cup {Null}]]
    BY <2>1, <2>2
  <2>4. asOf \in [Requests -> SUBSET Requests]  BY DEF SInv, RInv, Shape
  <2> QED BY <2>3, <2>4 DEF PTypeOK, SInv, ReadSoFar
<1> QED BY <1>1, SummariesRead, PTL

(* The quantities of a summary are those of one moment, and its cash is that  *)
(* moment's, but for what was spent and what was earned since: for any orders, *)
(* any amounts and any moments of its reads.                                  *)
THEOREM SummaryOffOnlyByWhatCommits == PSpec => []OffOnlyByWhatCommits
<1>1. SInv => OffOnlyByWhatCommits
  <2> SUFFICES ASSUME SInv, NEW r \in Requests
               PROVE  LET since == durable \ asOf[r] IN
                      /\ seen[r].units # Null => seen[r].units = Quantities(asOf[r], Owner(r))
                      /\ seen[r].debits # Null =>
                            /\ CashShown(r) <= Cash(asOf[r], Owner(r)) + Money(Sold(since, Owner(r)))
                            /\ CashShown(r) >= Cash(asOf[r], Owner(r)) - Money(Bought(since, Owner(r)))
    BY DEF OffOnlyByWhatCommits
  <2> DEFINE a == Owner(r)
             since == durable \ asOf[r]
             B(D) == Money(Bought(D, a))
             S(D) == Money(Sold(D, a))
  <2>1. PICK D1, D2 : MomentsOf(r, D1, D2)  BY DEF SInv, RInv, ReadInOrder
  <2>2. seen[r].units # Null => seen[r].units = Quantities(asOf[r], a)
    BY <2>1 DEF MomentsOf
  <2>3. ASSUME seen[r].debits # Null
        PROVE  /\ CashShown(r) <= Cash(asOf[r], a) + S(since)
               /\ CashShown(r) >= Cash(asOf[r], a) - B(since)
    <3>1. /\ TypeOK /\ a \in Accounts
          /\ asOf[r] \in SUBSET D1 /\ D1 \in SUBSET D2 /\ D2 \in SUBSET durable
          /\ \A D \in SUBSET durable : D \in SUBSET Requests /\ IsFiniteSet(D)
      <4>1. asOf[r] \in SUBSET D1 /\ D1 \in SUBSET D2 /\ D2 \in SUBSET durable
        BY <2>1 DEF MomentsOf
      <4>2. /\ TypeOK /\ a \in Accounts /\ durable \in SUBSET Requests /\ IsFiniteSet(durable)
        BY <2>1, MomentsAreFinite
      <4> QED BY <4>1, <4>2, FS_Subset
    <3>2. seen[r].credits = CreditSum(D1, a) /\ seen[r].debits = DebitSum(D2, a)
      BY <2>1, <2>3 DEF MomentsOf, SInv, CreditsFirst
    <3>3. OpeningCredits[a] \in Int /\ OpeningDebits[a] \in Int
      BY <3>1, OpeningAssumption
    <3>4. \A D \in SUBSET durable : B(D) \in Int /\ B(D) >= 0 /\ S(D) \in Int /\ S(D) >= 0
      BY <3>1, MoneySince
    <3>5. /\ B(D2) = B(asOf[r]) + B(D2 \ asOf[r])
          /\ S(D1) = S(asOf[r]) + S(D1 \ asOf[r])
      <4>1. /\ D1 \in SUBSET durable /\ D2 \in SUBSET durable
            /\ asOf[r] \in SUBSET D1 /\ asOf[r] \in SUBSET D2
        BY <3>1
      <4> QED BY <4>1, <3>1, MoneySince
    <3>6. /\ B(since) = B(D2 \ asOf[r]) + B(durable \ D2)
          /\ S(since) = S(D1 \ asOf[r]) + S(durable \ D1)
      <4>1. /\ since \in SUBSET durable
            /\ D2 \ asOf[r] \in SUBSET since /\ since \ (D2 \ asOf[r]) = durable \ D2
            /\ D1 \ asOf[r] \in SUBSET since /\ since \ (D1 \ asOf[r]) = durable \ D1
        BY <3>1
      <4>2. since \in SUBSET Requests /\ IsFiniteSet(since)  BY <4>1, <3>1
      <4> HIDE DEF since
      <4>3. B(since) = B(D2 \ asOf[r]) + B(since \ (D2 \ asOf[r]))
        BY <4>1, <4>2, <3>1, MoneySince
      <4>4. S(since) = S(D1 \ asOf[r]) + S(since \ (D1 \ asOf[r]))
        BY <4>1, <4>2, <3>1, MoneySince
      <4> QED BY <4>1, <4>3, <4>4
    <3>7. /\ asOf[r] \in SUBSET durable
          /\ D2 \ asOf[r] \in SUBSET durable /\ durable \ D2 \in SUBSET durable
          /\ D1 \ asOf[r] \in SUBSET durable /\ durable \ D1 \in SUBSET durable
      BY <3>1
    <3>8. /\ CashShown(r) = (OpeningCredits[a] + S(D1)) - (OpeningDebits[a] + B(D2))
          /\ Cash(asOf[r], a) = (OpeningCredits[a] + S(asOf[r])) - (OpeningDebits[a] + B(asOf[r]))
      BY <3>2 DEF CashShown, Cash, CreditSum, DebitSum
    <3> HIDE DEF B, S, since
    <3>9. /\ B(asOf[r]) \in Int /\ S(asOf[r]) \in Int
          /\ B(D2 \ asOf[r]) \in Int /\ B(D2 \ asOf[r]) >= 0
          /\ B(durable \ D2) \in Int /\ B(durable \ D2) >= 0
          /\ S(D1 \ asOf[r]) \in Int /\ S(D1 \ asOf[r]) >= 0
          /\ S(durable \ D1) \in Int /\ S(durable \ D1) >= 0
      BY <3>4, <3>7
    <3> QED BY <3>3, <3>5, <3>6, <3>8, <3>9
  <2> QED BY <2>2, <2>3
<1> QED BY <1>1, SummariesRead, PTL
================================================================================
