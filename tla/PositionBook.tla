----------------------------- MODULE PositionBook -----------------------------
(***************************************************************************)
(* What the trading service promises of a position, to somebody who sees   *)
(* neither locks, nor requests, nor how a row is read: one trade at a time *)
(* works on a position.  It starts from what the trades before it have     *)
(* left, applies each of its fills once, and then all of its work becomes  *)
(* the position or none of it does.                                        *)
(***************************************************************************)
CONSTANTS Holdings,        \* pairs of a user and an asset
          Calls,           \* orders with the answers the exchange gives them
          NoPosition,      \* "there is no row"
          FillsIn(_),      \* the fills in an answer
          Fits(_, _, _),   \* whether a position can take a fill of an order
          After(_, _, _)   \* the position after it

VARIABLES position,        \* the positions everybody sees
          work             \* position -> what is done to it and nobody else sees

Init ==
    /\ position = [h \in Holdings |-> NoPosition]
    /\ work = [h \in Holdings |-> {}]

Begin(h, c, f) ==
    /\ work[h] = {}
    /\ c.holding = h
    /\ Fits(position[h], c, f)
    /\ work' = [work EXCEPT ![h] = {[of |-> c, applied |-> {f},
                                     version |-> After(position[h], c, f)]}]
    /\ UNCHANGED position

Continue(h, w, f) ==
    /\ f \notin w.applied
    /\ Fits(w.version, w.of, f)
    /\ work' = [work EXCEPT ![h] = {[of |-> w.of, applied |-> w.applied \cup {f},
                                     version |-> After(w.version, w.of, f)]}]
    /\ UNCHANGED position

Commit(h, w) ==
    /\ w.applied = FillsIn(w.of)
    /\ position' = [position EXCEPT ![h] = w.version]
    /\ work' = [work EXCEPT ![h] = {}]

RollBack(h) ==
    /\ work' = [work EXCEPT ![h] = {}]
    /\ UNCHANGED position

Next ==
    \E h \in Holdings :
        \/ \E c \in Calls : \E f \in FillsIn(c) : Begin(h, c, f)
        \/ \E w \in work[h] : \/ \E f \in FillsIn(w.of) : Continue(h, w, f)
                              \/ Commit(h, w)
        \/ RollBack(h)

Spec == Init /\ [][Next]_<<position, work>>
================================================================================
