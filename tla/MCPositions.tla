----------------------------- MODULE MCPositions -----------------------------
(***************************************************************************)
(* A finite instance of Positions: alice trades two assets from one        *)
(* account; an entry of bob's names one account twice, as the source does. *)
(***************************************************************************)
EXTENDS Positions

CONSTANTS alice, bob, cold, aliceBTC, aliceETH, bobBTC, t1, t2, t3

MCAccountOf == aliceBTC :> alice @@ aliceETH :> alice @@ bobBTC :> bob
MCCreditAccount == alice :> cold @@ bob :> bob @@ cold :> alice

F(id, amount, price) == [id |-> id, amount |-> amount, price |-> price]

Trade(h, side, amount, status, fills) ==
    [holding |-> h, side |-> side, amount |-> amount, status |-> status, fills |-> fills,
     total |-> F(0, amount, 4)]

(* A repeated fill, totals without fills, an incomplete FILLED, two prices,  *)
(* sales that go short, a BUY that closes them, fills refused and none.      *)
MCCalls ==
    {Trade(aliceBTC, "BUY", 3, "FILLED", <<F(1, 1, 1), F(2, 2, 4), F(1, 1, 1)>>),
     Trade(aliceBTC, "BUY", 2, "FILLED", <<F(1, 1, 2)>>),
     Trade(aliceBTC, "BUY", 2, "FILLED", <<>>),
     Trade(aliceBTC, "SELL", 2, "PARTIALLY_FILLED", <<F(1, 1, 3), F(2, 1, 5)>>),
     Trade(aliceBTC, "SELL", 2, "REJECTED", <<F(1, 1, 3)>>),
     Trade(aliceETH, "BUY", 1, "OPEN", <<F(1, 1, 2)>>),
     Trade(aliceETH, "SELL", 1, "OPEN", <<>>),
     Trade(bobBTC, "BUY", 1, "FILLED", <<>>),
     Trade(aliceETH, "BUY", 1, "PARTIALLY_FILLED", <<F(1, 0, 2)>>)}
================================================================================
