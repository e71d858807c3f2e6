SPECIFICATION Spec
CONSTANTS
    alice = alice
    bob = bob
    cold = cold
    aliceBTC = aliceBTC
    aliceETH = aliceETH
    bobBTC = bobBTC
    t1 = t1
    t2 = t2
    t3 = t3
    Nobody = Nobody
    NoPosition = NoPosition
    Trades = {t1, t2, t3}
    Holdings = {aliceBTC, aliceETH, bobBTC}
    Accounts = {alice, bob, cold}
    AccountOf <- MCAccountOf
    CreditAccount <- MCCreditAccount
    Calls <- MCCalls
INVARIANTS
    TypeOK
    QuantityAgrees
    FilledAgrees
    FirstFillNeverLost
PROPERTIES
    AverageStaysBetween
    ImplementsPositionBook
    EveryTradeEnds
