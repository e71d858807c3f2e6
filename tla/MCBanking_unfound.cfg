SPECIFICATION Spec
CONSTANTS
    d1 = d1
    d2 = d2
    c1 = c1
    c2 = c2
    Nobody = Nobody
    NoTransfer = NoTransfer
    Deposits = {d1, d2}
    Callbacks = {c1, c2}
    Calls <- MCCalls
    MaxAttempts = 2
INVARIANT
    SettledIsFound
