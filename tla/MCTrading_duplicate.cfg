SPECIFICATION Spec
CONSTANTS
    k1 = k1
    k2 = k2
    alice = alice
    bob = bob
    r1 = r1
    r2 = r2
    Nobody = Nobody
    NoAccount = NoAccount
    NoReport = NoReport
    Requests = {r1, r2}
    Keys = {k1, k2}
    Accounts = {alice, bob}
    Calls <- MCCalls
    Reports <- MCReports
    Opening <- MCOpening
    MaxAttempts = 2
INVARIANT
    DuplicateKeyConverted
