SPECIFICATION PSpec
CONSTANTS
    r1 = r1
    r2 = r2
    r3 = r3
    alice = alice
    bob = bob
    btc = btc
    eth = eth
    Nobody = Nobody
    Null = Null
    Requests = {r1, r2, r3}
    Accounts = {alice, bob}
    Assets = {btc, eth}
    Workloads <- MCWorkloads
    Connections = 2
    MaxAttempts = 2
    OpeningUnits <- MCUnits
    OpeningCredits <- MCCredits
    OpeningDebits <- MCDebits
INVARIANTS
    TypeOK
    DurableWasReported
    LocksAreConnected
    ProtectedNeedsUser
    PTypeOK
    OffOnlyByWhatCommits
PROPERTIES
    EveryRequestEnds
