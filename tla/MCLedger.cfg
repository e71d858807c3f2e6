\* Three sessions, each with any one of the calls.
SPECIFICATION Spec
CONSTANTS
    alice = alice
    bob = bob
    house = house
    ghost = ghost
    s1 = s1
    s2 = s2
    s3 = s3
    Nobody = Nobody
    Accounts <- MCAccounts
    Reserve <- MCReserve
    Unknown = ghost
    Sessions = {s1, s2, s3}
    Operations <- MCOperations
    OpenCredits <- MCOpenCredits
    OpenDebits <- MCOpenDebits
INVARIANTS
    TypeOK
    NoOverdraft
    LockedBalanceExact
PROPERTIES
    ReadNeverOverstates
    EverySessionEnds
    ImplementsAccountBook
