SPECIFICATION Spec
CONSTANTS
    r1 = r1
    r2 = r2
    r3 = r3
    ann = ann
    ANN = ANN
    bob = bob
    pix = pix
    Requests = {r1, r2, r3}
    Addresses = {ann, ANN, bob}
    Lower <- MCLower
    BankRefs = {pix}
    Calls <- MCCalls
INVARIANT
    LinkedOnce
