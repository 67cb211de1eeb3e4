SPECIFICATION WalletSpec
CONSTANTS
    k1 = k1
    k2 = k2
    Payee = Payee
    Word = 64
    Keys = {k1, k2}
    Amounts = {2, 3, 6, 63}
    Fee = 2
    Reward = 4
    MaxBlocks = 5
    MaxSends = 2
CHECK_DEADLOCK FALSE
SYMMETRY KeySymmetry
INVARIANTS
    WalletTypeOK
    PaymentExact
    PaymentStaysValid
