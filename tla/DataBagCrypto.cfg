SPECIFICATION ItemSpec
CONSTANTS
    k1 = k1
    k2 = k2
    old = old
    new = new
    mover = mover
    user = user
    Keys <- MCKeys
    Inputs <- MCInputs
    Secrets <- MCSecrets
    Users <- MCUsers
    ReadSecret <- MCReadSecret
    WriteSecret <- MCWriteSecret
    Wrong = Wrong
    Mantissa = 2
    MaxNumber = 8
    MaxLate = 1
    MaxDamage = 1
INVARIANTS
    NeverWrong
    ErrorsTell
    NoDrift
