CONSTANTS
    t1 = t1
    t2 = t2
    t3 = t3
    c1 = c1
    c2 = c2
    k1 = k1
    k2 = k2
    Trxs <- MC_Trxs
    Sessions = {c1}
    Callbacks = {k1, k2}
    Invalid = {t3}
    MaxBlocks = 2
    MaxPops = 1
    Access <- MC_Access
    LoginInputs <- MC_AdminLogin

SPECIFICATION Spec
CHECK_DEADLOCK FALSE

PROPERTY AcceptedEventuallyConfirmed
