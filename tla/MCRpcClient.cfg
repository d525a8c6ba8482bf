CONSTANTS
    g0 = g0
    a1 = a1
    b1 = b1
    a2 = a2
    pg = pg
    pa = pa
    pb = pb
    v1 = v1
    v2 = v2
    Nil = Nil
    Callers <- TwoCallers
    Headers <- ThreeHeaders
    NumberOf <- Numbers
    ProofOf <- ProofTable
    Decodable <- SealedHeaders
    MaxCalls = 2
SPECIFICATION ClientSpec
INVARIANTS
    ClientInv
    SuccessIsAgreed
    SuccessIsForHeader
PROPERTIES
    CallsEnd
CHECK_DEADLOCK FALSE
