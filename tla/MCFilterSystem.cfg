CONSTANTS
    c1 = c1
    c2 = c2
    c3 = c3
    g = g
    a1 = a1
    a2 = a2
    b1 = b1
    b2 = b2
    b3 = b3
    None = None
    Clients <- MCClients
    Headers <- MCHeaders
    Genesis = g
    parent <- MCparent
    number <- MCnumber
    ChanSize = 1
    Setups <- MCSetups
SPECIFICATION Spec
INVARIANTS
    FilterInv
PROPERTIES
    CallsReturn
CHECK_DEADLOCK FALSE
