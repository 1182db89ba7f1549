CONSTANTS
    t1 = t1
    t2 = t2
    t3 = t3
    Tokens <- ThreeTokens
SPECIFICATION Spec
INVARIANT HelloTokenIsGenuine
INVARIANT FirstRotationKeepsAToken
PROPERTY UsesGrantedToken
CHECK_DEADLOCK FALSE
