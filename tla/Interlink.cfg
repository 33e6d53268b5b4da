CHECK_DEADLOCK FALSE
SPECIFICATION FairSpec
CONSTANTS
    Socks = {s1, s2}
    NoSock = NoSock
    MaxTrouble = 2
INVARIANTS TypeOK NeverStranded LogoutExcused
PROPERTIES ImplementsLink LoginKnown
