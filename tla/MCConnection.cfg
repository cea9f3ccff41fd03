SPECIFICATION FairSpec
CONSTANTS
    c1 = c1
    c2 = c2
    Conns = {c1, c2}
    Msgs = {m1, m2}
    MaxMsgs <- MCMaxMsgs
INVARIANTS TypeOK NoStalledQueue NoSocketLeak
PROPERTIES ClosedIsReleased WrittenIsSent ImplementsStream
