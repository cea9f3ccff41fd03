SPECIFICATION FairSpec
CONSTANTS
    c1 = c1
    c2 = c2
    LineFeed = LineFeed
    Garbage = Garbage
    Conns = {c1}
    MaxInputs = 3
INVARIANTS TypeOK Attended AnsweredBeforeClose
PROPERTIES ClosedIsReleased ServedIsAnswered
