SPECIFICATION FairSpec
CONSTANTS
    Backends = {"local", "docker", "e2b"}
    Ptys = {p1}
    NoPty = NoPty
    Conns = {k1}
    MaxOutput = 2
INVARIANT TypeOK
INVARIANT ResumesGapless
PROPERTY PollAfterExitIsWhole
INVARIANT DeleteReaches
INVARIANT MessagesArriveWhole
PROPERTY EndIsReported
PROPERTY EndIsTold
