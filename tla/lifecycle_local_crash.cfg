SPECIFICATION FairSpec
CONSTANTS
    Sandboxes = {s1, s2}
    Workers = {w1, w2}
    Maint = maint
    NoThread = NoThread
    NoSandbox = NoSandbox
    NoRecord = NoRecord
    Backend = "local"
    TimeoutActions = {"kill"}
    Requests = {"create", "pause", "resume", "wake", "snapshot", "fork", "delete", "arm", "clear"}
    Faults = {"backend", "rmtree", "crash"}
INVARIANT NoLeak
PROPERTY ImplementsService
PROPERTY FollowsDiagram
PROPERTY TransientSettles
PROPERTY RecoveryCompletes
