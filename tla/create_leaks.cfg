SPECIFICATION Spec
CONSTANTS
    Sandboxes = {s1, s2}
    Workers = {w1, w2}
    Maint = maint
    NoThread = NoThread
    NoSandbox = NoSandbox
    NoRecord = NoRecord
    Backend = "e2b"
    TimeoutActions = {"kill"}
    Requests = {"create", "pause", "resume", "wake", "snapshot", "fork", "delete", "arm", "clear"}
    Faults = {"backend", "late"}
SYMMETRY Symmetry
INVARIANT FailedCreateIsUndone
