SPECIFICATION Spec
CONSTANTS
    Sandboxes = {s1, s2, s3}
    Workers = {w1, w2}
    Maint = maint
    NoThread = NoThread
    NoSandbox = NoSandbox
    NoRecord = NoRecord
    Backend = "docker"
    TimeoutActions = {"kill"}
    Requests = {"create", "pause", "resume", "wake", "snapshot", "fork", "delete", "arm", "clear"}
    Faults = {"backend", "copy", "rm"}
SYMMETRY Symmetry
INVARIANT TypeOK
INVARIANT TransientHeld
INVARIANT RecordMatchesRuntime
PROPERTY ImplementsService
