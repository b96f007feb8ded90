SPECIFICATION Spec
CONSTANTS
    NoRecord = NoRecord
    NoItem = NoItem
    Request = Request
    CommandThread = CommandThread
    Writers = {Request, CommandThread}
    Backends = {"local", "docker"}
    Templates = {t1}
    Snapshots = {s1}
    Boxes = {b1, b2}
    Events = {e1}
    Keys = {t1, s1, b1, b2, e1}
    Values <- TheValues
    RepositoryWords = {"library", "localhost", "docker.io", "5000"}
    TagWords = {"latest", "5000", "library"}
    DigestWords = {"sha256:ab"}
    DottedWords = {"docker.io", "ghcr.io"}
INVARIANT TypeOK
INVARIANT SourceIsKept
INVARIANT ListedHasFiles
INVARIANT RunningIsComplete
INVARIANT NothingLeftBehind
INVARIANT ImagesAreCanonical
PROPERTY AtomicCatalogue
