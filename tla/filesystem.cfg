SPECIFICATION Spec
SYMMETRY Symmetry
CONSTANTS
    Threads = {r1, r2}
    Deleter = d
    Nodes = {n1, n2, n3, n4, n5, n6, n7, n8, n9, n10, n11}
    Unknown = Unknown
    Asks <- TheAsks
    Trees <- TheTrees
INVARIANT TypeOK
INVARIANT RefusalsKeepFiles
INVARIANT WorkspaceFollowsSandbox
PROPERTY AsAlone
PROPERTY MoveKeepsFiles
