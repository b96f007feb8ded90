SPECIFICATION FairSpec
CONSTANTS
    Commands = {c1}
    NoCommand = NoCommand
    MaxOutput = 2
INVARIANT TypeOK
INVARIANT ClientMissesNothing
INVARIANT ShellsAreContinued
INVARIANT DeleteKillsListed
PROPERTY LifecycleEnds
PROPERTY EndedIsReported
