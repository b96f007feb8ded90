SPECIFICATION Spec
CONSTANTS
    Commands = {c1, c2}
    NoCommand = NoCommand
    MaxOutput = 1
SYMMETRY Symmetry
INVARIANT DeleteEndsListed
