SPECIFICATION Spec
CONSTANTS
    Backends = {"local"}
    Ptys = {p1}
    NoPty = NoPty
    Conns = {k1, k2}
    MaxOutput = 2
SYMMETRY Symmetry
INVARIANT ResumesGapless
