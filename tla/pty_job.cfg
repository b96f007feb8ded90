SPECIFICATION Spec
CONSTANTS
    Backends = {"local"}
    Ptys = {p1}
    NoPty = NoPty
    Conns = {}
    MaxOutput = 1
INVARIANT JobsEnd
