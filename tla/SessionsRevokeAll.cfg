SPECIFICATION Spec
CONSTANTS
    MaxConns = 2
    Reqs = {r1, r2}
    None = None
SYMMETRY Symmetry
INVARIANT RevokedAllStaysRevoked
