SPECIFICATION Spec
CONSTANTS
    u1 = u1
    u2 = u2
    u3 = u3
    h1 = h1
    h2 = h2
    Hashes = {h1, h2}
    Uploads = {u1, u2, u3}
    HashOf <- SameContent
    Streamed = {u2}
    MaxStops = 1
    None = None
CHECK_DEADLOCK FALSE
INVARIANT RowsHaveBlobs
