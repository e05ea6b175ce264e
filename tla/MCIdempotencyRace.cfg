CONSTANTS
    Requests = {r1, r2, r3}
    Hashes = {h1, h2}
    MaxExpiries = 0
    NoRow = NoRow
    None = None
SPECIFICATION Spec
CHECK_DEADLOCK FALSE
INVARIANT ReplayOwnRequest
