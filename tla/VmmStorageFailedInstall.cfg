\* What the workers hold after a switch to another update that failed on one of them.
SPECIFICATION SwitchSpec
CONSTANTS
    w1 = w1
    w2 = w2
    p1 = p1
    p2 = p2
    p3 = p3
    u1 = u1
    u2 = u2
    u3 = u3
    Workers = {w1, w2}
    Names = {p1, p2, p3}
    Parameters <- SameParameters
    Updates = {u1, u2}
    Tensors <- FullManifests
    RequireAll = TRUE
    Original = Original
    NoUpdate = NoUpdate
INVARIANT ReportedIsBound
