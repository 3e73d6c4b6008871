\* Workers with different parameters, switches between two updates, and a third one
\* with a tensor that no worker can bind; any worker may fail at any point.
SPECIFICATION Spec
CONSTANTS
    w1 = w1
    w2 = w2
    p1 = p1
    p2 = p2
    p3 = p3
    u1 = u1
    u2 = u2
    u3 = u3
    Workers = {w1, w2}
    Names = {p1, p2, p3}
    Parameters <- SplitParameters
    Updates = {u1, u2, u3}
    Tensors <- MixedManifests
    RequireAll = TRUE
    Original = Original
    NoUpdate = NoUpdate
INVARIANTS BoundIsMapped OwnStorageKept CleanReportedServed
