\* No, one or two configuration objects, one assignment that may be refused; up to
\* two rows that end in a block, at its end or not at all, in a cache of any size.
SPECIFICATION FairPagedSpec
CONSTANTS
    Configurations <- MCConfigurations
    MaxTargets = 2
    Missing = "missing"
    None = None
    Lengths = {0, 2, 3}
    MaxRows = 2
    BlockSizes = {2}
    CacheBlocks = {None, 3}
INVARIANTS ConfigRestored ForwardSeesPolicy ResultIsOfItsForward TokensHaveSlots
PROPERTIES ScoreEnds
