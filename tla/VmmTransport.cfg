\* Two consumers that may retry, release at any time, a join that may time out;
\* up to three tensors that fill a unit of alignment, end before or behind it,
\* or are empty.
SPECIFICATION FairTransportSpec
CONSTANTS
    Consumers = {c1, c2}
    Poke = Poke
    Nobody = Nobody
    Sizes = {0, 100, 256, 300}
    Granularities = {512}
    MaxTensors = 3
INVARIANTS WrongFdNeedsTimeout ReleasedClean PackedApart
PROPERTIES HandOversEnd
