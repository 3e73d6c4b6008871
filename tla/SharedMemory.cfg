\* Two segments and an empty tensor; one consumer runs on Python before 3.13.
SPECIFICATION FairSpec
CONSTANTS
    Tensors = {weight, bias, empty}
    EmptyTensors = {empty}
    Consumers = {c1, c2}
    Trackers = {c2}
INVARIANTS AttachedWhole NoNamesLeft OpenWhilePublished
PROPERTY LoopsEnd
CHECK_DEADLOCK FALSE
