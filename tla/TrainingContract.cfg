\* Two prompts with up to two candidates, in one or both groupings; completions without
\* tokens, shorter and longer than completion_len, and a min_completion_len beyond it.
SPECIFICATION Spec
CONSTANTS
    MaxPrompts = 2
    MaxGenerations = 2
    MaxCandidates = 4
    Lengths = {0, 1, 3}
    RowLengths = {1}
    Loads <- FewLoads
    CompletionLen = 2
    MinCompletionLen = 3
    ScoredLen = 2
    None = None
INVARIANTS GroupsArePrompts RowsKeepTheirOwn ScoredRewardsTrained ReferencesCoverActive
CONSTRAINT Explored
CHECK_DEADLOCK FALSE
