\* Two tasks, no failure but a commit that fails.
SPECIFICATION Spec
CONSTANTS
    Tasks = {"a", "b"}
    MaxVersion = 3
    Undecodable = {2}
    Faults = {"conflict"}
    MaxFaults = 2
    NoTask = NoTask
INVARIANTS
    FailureIsReprocessed
