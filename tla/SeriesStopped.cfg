SPECIFICATION StopSpec
CONSTANTS
    Requests = {q1}
    Clicks = {}
    Workers = {w1}
    Tokens = {}
    None = None
    MaxTasks = 3
    MaxFaults = 0
PROPERTY StoppedNeverSpawns
CHECK_DEADLOCK FALSE
