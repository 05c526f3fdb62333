SPECIFICATION HookSpec
CONSTANTS
    Events = {"e1", "e2"}
    Endpoints = {"p1"}
    Workers = {"w1"}
    Clients = {"c1"}
    MaxRetries = 1
    MaxJobs = 2
    MaxChanges = 1
    MaxDeaths = 1
INVARIANT JobsAccounted
PROPERTY EventuallySettled
CHECK_DEADLOCK FALSE
