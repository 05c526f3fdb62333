SPECIFICATION Spec
CONSTANTS
    Procs = {"p1", "p2"}
    QueueLimit = 2
    MaxEvents = 3
    Loops = {"p1"}
    MaxFaults = 1
    PageSize = 2
 
 
INVARIANT PagesComplete
CHECK_DEADLOCK FALSE
