SPECIFICATION FairSpec
CONSTANTS
    Procs = {p1, p2}
    None = None
    Roles = {"op", "start", "stop"}
    Faults = {"timeout"}
PROPERTY StopCompletes
