SPECIFICATION Spec
CONSTANTS
    Procs = {p1, p2, p3}
    None = None
    Roles = {"op", "start", "stop"}
    Faults = {"panic", "credentials", "timeout"}
SYMMETRY ProcSymmetry
INVARIANTS OneIdleThread SuspendedWhileWorking StoppedStaysDown
