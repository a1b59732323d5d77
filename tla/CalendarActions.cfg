SPECIFICATION Spec
CONSTANTS
    Ops = {o1, o2}
    Edits = {x1}
    Rows = {r1, r2}
    Kinds = {"edit", "auto", "move", "editmove", "occ"}
    Faults = {"delete", "hide", "database"}
    SameAccount = TRUE
    MaxFailures = 1
    None = None
SYMMETRY ActionSymmetry
INVARIANTS NothingLost WrittenOnce OneHome
PROPERTY WritesAreClaimed
