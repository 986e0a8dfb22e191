\* Several PaddleBoards: a record is read while it is being written.
SPECIFICATION Spec
CONSTANTS
    Pids = {p1, p2}
    Commands = {c1}
    None = None
INVARIANTS
    InterruptedNeverForgotten
