\* Two pids, two commands: two PaddleBoards at once, or one after the other
\* under a new, the same or a borrowed pid.
SPECIFICATION Spec
CONSTANTS
    Pids = {p1, p2}
    Commands = {c1, c2}
    None = None
CONSTRAINT Bounded
SYMMETRY Symmetry
INVARIANTS
    InterruptedNotForgotten
    ReportedOnce
    ReportsHonest
PROPERTIES
    LiveContainersKept
