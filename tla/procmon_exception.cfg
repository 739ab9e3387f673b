\* A group of one or two workers, restarted by exception, two workers that fail.
SPECIFICATION Spec
CONSTANTS
    Pids = {p1, p2, p3}
    MinNum = 1
    MaxNum = 2
    ExceptionRestart = TRUE
    MaxMsg = 1
    MaxFault = 2
    MaxReload = 0
SYMMETRY PidSymmetry
INVARIANT StaysInUse
