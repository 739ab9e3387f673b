\* A group of one or two workers, restarted by exception, one reload, one worker that fails.
SPECIFICATION LiveSpec
CONSTANTS
    Pids = {p1, p2}
    MinNum = 1
    MaxNum = 2
    ExceptionRestart = TRUE
    MaxMsg = 1
    MaxFault = 1
    MaxReload = 1
INVARIANTS OldApart OldGone CountShort
PROPERTIES JoinReady ReloadEnds Recovers
