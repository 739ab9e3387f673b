\* Main thread and two pool threads on two fds.
SPECIFICATION Spec
CONSTANTS
    Threads = {t1, t2}
    Primo = primo
    Daemon = daemon
    Fds = {f1, f2}
    DefaultNum = 1
    MaxNum = 3
    MaxTasks = 2
    MaxTimeout = 1
    MaxWork = 2
    MaxClosed = 2
    None = None
SYMMETRY Symmetric
INVARIANTS OnePlace WokenForReason EpollClosed PoolSound
