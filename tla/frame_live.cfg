\* Liveness: no symmetry, two threads of the pool and one fd.
SPECIFICATION LiveSpec
CONSTANTS
    Threads = {t1, t2}
    Primo = primo
    Daemon = daemon
    Fds = {f1}
    DefaultNum = 1
    MaxNum = 3
    MaxTasks = 1
    MaxTimeout = 1
    MaxWork = 2
    MaxClosed = 1
    None = None
PROPERTY WakesUp
