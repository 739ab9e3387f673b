\* Two requests of any kind, by one thread or two.
SPECIFICATION FairSpec
CONSTANTS
    t1 = t1
    t2 = t2
    a1 = a1
    a2 = a2
    Threads = {t1, t2}
    Acts = {a1, a2}
    Inputs <- MCInputs
    Kinds = {"tcp", "short", "session"}
    KeepActs = FALSE
    EpollFails = FALSE
    None = None
INVARIANTS ConnExact AnswerSeen
PROPERTIES OwnAnswer CallEnds
CHECK_DEADLOCK FALSE
