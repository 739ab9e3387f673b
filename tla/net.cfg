\* Calls of two threads over one link.
SPECIFICATION FairSpec
CONSTANTS
    t1 = t1
    t2 = t2
    d1 = d1
    Threads = {t1, t2}
    Dests = {d1}
    Confs <- MCConfs
    Units = 2
    Calls <- MCCalls
    Reuse = FALSE
    None = None
INVARIANTS BooksExact OwnAnswer NoMix NoneForgotten
PROPERTIES CallEnds IdleClosed
CHECK_DEADLOCK FALSE
