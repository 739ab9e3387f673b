\* Three kinds of connection; one object per kind with waiting or parallel actions.
SPECIFICATION Spec
CONSTANTS
    Confs <- AllConfs
    NumHandlers = 4
    MaxPending = 1
    MaxParallel = 1
    LinkTimeouts = 2
    OverloadLimit = 0
    None = None
INVARIANTS HandlersExact UseLive OwnAnswer
PROPERTY RequestEnds
