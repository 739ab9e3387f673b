\* The request queue with workers killed in the middle of dequeue.
CONSTANTS
    px = px
    w1 = w1
    w2 = w2
    None = None
    Producers <- Proxy
    Comsumers <- Workers
    Locked <- Workers
    BlockSize = 11
    BufSize = 12
    Lens = {1, 2}
    WordMod = 64
    MaxSend = 3
    MaxCrash = 2
    MaxRestart = 0
SPECIFICATION Spec
SYMMETRY WorkerSymmetry
INVARIANTS RingIntact ExactlyOnce NoClear CountDrift
