\* The request queue: proxy to a group of two workers, no faults.
CONSTANTS
    px = px
    w1 = w1
    w2 = w2
    None = None
    Producers <- Proxy
    Comsumers <- Workers
    Locked <- Workers
    BlockSize = 11
    BufSize = 12
    Lens = {1, 2}
    WordMod = 64
    MaxSend = 3
    MaxCrash = 0
    MaxRestart = 0
SPECIFICATION FairSpec
INVARIANT NoLostWakeup
PROPERTIES ImplementsFifo AllDelivered
