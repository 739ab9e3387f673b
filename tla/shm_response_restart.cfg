\* The response queue with the proxy restarted and clearing it.
CONSTANTS
    px = px
    w1 = w1
    w2 = w2
    None = None
    Producers <- Workers
    Comsumers <- Proxy
    Locked <- Workers
    BlockSize = 11
    BufSize = 12
    Lens = {1, 2}
    WordMod = 64
    MaxSend = 2
    MaxCrash = 1
    MaxRestart = 1
SPECIFICATION FairSpecRestart
INVARIANT HeadInRange
PROPERTY Drains
