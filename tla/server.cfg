SPECIFICATION LogSpec
CONSTANTS
    h1 = h1
    h2 = h2
    h3 = h3
    p1 = p1
    p2 = p2
    Any = Any
    None = None
    Hosts = {h1, h2, h3}
    Addrs = {p1, p2}
    HostName <- Names
    BindAddrs <- Binds
    Protos <- Transports
    BadTls = {h3}
    MaxTaken = 1
    MaxStarts = 2
    QueueSize = 1
INVARIANTS
    OneListenerPerAddress
    HostsAreReachable
    StartedIsListening
    StopReleasesAll
    NothingUnheard
    RunningIsHeard
PROPERTIES
    PartialStartIsFinal
    StopCompletes
    WritersEnd
CHECK_DEADLOCK FALSE
