SPECIFICATION Spec
CONSTANTS
    modern = modern
    upper = upper
    ip = ip
    web = web
    curl = curl
    fox = fox
    old = old
    telnet = telnet
    m = m
    M = M
    i = i
    None = None
    Hosts = {modern, upper, ip}
    Name <- NameOf
    Configured = {modern}
    Nameless = {ip}
    Lower <- InSmallLetters
    Alpns <- AlpnsOf
    Ports = {80, 443, 8443}
    Clients = {web, curl, fox, old, telnet}
    SpeaksTls = {web, curl, fox, old}
    Asks <- AskedBy
    Offers <- OfferedBy
    Names = {m, M, i}
INVARIANTS
    ConfigIsWhole
    WellMeantIsSecured
    ProtocolHasHost
    CertifiedIsServed
CHECK_DEADLOCK FALSE
