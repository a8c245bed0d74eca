SPECIFICATION Spec
CONSTANTS
    web = web
    tls = tls
    alt = alt
    n1 = n1
    n2 = n2
    None = None
    Hosts = {web, tls, alt}
    Name <- NameOf
    Addresses <- SomeAddresses
    Bound <- BoundTo
    Paths <- PathsOf
    Drafts <- DraftsOf
    Pages <- PagesOf
    Secured <- IsSecured
    BadHeader <- HasBadHeader
    Names = {n1, n2}
    Uris <- Asked
    Queries <- SomeQueries
INVARIANTS
    HostIsFound
    PathsAreIndependent
    ServicesAgree
