---------------------------- MODULE HttpService ----------------------------
(***************************************************************************)
(* How a request becomes an answer: the maps of hosts by name that the     *)
(* listeners fill (listener/tcp.rs, udp.rs), the lookup of the host and    *)
(* the redirect in the two services (service/http.rs for HTTP/1 and        *)
(* HTTP/2, service/quic.rs for HTTP/3), the choice of a path and the       *)
(* mapping of errors to status codes in the host (host/mod.rs), which both *)
(* share; and a client that makes requests and follows redirects.          *)
(*                                                                         *)
(* A uri is a sequence of letters; what a handler does is one of Results.  *)
(* Names are compared as they are written: two that differ in the case of  *)
(* their letters are two members of Names.                                 *)
(***************************************************************************)
EXTENDS Naturals, SequencesExt

CONSTANTS
    Hosts,          \* the hosts of the server
    Name(_),        \* HostConfig::hostname
    Addresses,      \* transport, interface and port of each listener
    Bound(_),       \* the addresses that a host is bound to
    Paths(_),       \* the uris of its configured paths
    Drafts(_),      \* the builders of paths that the application has for it
    Pages(_),       \* the statuses it has a page for, in its root directory
    Secured(_),     \* it has TLS, allows unsafe connections and enables HSTS
    BadHeader(_),   \* a default header that http refuses
    Names,          \* the names of hosts, and those that clients ask for
    Uris,           \* the paths of their uris
    Queries,        \* their queries, <<>> for none
    None            \* "nothing"

ASSUME HttpAssumption ==
    /\ None \notin Hosts /\ None # "http"
    /\ None \notin Seq({"/", "a", "b", "."})
    /\ Uris \cup Queries \subseteq Seq({"/", "a", "b", "."})
    /\ \A h \in Hosts : Paths(h) \cup {d.uri : d \in Drafts(h)} \subseteq Seq({"/", "a", "b", "."})
    /\ \A a \in Addresses : a.over \in {"tcp", "udp"}
    /\ \A h \in Hosts : Name(h) \in Names /\ Bound(h) \subseteq Addresses

VARIABLES
    paths,      \* Host::paths: the uris in the router
    added,      \* the hosts handed over to the server, in turn
    table,      \* the hosts of each listener, by the names they are stored under
    serving,    \* the server was started
    req,        \* the request of the client
    host,       \* the host that was found for it
    result,     \* what the handler of the chosen path did
    file,       \* what became of the file of a status page
    answer      \* the response: its status and its body

hostVars == <<paths, added, table, serving>>
vars == <<hostVars, req, host, result, file, answer>>

-----------------------------------------------------------------------------

(* A request names its host in the authority of its uri, or, when it is in *)
(* origin form, in the Host header; only the former shows a scheme.  One   *)
(* of HTTP/1.0 ("bare") may name none.                                     *)
Forms == {"bare", "origin", "absolute", "h2", "h3"}

Requests ==
    { r \in [form : Forms, scheme : {"http", "https"}, name : Names, to : Addresses,
             uri : Uris, query : Queries] :
        /\ r.form = "h3" <=> r.to.over = "udp"
        /\ r.form = "h3" => r.scheme = "https" }

Results == {"ok", "proxy", "auth", "forbidden", "notfound", "metadata", "range", "server", "other"}

DefaultPort(scheme) == IF scheme = "http" THEN 80 ELSE 443

(* what a client writes: no port where it is the default of the scheme *)
Authority(r) ==
    IF r.to.port = DefaultPort(r.scheme) THEN <<r.name>> ELSE <<r.name, r.to.port>>

SchemeOf(r) == IF r.form \in {"absolute", "h2", "h3"} THEN r.scheme ELSE None

(* under which the listener of a port stores a host, over TCP and over UDP *)
TcpKey(h, port) == IF port \in {80, 443} THEN <<Name(h)>> ELSE <<Name(h), port>>

(* MUTANT: the rule of the TCP listener *)
UdpKey_AsTcp(h, port) == IF port \in {80, 443} THEN <<Name(h)>> ELSE <<Name(h), port>>

UdpKey(h, port) == IF port = 443 THEN <<Name(h)>> ELSE <<Name(h), port>>

Key(h, a) == IF a.over = "udp" THEN UdpKey(h, a.port) ELSE TcpKey(h, a.port)

Keys == {<<n>> : n \in Names} \cup {<<n, a.port>> : n \in Names, a \in Addresses}

(* Both services look for the authority as it is written.  Over HTTP/3 it is *)
(* that of the uri, over TCP that of the uri or else the Host header.        *)
Found(r) ==
    IF r.form = "bare" \/ Authority(r) \notin Keys THEN None ELSE table[r.to][Authority(r)]

-----------------------------------------------------------------------------
(* Host::add_path(), Host::serve_status_page() and Host::route().          *)

(* HandlerPathBuilder::build() *)
Valid(draft) == draft.uri # <<>> /\ draft.handler

Files == {"missing", "locked", "readable"}

(* the page, or the reason phrase where there is none that can be opened: *)
(* the status is the same                                                 *)
StatusPage(h, status, f) ==
    [status |-> status, body |-> IF status \in Pages(h) /\ f = "readable" THEN "page" ELSE "reason"]

Dotted(uri) == \E i \in 1 .. Len(uri) - 1 : uri[i] = "." /\ uri[i + 1] = "."

(* MUTANT: the path that shares most letters with the uri *)
Chosen_MostShared(P, uri) ==
    LET shared(p) == Len(LongestCommonPrefix({p, uri}))
        S == {p \in P : shared(p) > 0}
    IN  IF S = {} THEN None ELSE CHOOSE p \in S : \A q \in S : shared(q) <= shared(p)

(* the path of exactly that uri, or the longest that the uri begins with: *)
(* letters count, not segments                                            *)
Chosen(P, uri) ==
    LET S == {p \in P : IsPrefix(p, uri)}
    IN  IF uri \in P THEN uri
        ELSE IF S = {} THEN None
        ELSE CHOOSE p \in S : \A q \in S : Len(q) <= Len(p)

StatusOf ==
    [proxy |-> 502, auth |-> 401, forbidden |-> 403, notfound |-> 404,
     metadata |-> 500, range |-> 416, server |-> 500]

(* an error that has no status; for the client, the end of the connection *)
(* (of HTTP/1) or of the stream (of HTTP/2)                                *)
NoAnswer == [status |-> 0, body |-> "none"]

Routed(h, uri, res, f) ==
    IF Dotted(uri) THEN StatusPage(h, 403, f)
    ELSE IF Chosen(paths[h], uri) = None THEN StatusPage(h, 404, f)
    ELSE CASE res = "ok" -> [status |-> 200, body |-> "content"]
           [] res = "other" -> NoAnswer
           [] OTHER -> StatusPage(h, StatusOf[res], f)

-----------------------------------------------------------------------------
(* HttpService::call() of either service.                                  *)

Redirected(h, r) == SchemeOf(r) = "http" /\ Secured(h)

(* the target is put together from the scheme of the request, and without *)
(* the mark between path and query                                        *)
Location(r) == [r EXCEPT !.uri = r.uri \o r.query, !.query = <<>>]

Plain(status) == [status |-> status, body |-> "reason"]

(* an error, of the route or of a default header, is left to hyper *)
HttpAnswer(r, h, res, f) ==
    IF r.form = "bare" THEN Plain(400)
    ELSE IF h = None THEN Plain(502)
    ELSE IF Redirected(h, r) THEN Plain(308)
    ELSE IF BadHeader(h) THEN NoAnswer
    ELSE Routed(h, r.uri, res, f)

(* MUTANT: every error of a handler is a 500 *)
QuicAnswer_OwnErrors(r, h, res, f) ==
    IF h = None THEN Plain(400)
    ELSE IF res # "ok" THEN Plain(500)
    ELSE Routed(h, r.uri, res, f)

(* an error of the route is a 500, a default header that is refused is left out *)
QuicAnswer(r, h, res, f) ==
    IF h = None THEN Plain(400)
    ELSE IF Routed(h, r.uri, res, f) = NoAnswer THEN Plain(500)
    ELSE Routed(h, r.uri, res, f)

Init ==
    /\ paths = [h \in Hosts |-> Paths(h)]
    /\ added = <<>>
    /\ table = [a \in Addresses |-> [k \in Keys |-> None]]
    /\ serving = FALSE
    /\ req = None
    /\ host = None
    /\ result = None
    /\ file = None
    /\ answer = None

(* a path of the same uri is replaced; the host is moved when it is added *)
AddPath(h) ==
    /\ h \notin ToSet(added)
    /\ \E d \in Drafts(h) : Valid(d) /\ paths' = [paths EXCEPT ![h] = @ \cup {d.uri}]
    /\ UNCHANGED <<added, table, serving, req, host, result, file, answer>>

(* VetisBuilder::add_host(), which adds it to the listener of each of its    *)
(* addresses: what was stored under its name there is replaced               *)
AddHost(h) ==
    /\ h \notin ToSet(added)
    /\ added' = Append(added, h)
    /\ table' = [a \in Addresses |-> [k \in Keys |->
                    IF a \in Bound(h) /\ k = Key(h, a) THEN h ELSE table[a][k]]]
    /\ UNCHANGED <<paths, serving, req, host, result, file, answer>>

Serve ==
    /\ ~serving
    /\ Hosts \subseteq ToSet(added)
    /\ serving' = TRUE
    /\ UNCHANGED <<paths, added, table, req, host, result, file, answer>>

Visit(r) ==
    /\ req' = r
    /\ host' = None
    /\ result' = None
    /\ file' = None
    /\ answer' = None
    /\ UNCHANGED hostVars

Request(r) ==
    /\ serving
    /\ req = None
    /\ Visit(r)

Call ==
    /\ req # None
    /\ answer = None
    /\ host' = Found(req)
    /\ result' \in Results
    /\ file' \in Files
    /\ answer' = IF req.form = "h3" THEN QuicAnswer(req, host', result', file')
                 ELSE HttpAnswer(req, host', result', file')
    /\ UNCHANGED <<hostVars, req>>

IsRedirect == answer # None /\ answer.status = 308

Follow ==
    /\ IsRedirect
    /\ Visit(Location(req))

(* the client goes on to something else *)
Leave ==
    /\ answer # None
    /\ Visit(None)

Next ==
    \/ \E h \in Hosts : AddPath(h) \/ AddHost(h)
    \/ Serve
    \/ \E r \in Requests : Request(r)
    \/ Call
    \/ Follow
    \/ Leave

Spec == Init /\ [][Next]_vars

-----------------------------------------------------------------------------
(* Properties.                                                             *)

(* over TCP, on the default port of the other scheme *)
Crossed(r) == r.to.over = "tcp" /\ r.to.port \in {80, 443} /\ r.to.port # DefaultPort(r.scheme)

Meant(r, h) == Name(h) = r.name /\ r.to \in Bound(h)

(* A request finds, of the hosts that have the name it asks for and are      *)
(* bound to the address it came to, the one that was added last, and none if *)
(* there is no such host: the client leaves out the port where the scheme    *)
(* has it for a default, the TCP listener on 80 and 443 and the UDP listener *)
(* on 443 only (listener/tcp.rs 92-104, udp.rs 92-104).  What misses is a    *)
(* request on the other scheme's default port.                               *)
HostIsFound ==
    answer # None /\ req.form # "bare" /\ ~Crossed(req) =>
        LET named == {i \in DOMAIN added : Meant(req, added[i])}
        IN  \/ named = {} /\ host = None
            \/ \E i \in named : host = added[i] /\ \A j \in named : j <= i

(* HTTP/3 answers as HTTP/1 and HTTP/2 do, page for page, whatever the       *)
(* handler does, except where the code says otherwise: no such host, a       *)
(* redirect, an error without a status and a refused header                  *)
(* (service/http.rs 50-191, quic.rs 44-137).                                 *)
ServicesAgree ==
    answer # None =>
        \/ host = None \/ Redirected(host, req) \/ BadHeader(host) \/ result = "other"
        \/ HttpAnswer(req, host, result, file) = QuicAnswer(req, host, result, file)

(* A path of a host is of no consequence for the requests that do not begin  *)
(* with it (host/mod.rs 287-307): without it the same path is chosen.        *)
PathsAreIndependent ==
    answer # None /\ host # None =>
        \A p \in paths[host] : ~IsPrefix(p, req.uri) =>
            Chosen(paths[host] \ {p}, req.uri) = Chosen(paths[host], req.uri)

(* "test_http_redirects_to_tls_when_hsts_is_enabled" (tests/server.rs 117):  *)
(* who follows the redirect is on TLS.                                       *)
RedirectsToTls == IsRedirect => Location(req).scheme = "https"

=============================================================================
