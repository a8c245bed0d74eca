# VeTiS on tokio, in TLA+

This directory holds TLA+ models of the server in `src/` (the crate
`vetis-tokio`), the configurations with which TLC checks them on small
instances, and proofs that TLAPS checks. Paths below are relative to the root of
the repository's crate; `tcp.rs 298-322` means lines of that file.

## The system

| component | files | state | operations |
|---|---|---|---|
| Vetis server | `src/rt.rs`, `src/listener/mod.rs` | the listeners, the log worker's handle | `add_host`, `build`, `from_config`, `start`, `run`, `stop`, drop |
| TCP listener | `src/listener/tcp.rs` | reserved socket, signal, handle of the dispatcher's task | `reserve_port`, `listen`, `stop`, drop |
| TCP dispatcher | `src/listener/tcp.rs` | bounded channel, JoinSet of workers, their signals | `init`, `run` (the accept loop), `stop` |
| TCP worker | `src/worker/tcp.rs` | map of task handles by client address, signal | `run` (receive, peek, spawn, insert), `stop` |
| UDP listener, dispatcher, worker | `src/listener/udp.rs`, `src/worker/udp.rs` | as above, with a QUIC endpoint | as above; the dispatcher completes handshakes |
| HTTP/3 session | `src/worker/udp.rs` | the request being served | `serve_connection`, `serve_http`, `serve_raw` |
| HTTP services | `src/service/http.rs`, `src/service/quic.rs` | none of their own (hosts by name) | `call` |
| Host | `src/host/mod.rs`, `src/host/path.rs` | paths by uri, TLS material | `new`, `add_path`, `route`, `serve_status_page` |
| TLS configuration | `src/tls.rs` | none | `create_tls_config` |
| Log worker | `src/worker/log.rs` | receiving end of the log channel | `run` |
| ReaderStream | `src/io.rs` | the reader | `poll_next` |
| Metrics worker | `src/worker/metrics.rs` | - | never spawned |

How they interact. `start()` calls `listen()` of one listener after the other;
each spawns the task of its dispatcher, which spawns its workers and gives each
connection to one of them through a channel whose capacity is the number of
workers. A worker spawns a task per connection, which calls the service, which
calls the host, for each request. Shutting down goes the same way: a watch
channel from the listener to the dispatcher, one from the dispatcher to each
worker, one from a worker to the tasks it spawned; the dispatcher joins its
workers, `stop()` joins the dispatcher, and nobody joins the tasks of
connections. Dropping a value closes its watch channel, which the other side
takes for the signal.

What is hard here: the `select!`s, which drop a loop at any `await`; handles
stored after the task they belong to may have ended; a map keyed by an address
that connections share; workers that end and are not replaced; peers that stay
silent, reset or leave; errors that leave a loop with `?`; `start()` failing half
way; a client that never lets a request, a handshake or a body end. The list with
lines is under `hazards` in `PROJECT.json`.

What makes each part correct:

* listener and workers: no connection is lost without a cause, none is taken
  after `stop()`, the queue is bounded, an accepted connection reaches a worker,
  `stop()` returns, a running task can be reached by its worker's `stop()`;
* session: a finished response is whole, one request does not end the session
  for others, nothing but a named cause holds it up, it ends when told;
* services and host: a request finds the last host that was added under its name and
  address, the two services answer alike, a path matters only to the requests that begin with it;
* TLS: a configuration that is served knows every host with TLS with a matching
  pair, a client that means such a host well is secured, the protocol agreed on is
  somebody's, over a session the host of the certificate answers those requests that
  write its name;
* log: what a channel accepted is written, a running server is heard, the writers end;
* server: one listener per socket, every host reachable at its addresses, all
  listeners open after `start()`, no socket left after `stop()` but that of an HTTP/3
  endpoint whose connections still drain.

## Modules

| module | models | correspondence |
|---|---|---|
| `ListenerContract` | what either listener promises | abstract: `phase`, the connections `begun` and `over` |
| `TcpListener` | owner, dispatcher, workers, connection tasks, peers | `task` is the program counter of the dispatcher's task, `worker[w]` of a worker, `conn[c]` says who holds connection `c` or how it ended, `handles[w]` is the map of the worker, `hand[w]` the connection in its local variable |
| `UdpListener` | the same for QUIC | `shaking` is the await of the handshake, `collapsed` the dispatcher after the `?` |
| `ConnectionTask` | what the task of a QUIC connection promises | abstract: idle, busy, ended, told |
| `Http3Session` | that task from the inside | `pc` is the await it stands at, `body` and `read` the frames of the response |
| `HttpService` | the maps of hosts in the listeners, the paths of a host, one request at a time through a service and `Host::route`, a client that follows redirects | `AddHost` fills `table`, one map for each address, under `TcpKey` or `UdpKey`; `AddPath`, `Found`, `Redirected`, `Chosen`, `Routed`, `StatusPage`, `HttpAnswer`, `QuicAnswer` |
| `TlsListener` | `Host::new` and `add_tls`, `create_tls_config`, the worker's look at two bytes, handshake, routing of the requests over a session, each for any name | `tls[h]` is the pair in the host by versions of its files, `todo` the rest of the running loop, `resolver` (by lower-case name) and `alpns` what the loop has put together, `stage[c]` where a client stands, `wrote[c]` the name in its last request |
| `VetisServer` | builder, `start`, `stop`, drop | `at` is the index of the running loop; a listener is its contract's `phase`; a UDP listener that is over may be `lingering`, its socket with quinn's driver |
| `LogPipeline` | `VetisServer` with the channel and the thread of each `start()` | `senders` are the clones: of the future of `start()`, of a listener, of its task, of its connections' tasks, of those in a TLS handshake that nobody aborts |
| `TcpListenerProofs`, `UdpListenerProofs`, `Http3SessionProofs`, `HttpServiceProofs`, `TlsListenerProofs`, `VetisServerProofs`, `LogPipelineProofs` | theorems about the module of that name | |
| `MC...` | instances for TLC | |

How they compose: `TcpListener` and `UdpListener` are each shown to implement
`ListenerContract`; `VetisServer` uses a listener only through the phases of that
contract (`Closes` is its fairness, `Collapses` its collapse). `UdpListener` and
`Http3Session` are both shown to implement `ConnectionTask`, one from the outside
and one from the inside. `LogPipeline` puts the log beside the steps of
`VetisServer`, and is shown to change nothing about them. `map` in `PROJECT.json` gives the lines of each
definition. Operators named `X_Y` after a comment that begins with `MUTANT` are
not part of the models: each is a plausible mistake in the definition `X` that
makes a property fail.

What is abstract: bytes, headers and wording; addresses and ports are model
values except where 80 and 443 matter; names are model values too, two that differ in
the case of their letters being two (the services compare them as they are written,
and `Lower` in `TlsListener` is what rustls makes of a name); a handshake ends well or badly, except in
`TlsListener`, which says when; a file has a version, or is junk that rustls refuses;
the answer to a request over TCP is a step from `busy` to `idle`. Code of
other crates (tokio's channels, `select!`, JoinSet and abort; hyper, h3, quinn,
rustls; the path router of `vetis`) is modelled by how this code uses it. The
router's `get_longest_common_prefix` is taken to return the longest key that the
uri begins with.

## Runs

| run | instance | shows |
|---|---|---|
| `tcp_workers` | 2 workers, 3 connections (two of one address), workers symmetric | `IndInv`, the inductive invariant of the proofs; `StopLeavesNoWork`; `LossHasCause`; `LiveIsTracked` |
| `tcp_queue` | 1 worker, 3 connections: queue of one, one in the dispatcher's hand | `Backpressure`, `AcceptedIsTaken` with a full queue |
| `tcp_shutdown` | 2 workers, 2 connections of one address | `AcceptedIsTaken` with a second worker, `StopCompletes`, `OrphansEnd`, `ImplementsContract` |
| `tcp_stop_cuts` | 2 workers, 1 connection | finding: `NoRequestCutByStop` is violated |
| `udp` | 2 workers, 3 connections (two of one address) | `IndInv`, `StopLeavesNoWork`, `LossHasCause`, `StopCompletes`, `ArrivalsAreHandled`, `TasksEnd`, `ImplementsContract`, `RunsConnectionTasks` |
| `udp_handshake` | 1 worker, 1 connection | finding: `RunsUntilInterrupted` is violated |
| `http3` | 3 requests, one WebTransport, one with a head that is too large; 5 bodies | `IndInv`, `FinishedIsWhole`, `EndHasCause`, `AllHandled`, `SessionEnds`, `ImplementsTask` |
| `http` | 3 hosts, added in any order, two of them of one name; 6 addresses: TCP on 80, 443 and, for two interfaces, 8080, UDP on 80 and 443; 5 forms of request; 7 uris; paths added by the application, pages that cannot be opened | `HostIsFound`, `PathsAreIndependent`, `ServicesAgree` |
| `http_hsts` | the same | finding: `RedirectsToTls` is violated |
| `tls` | 3 hosts (TLS configured; the same name in capitals; named by an address) on 80, 443 or 8443, TLS also given by the application, files replaced between two reads; 5 clients, requests for any host over a session | `ConfigIsWhole`, `WellMeantIsSecured`, `ProtocolHasHost`, `CertifiedIsServed` |
| `server` | 3 hosts, 2 addresses, port 0, a refused certificate, one socket at a time with another process; 2 calls of `start()`, a queue of one message | `OneListenerPerAddress`, `HostsAreReachable`, `StartedIsListening`, `StopReleasesAll`, `NothingUnheard`, `RunningIsHeard`, `PartialStartIsFinal`, `StopCompletes`, `WritersEnd` |
| `server_tls` | the same with the certificate of a TCP host | finding: `StartReportsTls` is violated |

Bounds and why they are enough. Every connection makes its way at most once, so
most models are finite without a bound on counters. `LogPipeline` counts the
calls of `start()` up to `MaxStarts`: two are one that fails and one that finds its
remains, and the theorems hold for any number. `MaxTaken` is how many sockets other
processes have at a time: with one, which changes at any moment, each `listen()` and
each choice of a port can find its address taken or free; `QueueSize` is the configured length of the
queue, of which one is enough for full and empty. Two workers are needed for the
failure of one that must not touch the other; three connections for a queue that
is full while one more is in the dispatcher's hand, and for two connections of one
address beside a third; one worker for the queue of capacity one. More workers or
connections repeat these roles: the safety properties are proved for any number. In the server two addresses suffice for a collision and a
free alternative, and the three hosts cover a shared name, port 0, both
transports and a certificate that fails. Three requests are one that holds up the
loop, one behind it and one that goes another way. Three hosts in any order of adding are one that
replaces, one that is replaced and a bystander; the addresses are those where the two
listeners' rules for ports differ (80 over TCP and UDP) or agree, and a port of two
interfaces. Over TLS two hosts differ in
their protocols, so that a client may agree on one that its host lacks, and in the case of
their letters; the five clients offer a protocol of their host, another's or none, ask in
small letters, in capitals or for no name, or speak no TLS.

`CHECK_DEADLOCK FALSE` is in every configuration but the two of `HttpService`, because
these systems really stop: a listener that was stopped, a session that is over, a
server that is gone take no further step.

## Fairness

The tokio runtime polls a task that can go on, so each task of the server is
weakly fair as long as it does not wait for a client: the dispatcher, the workers,
the tasks of connections in what they do by themselves, and the branch of a
`select!` whose signal is there. Nothing forces a client to connect, send, read or
leave, a handler to answer, or the owner to stop. So a write of `Http3Session` (`SendHead`,
`SendData`, `FinishBody`) is not fair: the code sets no timeout, and a peer that stays
and does not read makes it wait for ever. Exceptions, each stated where
`Fairness` is defined: a QUIC handshake ends one way or the other, as the idle
timeout of the connection ends it; in `VetisServer` a caller that
awaits `start()` or `stop()` lets it run, and a listener keeps its contract (that a
`lingering` socket goes, `Drains`, is not assumed); in
`LogPipeline` a writer is a thread of its own, and the tasks of connections that
have lost their listener end, as the two listener modules show, but for what `OrphansEnd`
excepts: `HandshakesEnd` is not fair.
Progress properties name what may hold up progress (`OutOfOrder`, `HeldUp`, `HeldByPeer`): an
accepted connection is taken unless all workers are out of order for good, a
request of a session is handled unless one request holds up the session for good, be it in its
handler, its body or a write, and a writer ends unless a TLS handshake that nobody aborted
has a sender of it.

## What the checks show

Worth knowing beyond "it holds":

* A failed worker closes its own connections and no other's, and is not replaced:
  with all of them failed the dispatcher waits for ever with a connection in hand,
  though `stop()` still returns.
* The map of handles may miss a running task when two connections of one client
  address went through one worker (`LiveIsTracked`); the signal still ends it
  (`OrphansEnd`, `TasksEnd`), except a TLS handshake under way, which ends when the peer does.
* A handshake that is under way when its worker failed is aborted by nobody. Its task
  has a clone of the logger: as long as its peer stays, the log thread of that listener
  does not end, whatever becomes of the server (`WritersEnd`, `HeldByPeer`).
* A failed QUIC handshake ends the whole UDP listener. `stop()` then returns at
  once and workers may still be about to end.
* A handler that panics ends the task of its connection and nothing else; its
  handle stays in the map.
* Over TLS the protocol agreed on may be that of another host of the listener
  only. A TLS client whose first byte comes alone may be taken for plain text. One
  bad pair, or a TLS host named by an address, leaves the whole listener without a worker.
  A host on port 80 is not found over TLS by clients that write the port.
* Nothing compares the name of a TLS handshake with that of the requests over the session: a
  client with the certificate of one host is served any host of the listener that it
  writes. rustls ignores the case of letters and the services do not, so a client that is
  certified for `Example.org` and writes `example.org` finds no host, or another one, and of two hosts
  that differ only in case both are served under the certificate of one, the later in
  the map (`CertifiedIsServed`).
* Of the hosts added under one name and address only the last is found (`HostIsFound`).
* After `stop()` an HTTP/3 listener may still have its socket: the endpoint is dropped without
  `close()` or `wait_idle()`, and quinn's driver ends when the last connection has
  drained (`StopReleasesAll`). A server that is started at once on the same port may
  find it in use.
* A failed `start()` leaves its log thread running until `stop()` or drop; a
  second one has its own, and what listens after it succeeded logs to that one.
* After a `start()` that failed behind its first TCP listener, a second `start()`
  cannot succeed (`PartialStartIsFinal`), but `stop()` still releases what it can.
* Over HTTP/3 a body that fails for ever (a status page that opens and cannot be
  read) keeps its session busy until the worker tells it to end; a body that fails
  in the middle is finished as if it were whole; trailers are dropped; a
  WebTransport CONNECT gets no response. A peer that does not read its response, and does
  not leave, keeps the session from its other requests until the worker tells it to end.
* A host bound to 80 or 443 over TCP is not found by clients of the other scheme on that
  port, which write the port the listener leaves out. The UDP listener leaves out 443 only,
  and a host on 80 is found over HTTP/3.

Findings, each a run that TLC must find violated, with the line it contradicts in
`PROJECT.json`: `stop()` does not wait for ongoing requests; a failed handshake ends the
server's UDP listener though it should run until interrupted; `start()` does not report a
failing TLS configuration of a TCP listener; the redirect of a host with HSTS does
not lead to TLS.

## Proofs

Seven modules of theorems, checked by `tlapm`. They hold for all values of the
constants under the assumptions of each module (`TcpAssumption`, `ServerAssumption`, ...),
which TLC evaluates for the instances. None of the properties is inductive, so each
module has an invariant that is; each conjunct that is hard has a lemma of its own,
by cases over the actions.

* `TcpListenerProofs`, for any finite non-empty set of workers, any connections and
  addresses. `IndInv`: `OwnerInv` relates owner and dispatcher, `WorkersInv` dispatcher
  and workers, `HandInv` a worker and the connection in its hand, `QueueInv` and
  `QueuedInv` the queue and the connections in it, `ConnInv` the rest of the connections;
  `LossHasCause` and `LiveIsTracked` are conjuncts of their own. `StopLeavesNoWork`
  follows because a listener is stopped only when its dispatcher is done, which is
  done only when the workers are joined, and a connection waits only where
  somebody holds it. The bound of the queue comes from the cardinality of a
  sequence without repetitions. `KeepsContract`: every step maps to a step of
  `ListenerContract` or to a stutter. Three action properties need the same invariant:
  `ConnectionsAreServedOnce` (a connection only goes forward, and keeps its worker; a
  worker takes only what is queued, and only once), `StoppedForGood` (what `stop()`
  reached lasts) and `DrainIsBounded`, the safety core of `StopCompletes`: in a drain
  every step of a worker takes it nearer to its end or shortens the queue, which
  nobody lengthens. What `StopCompletes` adds is that the steps are taken. In the same
  way `HandshakesAreAborted` (an inductive invariant on top of `IndInv`: a worker that is
  closing has the handles it needs, one that ended has used them) and `OrphansOnlyShrink`
  are the safety core of `OrphansEnd`: its exception is the only one there is.
* `UdpListenerProofs`: the same argument, with two differences. After a collapse
  the workers are on their own, so `StopLeavesNoWork` rests on the closed channel; and
  at most one connection is between the endpoint and the queue, which also gives
  `BackpressureHolds`, handshakes included. `KeepsContract` and
  `TasksAreConnectionTasks` are the two refinements; `ConnectionsAreServedOnce`,
  `StoppedForGood` and `EndingIsBounded` are the action properties, the last for the
  drain and for the collapse.
* `Http3SessionProofs`: `IndInv` relates the loop's place, the prefix of the body
  that was read and the data that was sent; `FinishedIsWhole` then counts data
  frames of that prefix. `SessionIsTask` is the refinement. `NoStreamIsLost` is the safety
  core of `AllHandled`: a stream waits, is served, or has its outcome, and is in one of
  these places only. `AnswersAreFinal`: head before data, frame after frame, one
  request at a time, and nothing alters an answer that is complete.
* `VetisServerProofs`: `ServerInv` says that each socket has one listener, that a host
  is placed at its addresses up to the index of the loop, and that `start()` has opened,
  and `stop()` closed, the listeners up to theirs. `MergedFact` is the heart: to
  merge a host adds a listener or a name and takes nothing away. `PartialStart` uses
  a second invariant (`OnlyStopIsLeft`): the first listener keeps its own socket in
  the way of every further `start()`. `StopReleases` says what `stop()` leaves: at most the
  sockets of HTTP/3 listeners that are over and still drain. `PhaseInv` (`PhasesFollow`) says
  which phases the listeners may be in at each point of the server's life. From it follow `SocketsFollow` (which
  steps gain or lose a socket), `QuicTlsReported`, the half of the violated
  `StartReportsTls` that is true, and `TcpListenersKeepContract`: for every address, what the
  server does to its TCP listener is a step of `ListenerContract`. The last is the other
  side of `KeepsContract`: the server assumes of its listeners no more than the
  contract, which the listener is proved to keep. It does not hold of UDP listeners,
  which a second `start()` may open again after a collapse, and is not claimed of them.
* `LogPipelineProofs`: `LogImplementsServer`, and `LogKeepsServer` with it, carry the theorems about
  the server over to the server with its log. `HeardInv`: a sender is a clone of one
  that is still there, or that of a `start()` under way. `RunInv`: the loop of `start()` has
  given each listener it passed the sender of the newest writer, and a listener can
  only be opened when no task of an earlier `start()` is left. `LogInvariant` adds who holds a
  sender and until when (`HoldInv`); `SendersLeave` and `NoSenderReturns` are the safety core of
  `WritersEnd`: after a stop only connections, TLS handshakes (of TCP listeners
  only) and closing listeners keep a writer alive, and no step adds a sender that could
  keep it longer.
* `HttpServiceProofs`: two properties hold of the operators for all arguments
  (`ChosenFact`, `RoutedFact`); the invariant says what an answer was made of. `HostFound` needs
  what the maps are made of as well (`TableInv`: under a name each listener has the last
  host that was added for it) and that the client and the listener of an address write
  its name alike (`MeantFact`, where the ports and the transports are told apart).
  `ChosenIsLongest`: the path that is chosen matches, and no path that matches is longer (that
  there is a longest match is `Least`, by well-founded induction). `RedirectLoops`: a
  redirect leads to the same host over http, and so to itself. `PathsKeepTheirRequests`: a
  path that is added takes requests for itself and moves none between the others.
  `HttpAssumption` says for this that `None` is neither a scheme nor a uri.
* `TlsListenerProofs`: `ConfigInv` says that resolver and protocols grow together and miss nothing
  behind the loop, `ClientInv` why a client stands where it does. `ConfigIsWhole` states
  the configuration in full: the resolver has exactly the hosts with TLS, each with its
  own matching pair, and the protocols are some order of the union. `WellMeantIsSecured`
  needs that a list into which a finite set was put has all its elements (`ListHasAll`)
  and that one of those the client offers comes first (`Least`). The order of the hash set
  never decides whether a listener serves (`OrderIsIrrelevant`), only which common
  protocol is taken, the same for equal offers (`SameOfferSameProtocol`). `CertifiedServed`: the
  host of the certificate is, whatever the case of letters, the one asked for in the
  handshake, and the service agrees exactly for requests that write its name.
  `CertifiedSessions`: only who began with a handshake has a session, of a host with the
  name it asked for, and two that asked for the same name have the same certificate.

Of the properties of passing runs, every invariant and every action property is
proved, and the safety half of every refinement. Only model-checked are the liveness
properties (`StopCompletes`, `AcceptedIsTaken`, `OrphansEnd`, `ArrivalsAreHandled`,
`TasksEnd`, `AllHandled`, `SessionEnds`, `WritersEnd`), for which fairness and ENABLED would be
needed, the fairness half of `ImplementsContract` and `ImplementsTask`, and the four findings.
For `StopCompletes`, `OrphansEnd`, `AllHandled` and `WritersEnd` the safety core is proved, as
said above.

## Not modelled

* The metrics worker (dead code), `remove_host` (never called) and `ne` of
  `UdpListener` (never used).
* How `ReaderStream` grows its buffer and copies bytes: it keeps no other state
  between two polls.
* WebTransport streams after the request, and upgrades of HTTP/1: the code hands
  them to its libraries.
* Messages that find the log's channel full: the logging macros of the `vetis` crate,
  which are not awaited here, decide what becomes of them.
* A second `start()` that makes a collapsed UDP listener listen again: `VetisServer`
  has it, `UdpListener` follows one life of the listener only.
* The end of the accept loop of the UDP dispatcher when `accept()` returns `None`, and its
  `wait_idle()` (`src/listener/udp.rs` 324-328): quinn returns `None` only of an endpoint
  that was closed, which nothing here does, or whose driver failed on its socket.
* What quinn's driver does with the connections of a dropped endpoint: only that it keeps the
  socket for some time (`lingering`).
* The `unreachable!()` of the log worker (`src/worker/log.rs` 24): the macros give messages no
  level but the four that it names.
* The hosts in a configuration that is given to `config()` of the builder: `build()` ignores
  them (`src/rt.rs` 160-162), though the comment at 126-137 speaks of them; hosts are
  those of `add_host()`, or of `from_config()`.
* mTLS, OCSP, early data and the choice among cipher suites: rustls'.

## Plan

Done, in this order: the TCP listener with its contract and proofs, the UDP
listener, the server, the session, the services, then TLS, the log, handlers that
panic and the proofs of all modules. Server and TCP listener meet in
`ListenerContract`, which both sides are proved to respect. What is left: the safety core of
`TasksEnd` and `ArrivalsAreHandled` in `UdpListener`, the first-in first-out order of the
queues, and a second life in `UdpListener`, with which the server's side of the contract
could be stated for UDP too.
