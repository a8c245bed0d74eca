---------------------------- MODULE VetisServer ----------------------------
(***************************************************************************)
(* The Vetis value (rt.rs): how hosts become listeners, how start() and    *)
(* stop() walk through the listeners one at a time, and what is left when  *)
(* one of the steps fails or the caller gives up in the middle.            *)
(*                                                                         *)
(* A listener is here what ListenerContract says of it: idle, open,        *)
(* closing or closed; TcpListener and UdpListener implement that contract. *)
(* A closed UDP listener may leave its socket behind ("lingering"): nobody *)
(* calls close() or wait_idle() on the endpoint before it is dropped, and  *)
(* quinn's driver keeps the socket until the connections have drained.     *)
(* An address stands for a port of one interface.                          *)
(***************************************************************************)
EXTENDS Naturals, Sequences, FiniteSets

CONSTANTS
    Hosts,          \* the hosts that may be added
    Addrs,          \* the addresses of the machine
    Any,            \* port 0: the system chooses
    HostName(_),    \* the key under which a listener stores a host
    BindAddrs(_),   \* HostConfig::bind_addresses, with Any for port 0
    Protos(_),      \* the transports of the host's protocols
    BadTls,         \* the hosts whose key or certificate rustls refuses
    MaxTaken,       \* BOUND: how many sockets other processes have at a time
    None            \* "no host"

ASSUME ServerAssumption ==
    /\ None \notin Hosts
    /\ Any \notin Addrs
    /\ BadTls \subseteq Hosts
    /\ MaxTaken \in Nat
    /\ \A h \in Hosts : BindAddrs(h) \in Seq(Addrs \cup {Any}) /\ Protos(h) \subseteq {"tcp", "udp"}

VARIABLES
    server,         \* where the Vetis value (or its builder) stands
    listeners,      \* Vetis::listeners
    added,          \* the hosts added so far
    current,        \* the host being added
    at,             \* the index of the running loop: over addresses or listeners
    taken           \* the sockets that other processes have bound

vars == <<server, listeners, added, current, at, taken>>

-----------------------------------------------------------------------------

ServerStates == {"building", "built", "starting", "running", "failed",
                 "stopping", "stopped", "gone"}
Phases == {"idle", "reserved", "open", "closing", "lingering", "closed"}

Listener == [proto : {"tcp", "udp"}, addr : Addrs, hosts : SUBSET Hosts, phase : Phases]

OwnSockets ==
    {<<listeners[i].proto, listeners[i].addr>> :
        i \in {j \in DOMAIN listeners : listeners[j].phase \in {"reserved", "open", "closing", "lingering"}}}

(* MUTANT: listening sockets share their port (SO_REUSEPORT) *)
Free_Shared(proto, addr) == <<proto, addr>> \notin taken

Free(proto, addr) == <<proto, addr>> \notin taken \cup OwnSockets

(* one host per name *)
WithHost(hosts, h) == {g \in hosts : HostName(g) # HostName(h)} \cup {h}

(* create_tls_config() fails as a whole when it fails for one host *)
TlsOk(l) == l.hosts \cap BadTls = {}

(* the phase of a listener whose value is dropped *)
Dropped(phase) ==
    CASE phase \in {"open", "closing"} -> "closing"
      [] phase = "lingering" -> "lingering"
      [] OTHER -> "closed"

(* where the socket of a listener that is over goes: TCP closes it, UDP when *)
(* no connection is left                                                     *)
Leaves(proto) == IF proto = "udp" THEN {"lingering", "closed"} ELSE {"closed"}

SetPhase(i, phase) == listeners' = [listeners EXCEPT ![i].phase = phase]

Init ==
    /\ server = "building"
    /\ listeners = <<>>
    /\ added = {}
    /\ current = None
    /\ at = 0
    /\ taken = {}

-----------------------------------------------------------------------------
(* add_host_to_listeners, for from_config() and VetisBuilder::add_host().  *)

(* MUTANT: an address that has a listener already is skipped *)
Merged_Skip(ls, proto, addr, phase, h) ==
    IF \E i \in DOMAIN ls : ls[i].proto = proto /\ ls[i].addr = addr
    THEN ls
    ELSE Append(ls, [proto |-> proto, addr |-> addr, hosts |-> {h}, phase |-> phase])

(* MUTANT: listeners are never compared *)
Merged_Push(ls, proto, addr, phase, h) ==
    Append(ls, [proto |-> proto, addr |-> addr, hosts |-> {h}, phase |-> phase])

(* the host joins the listener of that transport and address, if there is *)
(* one (a port just reserved is then given back), else it gets a new one  *)
Merged(ls, proto, addr, phase, h) ==
    IF \E i \in DOMAIN ls : ls[i].proto = proto /\ ls[i].addr = addr
    THEN [i \in DOMAIN ls |->
            IF ls[i].proto = proto /\ ls[i].addr = addr
            THEN [ls[i] EXCEPT !.hosts = WithHost(@, h)]
            ELSE ls[i]]
    ELSE Append(ls, [proto |-> proto, addr |-> addr, hosts |-> {h}, phase |-> phase])

AddHost(h) ==
    /\ server = "building"
    /\ current = None
    /\ h \notin added
    /\ current' = h
    /\ at' = 1
    /\ UNCHANGED <<server, listeners, added, taken>>

Requested == BindAddrs(current)[at]

(* the transport whose socket chooses the port: UDP takes over TCP's *)
Chooser == IF "tcp" \in Protos(current) THEN "tcp" ELSE "udp"

AddAddress ==
    /\ server = "building"
    /\ current # None
    /\ at <= Len(BindAddrs(current))
    /\ \E addr \in Addrs :
        /\ IF Requested = Any THEN Free(Chooser, addr) ELSE addr = Requested
        /\ LET Phase(proto) == IF Requested = Any /\ proto = Chooser THEN "reserved" ELSE "idle"
               With(ls, proto) ==
                 IF proto \in Protos(current) THEN Merged(ls, proto, addr, Phase(proto), current) ELSE ls
           IN  listeners' = With(With(listeners, "tcp"), "udp")
    /\ at' = at + 1
    /\ UNCHANGED <<server, added, current, taken>>

AddHostDone ==
    /\ server = "building"
    /\ current # None
    /\ at > Len(BindAddrs(current))
    /\ added' = added \cup {current}
    /\ current' = None
    /\ UNCHANGED <<server, listeners, at, taken>>

(* Host::new() finds no certificate or key: the error drops all listeners *)
HostFails ==
    /\ server = "building"
    /\ current = None
    /\ added # Hosts
    /\ server' = "gone"
    /\ listeners' = <<>>
    /\ UNCHANGED <<added, current, at, taken>>

(* reserve_port() finds no port: the error drops the builder *)
AddFails ==
    /\ server = "building"
    /\ current # None
    /\ at <= Len(BindAddrs(current))
    /\ Requested = Any
    /\ Protos(current) # {}
    /\ \A addr \in Addrs : ~Free(Chooser, addr)
    /\ server' = "gone"
    /\ listeners' = <<>>
    /\ UNCHANGED <<added, current, at, taken>>

(* The hosts are those of add_host(): a configuration given to config() is    *)
(* kept for its numbers, and the hosts in it are not looked at.               *)
Build ==
    /\ server = "building"
    /\ current = None
    /\ server' = "built"
    /\ UNCHANGED <<listeners, added, current, at, taken>>

-----------------------------------------------------------------------------
(* start()                                                                 *)

(* callable again after it failed, and after it succeeded; without a       *)
(* listener it returns NoListeners and changes nothing                     *)
Start ==
    /\ server \in {"built", "running", "failed"}
    /\ listeners # <<>>
    /\ server' = "starting"
    /\ at' = 1
    /\ UNCHANGED <<listeners, added, current, taken>>

(* listen() takes the reserved socket or binds one; a listener that listens *)
(* already finds its own socket in the way                                  *)
CanBind(l) ==
    \/ l.phase = "reserved"
    \/ Free(l.proto, l.addr)

(* TCP reads its TLS configuration in the dispatcher's task, after listen() *)
(* has returned; UDP before                                                 *)
ListenReports(l) == l.proto = "udp" /\ ~TlsOk(l)

ListenOk ==
    /\ server = "starting"
    /\ CanBind(listeners[at])
    /\ ~ListenReports(listeners[at])
    /\ SetPhase(at, "open")
    /\ at' = at + 1
    /\ server' = IF at = Len(listeners) THEN "running" ELSE "starting"
    /\ UNCHANGED <<added, current, taken>>

(* MUTANT: an error of listen() is skipped *)
ListenErr_Skipped ==
    /\ server = "starting"
    /\ ~CanBind(listeners[at]) \/ ListenReports(listeners[at])
    /\ at' = at + 1
    /\ server' = IF at = Len(listeners) THEN "running" ELSE "starting"
    /\ UNCHANGED <<listeners, added, current, taken>>

(* the first error ends start(); the listeners before it go on listening *)
ListenErr ==
    /\ server = "starting"
    /\ \/ ~CanBind(listeners[at]) /\ UNCHANGED listeners
       \/ /\ CanBind(listeners[at])
          /\ ListenReports(listeners[at])
          /\ SetPhase(at, "idle")
    /\ server' = "failed"
    /\ UNCHANGED <<added, current, at, taken>>

(* the caller drops the future of start() *)
StartAbandoned ==
    /\ server = "starting"
    /\ server' = "failed"
    /\ UNCHANGED <<listeners, added, current, at, taken>>

-----------------------------------------------------------------------------
(* stop(), which consumes the server, and dropping it.                     *)

(* without a listener it returns an error, and the server is gone *)
Stop ==
    /\ server \in {"built", "running", "failed"}
    /\ server' = IF listeners = <<>> THEN "gone" ELSE "stopping"
    /\ at' = 1
    /\ UNCHANGED <<listeners, added, current, taken>>

(* MUTANT: stop() sends the signal and does not await the listener *)
StopListener_Unawaited ==
    /\ server = "stopping"
    /\ SetPhase(at, Dropped(listeners[at].phase))
    /\ at' = at + 1
    /\ server' = IF at = Len(listeners) THEN "stopped" ELSE "stopping"
    /\ UNCHANGED <<added, current, taken>>

(* MUTANT: a listener that never listened is awaited as well *)
StopListener_AwaitsAll ==
    /\ server = "stopping"
    /\ \/ /\ listeners[at].phase = "open"
          /\ SetPhase(at, "closing")
          /\ UNCHANGED <<server, at>>
       \/ /\ listeners[at].phase \in {"lingering", "closed"}
          /\ at' = at + 1
          /\ server' = IF at = Len(listeners) THEN "stopped" ELSE "stopping"
          /\ UNCHANGED listeners
    /\ UNCHANGED <<added, current, taken>>

(* one listener after the other: signal and await, or just drop; a socket *)
(* that is no longer the listener's stays where it is                     *)
StopListener ==
    /\ server = "stopping"
    /\ \/ /\ listeners[at].phase = "open"
          /\ SetPhase(at, "closing")
          /\ UNCHANGED <<server, at>>
       \/ /\ listeners[at].phase \in {"idle", "reserved", "lingering", "closed"}
          /\ SetPhase(at, Dropped(listeners[at].phase))
          /\ at' = at + 1
          /\ server' = IF at = Len(listeners) THEN "stopped" ELSE "stopping"
    /\ UNCHANGED <<added, current, taken>>

(* the value, its builder, or a future that holds it is dropped *)
DropServer ==
    /\ server \notin {"stopped", "gone"}
    /\ server' = "gone"
    /\ listeners' = [i \in DOMAIN listeners |->
                        [listeners[i] EXCEPT !.phase = Dropped(@)]]
    /\ UNCHANGED <<added, current, at, taken>>

-----------------------------------------------------------------------------
(* What the listeners and the machine do.                                  *)

(* a requested shutdown completes (ListenerContract) *)
Closes(i) ==
    /\ i \in DOMAIN listeners
    /\ listeners[i].phase = "closing"
    /\ \E phase \in Leaves(listeners[i].proto) : SetPhase(i, phase)
    /\ UNCHANGED <<server, added, current, at, taken>>

(* a failed handshake ends an HTTP/3 listener (UdpListener) *)
Collapses(i) ==
    /\ i \in DOMAIN listeners
    /\ listeners[i].phase = "open"
    /\ listeners[i].proto = "udp"
    /\ \E phase \in Leaves("udp") : SetPhase(i, phase)
    /\ UNCHANGED <<server, added, current, at, taken>>

(* the last connection of a dropped endpoint has drained, and its driver ends *)
Drains(i) ==
    /\ i \in DOMAIN listeners
    /\ listeners[i].phase = "lingering"
    /\ SetPhase(i, "closed")
    /\ UNCHANGED <<server, added, current, at, taken>>

OtherProcess(proto, addr) ==
    /\ \/ /\ Free(proto, addr)
          /\ Cardinality(taken) < MaxTaken
          /\ taken' = taken \cup {<<proto, addr>>}
       \/ <<proto, addr>> \in taken /\ taken' = taken \ {<<proto, addr>>}
    /\ UNCHANGED <<server, listeners, added, current, at>>

-----------------------------------------------------------------------------

Next ==
    \/ \E h \in Hosts : AddHost(h)
    \/ HostFails
    \/ AddAddress
    \/ AddHostDone
    \/ AddFails
    \/ Build
    \/ Start
    \/ ListenOk
    \/ ListenErr
    \/ StartAbandoned
    \/ Stop
    \/ StopListener
    \/ DropServer
    \/ \E i \in DOMAIN listeners : Closes(i) \/ Collapses(i) \/ Drains(i)
    \/ \E proto \in {"tcp", "udp"}, addr \in Addrs : OtherProcess(proto, addr)

(* start() and stop() run to their end once called, and a listener keeps    *)
(* its contract.  Nobody has to call them.                                  *)
Fairness ==
    /\ WF_vars(ListenOk \/ ListenErr)
    /\ WF_vars(StopListener)
    /\ WF_vars(\E i \in DOMAIN listeners : Closes(i))

Spec == Init /\ [][Next]_vars

-----------------------------------------------------------------------------
(* Properties.                                                             *)

(* Every variable stays within its type. *)
TypeOK ==
    /\ server \in ServerStates
    /\ listeners \in Seq(Listener)
    /\ added \subseteq Hosts
    /\ current \in Hosts \cup {None}
    /\ at \in Nat
    /\ server \in {"starting", "stopping"} => at \in DOMAIN listeners
    /\ taken \subseteq {"tcp", "udp"} \X Addrs

(* No two listeners stand for the same socket, though some addresses are     *)
(* chosen by the system and may be those of listeners that are not bound yet *)
(* (rt.rs 74-83 and 104-113): otherwise start() could never succeed.         *)
OneListenerPerAddress ==
    \A i, j \in DOMAIN listeners :
        listeners[i].proto = listeners[j].proto /\ listeners[i].addr = listeners[j].addr => i = j

(* A host that was added is known, or a later one of its name is, at each of *)
(* its addresses and for each of its transports, under one address for both  *)
(* even when the system chose it (rt.rs 45-115).                             *)
HostsAreReachable ==
    server # "gone" =>
        \A h \in added : \A k \in DOMAIN BindAddrs(h) :
            \E addr \in Addrs :
                /\ BindAddrs(h)[k] \in {addr, Any}
                /\ \A proto \in Protos(h) : \E i \in DOMAIN listeners :
                    /\ listeners[i].proto = proto /\ listeners[i].addr = addr
                    /\ \E g \in listeners[i].hosts : HostName(g) = HostName(h)

(* When start() has succeeded every listener listens, except an HTTP/3 one   *)
(* that collapsed since (rt.rs 238-251).                                     *)
StartedIsListening ==
    server = "running" =>
        \A i \in DOMAIN listeners :
            \/ listeners[i].phase = "open"
            \/ listeners[i].proto = "udp" /\ listeners[i].phase \in {"lingering", "closed"}

(* When stop() has returned no TCP socket of the server is left, and no UDP  *)
(* socket that is reserved or listened on, also after a start() that failed  *)
(* half way (rt.rs 354-368).  What may be left is the socket of an HTTP/3    *)
(* listener that is over: stop() drops its endpoint without close() or       *)
(* wait_idle() (listener/udp.rs 331-351), and connections may still drain.   *)
StopReleasesAll ==
    server = "stopped" =>
        OwnSockets \subseteq {<<"udp", listeners[i].addr>> :
            i \in {j \in DOMAIN listeners : listeners[j].phase = "lingering"}}

(* A start() that failed, or was abandoned, after its first listener was     *)
(* open cannot be repaired by calling it again: that listener finds its own  *)
(* socket in the way (rt.rs 240-248), so only stop() is left.                *)
PartialStartIsFinal ==
    []( /\ server = "failed"
        /\ listeners[1].proto = "tcp" /\ listeners[1].phase = "open"
        => [](server # "running") )

(* stop() returns, also after a start() that failed half way, or when a      *)
(* listener has collapsed since (rt.rs 354-368).                             *)
StopCompletes == server = "stopping" ~> server \in {"stopped", "gone"}

(* "Returns an error if: [...] TLS configuration fails" (rt.rs 324-327).     *)
StartReportsTls == server = "running" => \A i \in DOMAIN listeners : TlsOk(listeners[i])

=============================================================================
