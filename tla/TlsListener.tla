----------------------------- MODULE TlsListener -----------------------------
(***************************************************************************)
(* TLS on one TCP listener, from the files of its hosts to a request:      *)
(* Host::new() reads a certificate and a key (host/mod.rs),                *)
(* create_tls_config() makes one configuration of all the hosts (tls.rs),  *)
(* a worker tells TLS from plain text by the first two bytes               *)
(* (worker/tcp.rs), rustls chooses a certificate and a protocol by what    *)
(* the handshake says, and the service looks the host up again by what     *)
(* each request says, which need not be the same.                          *)
(*                                                                         *)
(* Hosts are those in the map of the listener, where names are unique as   *)
(* they are written; rustls ignores the case of their letters.             *)
(*                                                                         *)
(* The files belong to other processes, which may replace them between two *)
(* reads.  What is wrong with a file or a name is abstract: "junk" is what *)
(* rustls refuses.                                                         *)
(***************************************************************************)
EXTENDS Naturals, FiniteSets, SequencesExt

CONSTANTS
    Hosts,          \* the hosts of the listener
    Name(_),        \* HostConfig::hostname
    Configured,     \* the hosts whose configuration has TLS
    Nameless,       \* those whose name is none of DNS (an address), or not certified
    Lower(_),       \* a name in small letters
    Alpns(_),       \* Tls::supported_alpns
    Ports,          \* the ports the listener may have
    Clients,        \* the clients that connect
    SpeaksTls,      \* those that begin with a TLS handshake
    Asks(_),        \* the name in a client's handshake (SNI), None without
    Offers(_),      \* the protocols it offers
    Names,          \* the names that requests are for
    None            \* "nothing"

ASSUME TlsAssumption ==
    /\ Configured \cup Nameless \subseteq Hosts
    /\ SpeaksTls \subseteq Clients
    /\ None \notin Hosts
    /\ IsFiniteSet(Hosts) /\ \A h \in Hosts : IsFiniteSet(Alpns(h))
    /\ \A g, h \in Hosts : Name(g) = Name(h) => g = h

VARIABLES
    pc,         \* loading the hosts, building the configuration, or serving
    port,       \* the port of the listener
    todo,       \* the hosts that the running loop has not come to
    reading,    \* the host whose certificate was read, and whose key was not
    tls,        \* Host::tls, by the versions of certificate and key
    resolver,   \* ResolvesServerCertUsingSni::by_name
    alpns,      \* the set of protocols put together so far
    prefs,      \* ServerConfig::alpn_protocols
    arrived,    \* how many of its first two bytes a client has got through
    stage,      \* where each client stands
    session,    \* the certificate's host and the protocol of its TLS session
    wrote,      \* the name that its last request was for
    site        \* the host that this request was routed to

configVars == <<pc, port, todo, reading, tls, resolver, alpns, prefs>>
clientVars == <<arrived, stage, session, wrote, site>>
vars == <<configVars, clientVars>>

-----------------------------------------------------------------------------

CertContents == {"old", "new", "junk"}
KeyContents  == {"old", "new", "junk"}

Stages == {"open", "plain", "hello", "refused", "secure", "answered"}

NoTls == [cert |-> None, key |-> None]
NoSession == [host |-> None, proto |-> None]

(* MUTANT: the key without its port, on every port *)
Key_Bare(h) == <<Name(h)>>

(* the name under which the listener stores a host *)
Key(h) == IF port \in {80, 443} THEN <<Name(h)>> ELSE <<Name(h), port>>

(* rsplit_once(':'): what is left of the port, or all of it *)
ServerName(key) == key[1]

(* the name that rustls makes of it *)
Sni(h) == Lower(ServerName(Key(h)))

Init ==
    /\ pc = "loading"
    /\ port \in Ports
    /\ todo = Hosts
    /\ reading = None
    /\ tls = [h \in Hosts |-> NoTls]
    /\ resolver = [n \in {Sni(h) : h \in Hosts} |-> None]
    /\ alpns = {}
    /\ prefs = <<>>
    /\ arrived = [c \in Clients |-> 0]
    /\ stage = [c \in Clients |-> "open"]
    /\ session = [c \in Clients |-> NoSession]
    /\ wrote = [c \in Clients |-> None]
    /\ site = [c \in Clients |-> None]

-----------------------------------------------------------------------------
(* Host::new(), for one host after the other.                              *)

LoadPlain(h) ==
    /\ pc = "loading" /\ reading = None
    /\ h \in todo \ Configured
    /\ todo' = todo \ {h}
    /\ UNCHANGED <<pc, port, reading, tls, resolver, alpns, prefs, clientVars>>

ReadCert(h) ==
    /\ pc = "loading" /\ reading = None
    /\ h \in todo \cap Configured
    /\ \E content \in CertContents : tls' = [tls EXCEPT ![h].cert = content]
    /\ reading' = h
    /\ UNCHANGED <<pc, port, todo, resolver, alpns, prefs, clientVars>>

ReadKey ==
    /\ pc = "loading" /\ reading # None
    /\ \E content \in KeyContents : tls' = [tls EXCEPT ![reading].key = content]
    /\ todo' = todo \ {reading}
    /\ reading' = None
    /\ UNCHANGED <<pc, port, resolver, alpns, prefs, clientVars>>

(* a file is not there, or no longer when it is read: no host, no server *)
LoadFails ==
    /\ pc = "loading"
    /\ reading # None \/ todo \cap Configured # {}
    /\ pc' = "failed"
    /\ UNCHANGED <<port, todo, reading, tls, resolver, alpns, prefs, clientVars>>

(* add_tls(): the application has a pair of its own *)
AddTls(h) ==
    /\ pc = "loading" /\ reading = None
    /\ h \in Hosts \ todo
    /\ tls' = [tls EXCEPT ![h] = [cert |-> "new", key |-> "new"]]
    /\ UNCHANGED <<pc, port, todo, reading, resolver, alpns, prefs, clientVars>>

-----------------------------------------------------------------------------
(* create_tls_config(), over the map of hosts, whose order is arbitrary.   *)

Build ==
    /\ pc = "loading" /\ reading = None /\ todo = {}
    /\ pc' = "building"
    /\ todo' = Hosts
    /\ UNCHANGED <<port, reading, tls, resolver, alpns, prefs, clientVars>>

(* MUTANT: certificate and key are not compared *)
Accepted_Unpaired(h) == tls[h].key # "junk" /\ tls[h].cert # "junk" /\ h \notin Nameless

(* the key parses, it is the certificate's, and the name is one of DNS *)
Accepted(h) == tls[h].key # "junk" /\ tls[h].cert = tls[h].key /\ h \notin Nameless

(* of two names that differ in the case of letters the later one stays *)
AddHost(h) ==
    /\ pc = "building"
    /\ h \in todo
    /\ \/ tls[h] = NoTls /\ UNCHANGED <<resolver, alpns>>
       \/ /\ tls[h] # NoTls /\ Accepted(h)
          /\ resolver' = [resolver EXCEPT ![Sni(h)] = h]
          /\ alpns' = alpns \cup Alpns(h)
    /\ todo' = todo \ {h}
    /\ UNCHANGED <<pc, port, reading, tls, prefs, clientVars>>

(* the first error is that of the whole configuration: the dispatcher goes *)
(* on without a worker                                                     *)
ConfigFails(h) ==
    /\ pc = "building"
    /\ h \in todo
    /\ tls[h] # NoTls /\ ~Accepted(h)
    /\ pc' = "unserved"
    /\ UNCHANGED <<port, todo, reading, tls, resolver, alpns, prefs, clientVars>>

(* MUTANT: all protocols there are *)
Protocols_All == UNION {Alpns(h) : h \in Hosts}

Protocols == alpns

(* Vec::from_iter() of a HashSet: any order *)
ConfigDone ==
    /\ pc = "building" /\ todo = {}
    /\ pc' = "serving"
    /\ prefs' \in SetToSeqs(Protocols)
    /\ UNCHANGED <<port, todo, reading, tls, resolver, alpns, clientVars>>

-----------------------------------------------------------------------------
(* A client, the worker that looks at it, and its session.                 *)

(* bytes arrive in pieces *)
Sends(c) ==
    /\ pc = "serving" /\ stage[c] = "open"
    /\ arrived[c] < 2
    /\ arrived' = [arrived EXCEPT ![c] = @ + 1]
    /\ UNCHANGED <<configVars, stage, session, wrote, site>>

(* MUTANT: the worker looks without waiting for a byte *)
Readable_Always(c) == TRUE

(* peek() waits for the first byte, not for both *)
Readable(c) == arrived[c] > 0

Peek(c) ==
    /\ pc = "serving" /\ stage[c] = "open"
    /\ Readable(c)
    /\ stage' = [stage EXCEPT ![c] = IF c \in SpeaksTls /\ arrived[c] = 2 THEN "hello" ELSE "plain"]
    /\ UNCHANGED <<configVars, arrived, session, wrote, site>>

(* the host of the name, if the client gives one and the resolver has it *)
Certified(c) == {h \in Hosts : Asks(c) # None /\ Sni(h) = Lower(Asks(c)) /\ resolver[Sni(h)] = h}

(* the first of the server's protocols that the client offers; without a *)
(* list on either side there is none to agree on                          *)
Negotiable(c) ==
    IF prefs = <<>> \/ Offers(c) = {} THEN {None}
    ELSE {prefs[i] : i \in {j \in DOMAIN prefs :
            prefs[j] \in Offers(c) /\ \A k \in 1 .. j - 1 : prefs[k] \notin Offers(c)}}

Handshake(c) ==
    /\ stage[c] = "hello"
    /\ \/ /\ Certified(c) = {} \/ Negotiable(c) = {}
          /\ stage' = [stage EXCEPT ![c] = "refused"]
          /\ UNCHANGED session
       \/ \E h \in Certified(c), p \in Negotiable(c) :
            /\ stage' = [stage EXCEPT ![c] = "secure"]
            /\ session' = [session EXCEPT ![c] = [host |-> h, proto |-> p]]
    /\ UNCHANGED <<configVars, arrived, wrote, site>>

(* what a client of https writes for a host *)
Authority(n) == IF port = 443 THEN <<n>> ELSE <<n, port>>

(* one request after the other, each for any host: nothing compares it with *)
(* the name of the handshake                                                *)
Request(c) ==
    /\ stage[c] \in {"secure", "answered"}
    /\ \E n \in Names :
         /\ wrote' = [wrote EXCEPT ![c] = n]
         /\ LET S == {h \in Hosts : Key(h) = Authority(n)}
            IN  site' = [site EXCEPT ![c] = IF S = {} THEN None ELSE CHOOSE h \in S : TRUE]
    /\ stage' = [stage EXCEPT ![c] = "answered"]
    /\ UNCHANGED <<configVars, arrived, session>>

-----------------------------------------------------------------------------

Load ==
    \/ \E h \in Hosts : LoadPlain(h) \/ ReadCert(h) \/ AddTls(h)
    \/ ReadKey
    \/ LoadFails

Configure ==
    \/ Build
    \/ \E h \in Hosts : AddHost(h) \/ ConfigFails(h)
    \/ ConfigDone

Next ==
    \/ Load
    \/ Configure
    \/ \E c \in Clients : Sends(c) \/ Peek(c) \/ Handshake(c) \/ Request(c)

Spec == Init /\ [][Next]_vars

-----------------------------------------------------------------------------
(* Properties.                                                             *)

WithTls == {h \in Hosts : tls[h] # NoTls}

(* A listener that serves has a certificate for the name of each host with   *)
(* TLS, that of the host or of one whose name has the same letters, and for  *)
(* no other; certificates and keys belong together, though Host::new() may   *)
(* have read one before and the other after they were replaced; and it       *)
(* offers the protocols of these hosts, each once (host/mod.rs 70-93, tls.rs *)
(* 43-75).                                                                   *)
ConfigIsWhole ==
    pc = "serving" =>
        /\ \A h \in WithTls : resolver[Sni(h)] # None /\ tls[h].cert = tls[h].key
        /\ \A n \in DOMAIN resolver : resolver[n] # None => resolver[n] \in WithTls /\ Sni(resolver[n]) = n
        /\ prefs \in SetToSeqs(UNION {Alpns(h) : h \in WithTls})

(* it asks for a host that has TLS, with a protocol of that host or none *)
WellMeant(c) ==
    /\ Asks(c) # None
    /\ \E h \in WithTls :
         /\ Lower(Name(h)) = Lower(Asks(c))
         /\ Offers(c) = {} \/ Offers(c) \cap Alpns(h) # {}

(* Such a client gets its TLS session whatever the other hosts of the        *)
(* listener have, unless its first byte came alone and the worker looked     *)
(* before the second: then it is taken for plain text (worker/tcp.rs 76-83,  *)
(* tls.rs 49-61).                                                            *)
WellMeantIsSecured ==
    \A c \in SpeaksTls : WellMeant(c) =>
        /\ stage[c] # "refused"
        /\ stage[c] = "plain" => arrived[c] = 1

(* The protocol of a session is one that the client offered and that the     *)
(* host of its certificate has, or else another host of the listener that    *)
(* has TLS: the list is that of all of them (tls.rs 53-57 and 75).           *)
ProtocolHasHost ==
    \A c \in Clients : session[c].proto # None =>
        /\ session[c].proto \in Offers(c)
        /\ \E h \in WithTls : session[c].proto \in Alpns(h)

(* The two lookups over one session: the certificate is for the name that    *)
(* the client asked for, whatever the case of its letters, and a request is  *)
(* routed to the host of the certificate exactly if it writes the name of    *)
(* that host letter for letter, though the port is stripped for the one      *)
(* lookup and not for the other; any other name leads to another host or to  *)
(* none, session or not (listener/tcp.rs 92-104, tls.rs 49-61,               *)
(* service/http.rs 57-82).  On port 80 no request over TLS finds its host.   *)
CertifiedIsServed ==
    \A c \in Clients : stage[c] = "answered" /\ port # 80 =>
        /\ Lower(Name(session[c].host)) = Lower(Asks(c))
        /\ site[c] = session[c].host <=> wrote[c] = Name(session[c].host)

=============================================================================
