------------------------- MODULE TlsListenerProofs -------------------------
(***************************************************************************)
(* Proofs about TlsListener, for every finite set of hosts and any         *)
(* clients, names, ports and lists of protocols.                           *)
(***************************************************************************)
EXTENDS TlsListener, FiniteSetTheorems, WellFoundedInduction, TLAPS

-----------------------------------------------------------------------------
(* About lists without repetitions.                                        *)

Below == {ss \in Nat \X Nat : ss[1] < ss[2]}

(* A set of numbers has a least one. *)
LEMMA Least ==
    ASSUME NEW T \in SUBSET Nat, T # {}
    PROVE  \E x \in T : \A y \in T : x <= y
<1>1. IsWellFoundedOn(Below, Nat)
  <2>1. Below = OpToRel(<, Nat)
    BY Zenon DEF Below, OpToRel
  <2>2. IsWellFoundedOn(OpToRel(<, Nat), Nat)
    BY NatLessThanWellFounded, Zenon
  <2> QED
    BY <2>1, <2>2, Zenon
<1>2. \E x \in T : \A y \in T : ~(<<y, x>> \in Below)
  BY <1>1, WFMin
<1>3. \A x \in T, y \in T : ~(<<y, x>> \in Below) => x <= y
  BY DEF Below
<1> QED
  BY <1>2, <1>3

(* A list that a finite set was put into has each of its elements. *)
LEMMA ListHasAll ==
    ASSUME NEW S, IsFiniteSet(S), NEW list \in SetToSeqs(S)
    PROVE  /\ DOMAIN list \subseteq Nat
           /\ \A i \in DOMAIN list : list[i] \in S /\ \A k \in 1 .. i - 1 : k \in DOMAIN list
           /\ \A p \in S : \E i \in DOMAIN list : list[i] = p
<1> DEFINE n == Cardinality(S)
<1>1. n \in Nat
  BY FS_CardinalityType
<1>2. list \in [1..n -> S] /\ \A i, j \in 1..n : i # j => list[i] # list[j]
  BY DEF SetToSeqs
<1>3. list \in Injection(1..n, S)
  BY <1>2 DEF Injection, IsInjective
<1>4. IsFiniteSet(1..n) /\ Cardinality(1..n) = n
  BY <1>1, FS_Interval
<1>5. list \in Surjection(1..n, S)
  BY <1>3, <1>4, FS_Injection
<1>6. \A p \in S : \E i \in 1..n : list[i] = p
  BY <1>5 DEF Surjection
<1> HIDE DEF n
<1> QED
  BY <1>1, <1>2, <1>6

-----------------------------------------------------------------------------
(* The invariant.                                                          *)

ServerNames == {Sni(h) : h \in Hosts}

(* h was accepted: its name is in the resolver, its protocols in the list *)
Taken(h) == Accepted(h) /\ resolver[Sni(h)] # None /\ Alpns(h) \subseteq alpns

(* The resolver and the protocols grow together, host by host, and nothing   *)
(* that is behind the loop is missing.                                       *)
ConfigInv ==
    /\ port \in Ports
    /\ todo \subseteq Hosts
    /\ resolver \in [ServerNames -> Hosts \cup {None}]
    /\ IsFiniteSet(alpns)
    /\ \A p \in alpns : \E h \in WithTls : p \in Alpns(h)
    /\ \A n \in ServerNames : resolver[n] # None => resolver[n] \in WithTls /\ Sni(resolver[n]) = n
    /\ pc = "loading" => alpns = {} /\ \A n \in ServerNames : resolver[n] = None
    /\ pc = "building" => \A h \in WithTls \ todo : Taken(h)
    /\ pc = "serving" => \A h \in WithTls : Taken(h)
    /\ pc = "unserved" => \E h \in WithTls : ~Accepted(h)
    /\ pc = "serving" => prefs \in SetToSeqs(alpns)

(* Where a client stands, and why. *)
ClientInv ==
    /\ stage \in [Clients -> Stages]
    /\ arrived \in [Clients -> 0 .. 2]
    /\ DOMAIN session = Clients /\ DOMAIN site = Clients /\ DOMAIN wrote = Clients
    /\ \A c \in Clients :
         /\ pc # "serving" => stage[c] = "open" /\ session[c] = NoSession
         /\ c \in SpeaksTls /\ stage[c] = "plain" => arrived[c] = 1
         /\ stage[c] = "refused" => ~WellMeant(c)
         /\ session[c].proto # None =>
              /\ session[c].proto \in Offers(c)
              /\ \E h \in WithTls : session[c].proto \in Alpns(h)
         /\ stage[c] \in {"hello", "secure", "answered"} => c \in SpeaksTls
         /\ stage[c] \in {"secure", "answered"} =>
              /\ session[c].host \in Certified(c)
              /\ session[c].proto \in Negotiable(c)
         /\ stage[c] = "answered" /\ port # 80 =>
              (site[c] = session[c].host <=> wrote[c] = Name(session[c].host))

TlsInv == ConfigInv /\ ClientInv

(* Whether a listener serves depends on the files and the names of its       *)
(* hosts, not on the order in which the map gives them (tls.rs 38-75).       *)
ServesTheSound ==
    /\ pc = "serving" => \A h \in Hosts : tls[h] # NoTls => Accepted(h)
    /\ pc = "unserved" => \E h \in Hosts : tls[h] # NoTls /\ ~Accepted(h)

(* Clients that offer the same get the same protocol, whichever hosts they   *)
(* ask for and whenever they come: none only if they offer none or no host   *)
(* with TLS has any (tls.rs 53-57, 75).                                      *)
OffersSettle ==
    LET Secure == {c \in Clients : stage[c] \in {"secure", "answered"}}
    IN  /\ \A c, d \in Secure : Offers(c) = Offers(d) => session[c].proto = session[d].proto
        /\ \A c \in Secure : /\ Offers(c) # {}
                             /\ \E h \in Hosts : tls[h] # NoTls /\ Alpns(h) # {}
                            => session[c].proto \in Offers(c)

(* Only who begins with a handshake gets a session, of a host with TLS whose *)
(* name is the one it asked for, but for the case of its letters, and two    *)
(* clients that ask alike are shown one certificate (worker/tcp.rs 76-108,   *)
(* tls.rs 49-61).                                                            *)
SessionsAreCertified ==
    \A c \in Clients : stage[c] \in {"secure", "answered"} =>
        /\ c \in SpeaksTls
        /\ session[c].host \in WithTls /\ Accepted(session[c].host)
        /\ Lower(Name(session[c].host)) = Lower(Asks(c))
        /\ \A d \in Clients : stage[d] \in {"secure", "answered"} /\ Lower(Asks(d)) = Lower(Asks(c)) =>
              session[d].host = session[c].host

LEMMA SniFact == \A h : Sni(h) = Lower(Name(h))
BY DEF Sni, ServerName, Key

(* Before it serves, a step of the listener touches no client. *)
LEMMA ClientsWait ==
    ASSUME ClientInv, pc # "serving", UNCHANGED clientVars
    PROVE  ClientInv'
<1>1. UNCHANGED <<arrived, stage, session, wrote, site>>
  BY DEF clientVars
<1>2. /\ stage' \in [Clients -> Stages] /\ arrived' \in [Clients -> 0 .. 2]
      /\ DOMAIN session' = Clients /\ DOMAIN site' = Clients /\ DOMAIN wrote' = Clients
  BY <1>1 DEF ClientInv
<1>3. \A c \in Clients : stage'[c] = "open" /\ session'[c] = NoSession
  BY <1>1 DEF ClientInv
<1> QED
  BY <1>2, <1>3 DEF ClientInv, NoSession

LEMMA LoadStep ==
    ASSUME TlsInv, Load
    PROVE  TlsInv'
<1>1. /\ pc = "loading" /\ pc' \in {"loading", "failed"} /\ todo' \subseteq todo
      /\ UNCHANGED <<port, resolver, alpns, prefs>> /\ UNCHANGED clientVars
  BY DEF Load, LoadPlain, ReadCert, AddTls, ReadKey, LoadFails
<1>2. ClientInv'
  BY <1>1, ClientsWait DEF TlsInv
<1>3. ServerNames' = ServerNames /\ \A h : Sni(h)' = Sni(h)
  BY <1>1, SniFact DEF ServerNames, Sni, ServerName, Key
<1>4. ConfigInv'
  BY <1>1, <1>3 DEF TlsInv, ConfigInv
<1> QED
  BY <1>2, <1>4 DEF TlsInv

LEMMA ConfigureStep ==
    ASSUME TlsAssumption, TlsInv, Configure
    PROVE  TlsInv'
<1> USE DEF TlsInv
<1>1. pc # "serving" /\ UNCHANGED clientVars
  BY DEF Configure, Build, AddHost, ConfigFails, ConfigDone
<1>2. ClientInv'
  BY <1>1, ClientsWait
<1>3. UNCHANGED <<port, tls>> /\ ServerNames' = ServerNames /\ WithTls' = WithTls
      /\ \A h : Sni(h)' = Sni(h) /\ (Accepted(h)' <=> Accepted(h))
  <2>1. UNCHANGED <<port, tls>>
    BY DEF Configure, Build, AddHost, ConfigFails, ConfigDone
  <2> QED
    BY <2>1 DEF ServerNames, Sni, ServerName, Key, WithTls, Accepted
<1>4. ASSUME Build
      PROVE  ConfigInv'
  BY <1>3, <1>4 DEF Build, ConfigInv, WithTls
<1>5. ASSUME NEW h \in Hosts, AddHost(h)
      PROVE  ConfigInv'
  <2>1. /\ pc = "building" /\ todo' = todo \ {h} /\ UNCHANGED <<pc, prefs>>
        /\ \/ h \notin WithTls /\ UNCHANGED <<resolver, alpns>>
           \/ /\ h \in WithTls /\ Accepted(h)
              /\ resolver' = [resolver EXCEPT ![Sni(h)] = h] /\ alpns' = alpns \cup Alpns(h)
    BY <1>5 DEF AddHost, WithTls
  <2>2. IsFiniteSet(alpns)'
    <3>1. IsFiniteSet(alpns) /\ IsFiniteSet(Alpns(h))
      BY DEF ConfigInv, TlsAssumption
    <3>2. IsFiniteSet(alpns \cup Alpns(h))
      BY <3>1, FS_Union
    <3> QED
      BY <2>1, <3>1, <3>2
  <2>3. Sni(h) \in ServerNames /\ h # None
    BY DEF ServerNames, TlsAssumption
  <2>4. /\ resolver' \in [ServerNames -> Hosts \cup {None}]
        /\ \A n \in ServerNames : \/ resolver'[n] = resolver[n]
                                  \/ resolver'[n] = h /\ n = Sni(h) /\ h \in WithTls
        /\ h \in WithTls => resolver'[Sni(h)] # None
    BY <2>1, <2>3 DEF ConfigInv
  <2>5. /\ alpns \subseteq alpns' /\ alpns' \subseteq alpns \cup Alpns(h)
        /\ h \in WithTls => Alpns(h) \subseteq alpns'
        /\ \A p \in alpns' : p \in alpns \/ (h \in WithTls /\ p \in Alpns(h))
    BY <2>1, Zenon
  <2>6. \A n \in ServerNames : resolver'[n] # None => resolver'[n] \in WithTls /\ Sni(resolver'[n]) = n
    BY <2>4 DEF ConfigInv
  <2>7. ASSUME NEW g \in WithTls \ todo'
        PROVE  Taken(g)'
    <3>1. g \in Hosts /\ Sni(g) \in ServerNames
      BY <1>3 DEF WithTls, ServerNames
    <3>2. CASE g = h
      BY <1>3, <2>1, <2>4, <2>5, <2>7, <3>2 DEF Taken
    <3>3. CASE g # h
      <4>1. Taken(g)
        BY <2>1, <2>7, <3>3 DEF ConfigInv
      <4>2. resolver'[Sni(g)] # None
        BY <2>3, <2>4, <3>1, <4>1 DEF Taken
      <4> QED
        BY <1>3, <2>5, <4>1, <4>2 DEF Taken
    <3> QED
      BY <3>2, <3>3
  <2>8. todo' \subseteq Hosts /\ port' \in Ports /\ pc' = "building"
    BY <1>3, <2>1 DEF ConfigInv
  <2>9. \A p \in alpns' : \E g \in WithTls : p \in Alpns(g)
    BY <2>5 DEF ConfigInv
  <2> QED
    BY <1>3, <2>2, <2>4, <2>6, <2>7, <2>8, <2>9 DEF ConfigInv
<1>6. ASSUME NEW h \in Hosts, ConfigFails(h)
      PROVE  ConfigInv'
  <2>1. h \in WithTls /\ ~Accepted(h) /\ pc' = "unserved" /\ UNCHANGED <<todo, resolver, alpns, prefs>>
    BY <1>6 DEF ConfigFails, WithTls
  <2> QED
    BY <1>3, <2>1 DEF ConfigInv
<1>7. ASSUME ConfigDone
      PROVE  ConfigInv'
  <2>1. /\ pc = "building" /\ todo = {} /\ pc' = "serving" /\ prefs' \in SetToSeqs(alpns)
        /\ UNCHANGED <<todo, resolver, alpns>>
    BY <1>7 DEF ConfigDone, Protocols
  <2>2. \A h \in WithTls : Taken(h)'
    BY <1>3, <2>1 DEF ConfigInv, Taken
  <2> QED
    BY <1>3, <2>1, <2>2 DEF ConfigInv
<1> QED
  BY <1>2, <1>4, <1>5, <1>6, <1>7 DEF Configure

(* A client that asks for a host with TLS and offers one of its protocols,   *)
(* or none, can agree on one.                                                *)
LEMMA CanAgree ==
    ASSUME TlsAssumption, ConfigInv, pc = "serving", NEW c \in Clients, WellMeant(c)
    PROVE  Certified(c) # {} /\ Negotiable(c) # {}
<1>1. PICK h \in WithTls : /\ Asks(c) # None /\ Lower(Name(h)) = Lower(Asks(c))
                           /\ Offers(c) = {} \/ Offers(c) \cap Alpns(h) # {}
  BY DEF WellMeant
<1>2. Certified(c) # {}
  <2> DEFINE g == resolver[Sni(h)]
  <2>1. h \in Hosts /\ Sni(h) \in ServerNames /\ g # None
    BY DEF ConfigInv, Taken, WithTls, ServerNames
  <2>2. g \in Hosts /\ Sni(g) = Sni(h)
    BY <2>1 DEF ConfigInv, WithTls
  <2>3. g \in Certified(c)
    BY <1>1, <2>2, SniFact DEF Certified
  <2> QED
    BY <2>3
<1>3. CASE Offers(c) = {}
  BY <1>2, <1>3 DEF Negotiable
<1>4. CASE Offers(c) # {}
  <2>1. PICK p \in alpns : p \in Offers(c)
    BY <1>1, <1>4 DEF ConfigInv, Taken
  <2>2. /\ DOMAIN prefs \subseteq Nat
        /\ \A i \in DOMAIN prefs : \A k \in 1 .. i - 1 : k \in DOMAIN prefs
        /\ \E i \in DOMAIN prefs : prefs[i] = p
    BY ListHasAll DEF ConfigInv
  <2> DEFINE T == {i \in DOMAIN prefs : prefs[i] \in Offers(c)}
  <2>3. T \in SUBSET Nat /\ T # {}
    BY <2>1, <2>2
  <2>4. PICK j \in T : \A i \in T : j <= i
    BY <2>3, Least
  <2>5. \A k \in 1 .. j - 1 : prefs[k] \notin Offers(c)
    BY <2>2, <2>3, <2>4
  <2>6. Negotiable(c) = {None} \/ prefs[j] \in Negotiable(c)
    BY <2>4, <2>5 DEF Negotiable
  <2> QED
    BY <1>2, <2>6
<1> QED
  BY <1>3, <1>4

(* What is agreed on was offered, and some host has it. *)
LEMMA AgreedFact ==
    ASSUME ConfigInv, pc = "serving", NEW c \in Clients, NEW p \in Negotiable(c), p # None
    PROVE  p \in Offers(c) /\ \E h \in WithTls : p \in Alpns(h)
<1>1. PICK j \in DOMAIN prefs : prefs[j] = p /\ p \in Offers(c)
  BY DEF Negotiable
<1>2. p \in alpns
  BY <1>1, ListHasAll DEF ConfigInv
<1> QED
  BY <1>1, <1>2 DEF ConfigInv

(* There is one first. *)
LEMMA OnlyOne ==
    ASSUME ConfigInv, pc = "serving", NEW c \in Clients,
           NEW p \in Negotiable(c), NEW q \in Negotiable(c)
    PROVE  p = q
<1>1. CASE prefs = <<>> \/ Offers(c) = {}
  BY <1>1 DEF Negotiable
<1>2. CASE ~(prefs = <<>> \/ Offers(c) = {})
  <2>1. PICK i \in DOMAIN prefs :
          /\ prefs[i] = p /\ p \in Offers(c)
          /\ \A k \in 1 .. i - 1 : prefs[k] \notin Offers(c)
    BY <1>2 DEF Negotiable
  <2>2. PICK j \in DOMAIN prefs :
          /\ prefs[j] = q /\ q \in Offers(c)
          /\ \A k \in 1 .. j - 1 : prefs[k] \notin Offers(c)
    BY <1>2 DEF Negotiable
  <2>3. DOMAIN prefs \subseteq Nat \ {0}
    <3>1. prefs \in [1 .. Cardinality(alpns) -> alpns]
      BY DEF ConfigInv, SetToSeqs
    <3> QED
      BY <3>1
  <2>4. i \notin 1 .. j - 1 /\ j \notin 1 .. i - 1
    BY <2>1, <2>2
  <2>5. i = j
    BY <2>3, <2>4
  <2> QED
    BY <2>1, <2>2, <2>5
<1> QED
  BY <1>1, <1>2

(* What depends on the configuration stays while that does. *)
LEMMA TlsSame ==
    ASSUME UNCHANGED <<pc, port, todo, reading, tls, resolver, alpns, prefs>>
    PROVE  /\ ConfigInv => ConfigInv'
           /\ WithTls' = WithTls
           /\ \A d : /\ WellMeant(d)' <=> WellMeant(d)
                     /\ Negotiable(d)' = Negotiable(d) /\ Certified(d)' = Certified(d)
<1>1. /\ WithTls' = WithTls /\ ServerNames' = ServerNames
      /\ \A h : Sni(h)' = Sni(h) /\ (Accepted(h)' <=> Accepted(h))
  BY DEF WithTls, ServerNames, Sni, ServerName, Key, Accepted
<1>2. \A h : Taken(h)' <=> Taken(h)
  BY <1>1 DEF Taken
<1>3. ConfigInv => ConfigInv'
  BY <1>1, <1>2 DEF ConfigInv
<1>4. \A d : (WellMeant(d)' <=> WellMeant(d)) /\ Negotiable(d)' = Negotiable(d)
  BY <1>1 DEF WellMeant, Negotiable
<1>5. \A d : Certified(d)' = Certified(d)
  BY <1>1 DEF Certified
<1> QED
  BY <1>1, <1>3, <1>4, <1>5

LEMMA ClientStep ==
    ASSUME TlsAssumption, TlsInv, NEW c \in Clients,
           Sends(c) \/ Peek(c) \/ Handshake(c) \/ Request(c)
    PROVE  TlsInv'
<1> USE DEF TlsInv
<1>1. pc = "serving" /\ UNCHANGED configVars
  BY DEF Sends, Peek, Handshake, Request, ClientInv
<1>2. UNCHANGED <<pc, port, todo, reading, tls, resolver, alpns, prefs>>
  BY <1>1 DEF configVars
<1>3. ConfigInv'
  BY <1>2, TlsSame DEF TlsInv
<1>4. /\ WithTls' = WithTls
      /\ \A d : /\ WellMeant(d)' <=> WellMeant(d)
              /\ Negotiable(d)' = Negotiable(d) /\ Certified(d)' = Certified(d)
  BY <1>2, TlsSame
<1>5. CASE Sends(c)
  <2>1. /\ stage[c] = "open" /\ UNCHANGED <<stage, session, wrote, site>>
        /\ arrived[c] < 2 /\ arrived' = [arrived EXCEPT ![c] = @ + 1]
    BY <1>5 DEF Sends
  <2>2. arrived' \in [Clients -> 0 .. 2] /\ \A d \in Clients : d # c => arrived'[d] = arrived[d]
    BY <2>1 DEF ClientInv
  <2> QED
    BY <1>1, <1>2, <1>3, <1>4, <2>1, <2>2 DEF ClientInv
<1>6. CASE Peek(c)
  <2>1. c \in SpeaksTls /\ stage'[c] = "plain" => arrived[c] = 1
    BY <1>6 DEF Peek, Readable, ClientInv
  <2>2. /\ stage[c] = "open" /\ UNCHANGED <<arrived, session, wrote, site>>
        /\ \E s \in {"hello", "plain"} :
             stage' = [stage EXCEPT ![c] = s] /\ (s = "hello" => c \in SpeaksTls)
    BY <1>6 DEF Peek
  <2>3. stage' \in [Clients -> Stages]
    BY <2>2 DEF ClientInv, Stages
  <2>4. stage'[c] \in {"hello", "plain"} /\ (stage'[c] = "hello" => c \in SpeaksTls)
        /\ \A d \in Clients : d # c => stage'[d] = stage[d]
    BY <2>2 DEF ClientInv
  <2> QED
    BY <1>1, <1>2, <1>3, <1>4, <2>1, <2>2, <2>3, <2>4 DEF ClientInv
<1>7. CASE Handshake(c)
  <2>1. CASE /\ Certified(c) = {} \/ Negotiable(c) = {}
             /\ stage' = [stage EXCEPT ![c] = "refused"]
             /\ UNCHANGED session
    <3>1. ~WellMeant(c)
      BY <1>1, <2>1, CanAgree
    <3>2. UNCHANGED <<arrived, session, wrote, site>>
      BY <1>7, <2>1 DEF Handshake
    <3>3. stage' \in [Clients -> Stages]
      BY <2>1 DEF ClientInv, Stages
    <3>4. stage'[c] = "refused" /\ \A d \in Clients : d # c => stage'[d] = stage[d]
      BY <2>1 DEF ClientInv
    <3> QED
      BY <1>1, <1>2, <1>3, <1>4, <3>1, <3>2, <3>3, <3>4 DEF ClientInv
  <2>2. ASSUME NEW h \in Certified(c), NEW p \in Negotiable(c),
               stage' = [stage EXCEPT ![c] = "secure"],
               session' = [session EXCEPT ![c] = [host |-> h, proto |-> p]]
        PROVE  TlsInv'
    <3>1. c \in SpeaksTls
      BY <1>7 DEF Handshake, ClientInv
    <3>2. p # None => p \in Offers(c) /\ \E g \in WithTls : p \in Alpns(g)
      BY <1>1, AgreedFact
    <3>3. UNCHANGED <<arrived, wrote, site>>
      BY <1>7 DEF Handshake
    <3>4. stage' \in [Clients -> Stages] /\ DOMAIN session' = Clients
      BY <2>2 DEF ClientInv, Stages
    <3>5. /\ stage'[c] = "secure" /\ session'[c].host = h /\ session'[c].proto = p
          /\ \A d \in Clients : d # c => stage'[d] = stage[d] /\ session'[d] = session[d]
      BY <2>2 DEF ClientInv
    <3> QED
      BY <1>1, <1>2, <1>3, <1>4, <3>1, <3>2, <3>3, <3>4, <3>5 DEF ClientInv
  <2> QED
    BY <1>7, <2>1, <2>2 DEF Handshake
<1>8. CASE Request(c)
  <2>1. PICK n \in Names :
          /\ wrote' = [wrote EXCEPT ![c] = n]
          /\ LET S == {h \in Hosts : Key(h) = Authority(n)}
             IN  site' = [site EXCEPT ![c] = IF S = {} THEN None ELSE CHOOSE h \in S : TRUE]
    BY <1>8 DEF Request
  <2> DEFINE S == {h \in Hosts : Key(h) = Authority(n)}
             g == session[c].host
             r == IF S = {} THEN None ELSE CHOOSE h \in S : TRUE
  <2>2. /\ stage[c] \in {"secure", "answered"} /\ stage' = [stage EXCEPT ![c] = "answered"]
        /\ UNCHANGED <<arrived, session>>
    BY <1>8 DEF Request
  <2>3. g \in Hosts /\ g # None
    BY <2>2 DEF ClientInv, Certified, TlsAssumption
  <2>4. port # 80 => (r = g <=> n = Name(g))
    <3> SUFFICES ASSUME port # 80
                 PROVE  r = g <=> n = Name(g)
      OBVIOUS
    <3>1. \A h \in Hosts : Key(h) = Authority(n) <=> Name(h) = n
      BY DEF Key, Authority
    <3>2. n = Name(g) => S = {g}
      BY <2>3, <3>1 DEF TlsAssumption
    <3>3. r = g => g \in S
      BY <2>3
    <3> QED
      BY <2>3, <3>1, <3>2, <3>3
  <2>5. site' = [site EXCEPT ![c] = r]
    BY <2>1
  <2> HIDE DEF S, r
  <2>6. /\ site'[c] = r /\ wrote'[c] = n /\ stage'[c] = "answered"
        /\ \A d \in Clients : d # c => /\ stage'[d] = stage[d] /\ site'[d] = site[d]
                                       /\ wrote'[d] = wrote[d]
        /\ DOMAIN site' = Clients /\ DOMAIN wrote' = Clients
    BY <2>1, <2>2, <2>5 DEF ClientInv
  <2>7. stage' \in [Clients -> Stages]
    BY <2>2 DEF ClientInv, Stages
  <2> QED
    BY <1>1, <1>2, <1>3, <1>4, <2>2, <2>4, <2>6, <2>7 DEF ClientInv
<1> QED
  BY <1>5, <1>6, <1>7, <1>8

LEMMA TlsStep ==
    ASSUME TlsAssumption, TlsInv, [Next]_vars
    PROVE  TlsInv'
<1>1. CASE UNCHANGED vars
  <2>1. UNCHANGED <<pc, port, todo, reading, tls, resolver, alpns, prefs>>
        /\ UNCHANGED <<arrived, stage, session, wrote, site>>
    BY <1>1 DEF vars, configVars, clientVars
  <2> QED
    BY <2>1, TlsSame DEF TlsInv, ClientInv
<1> QED
  BY <1>1, LoadStep, ConfigureStep, ClientStep DEF Next

-----------------------------------------------------------------------------
(* The theorems.                                                           *)

(* The invariant holds of every behaviour of the listener. *)
THEOREM TlsInvariant == Spec => []TlsInv
<1>1. Init => TlsInv
  <2>1. Init => ConfigInv
    BY FS_EmptySet DEF Init, ConfigInv, ServerNames
  <2>2. Init => ClientInv
    BY DEF Init, ClientInv, Stages, NoSession
  <2> QED
    BY <2>1, <2>2 DEF TlsInv
<1>2. TlsInv /\ [Next]_vars => TlsInv'
  BY TlsAssumption, TlsStep
<1> QED
  BY <1>1, <1>2, PTL DEF Spec

(* A listener that serves knows exactly the hosts with TLS, each with a      *)
(* matching pair, and has their protocols.                                   *)
THEOREM WholeConfig == Spec => []ConfigIsWhole
<1>1. TlsInv => ConfigIsWhole
  <2> SUFFICES ASSUME TlsInv, pc = "serving"
               PROVE  /\ \A h \in WithTls : resolver[Sni(h)] # None /\ tls[h].cert = tls[h].key
                      /\ \A n \in DOMAIN resolver : resolver[n] # None =>
                            resolver[n] \in WithTls /\ Sni(resolver[n]) = n
                      /\ prefs \in SetToSeqs(UNION {Alpns(h) : h \in WithTls})
    BY DEF ConfigIsWhole
  <2>1. \A h \in WithTls : resolver[Sni(h)] # None /\ tls[h].cert = tls[h].key
    BY DEF TlsInv, ConfigInv, Taken, Accepted
  <2>2. DOMAIN resolver = ServerNames
    BY DEF TlsInv, ConfigInv
  <2>3. alpns = UNION {Alpns(h) : h \in WithTls}
    BY DEF TlsInv, ConfigInv, Taken
  <2> QED
    BY <2>1, <2>2, <2>3 DEF TlsInv, ConfigInv
<1> QED
  BY <1>1, TlsInvariant, PTL

(* The order of the map decides nothing. *)
THEOREM OrderIsIrrelevant == Spec => []ServesTheSound
<1>1. TlsInv => ServesTheSound
  BY DEF TlsInv, ConfigInv, ServesTheSound, Taken, WithTls
<1> QED
  BY <1>1, TlsInvariant, PTL

(* The same offer leads to the same protocol. *)
THEOREM SameOfferSameProtocol == Spec => []OffersSettle
<1>1. TlsInv => OffersSettle
  <2> SUFFICES ASSUME TlsInv
               PROVE  OffersSettle
    OBVIOUS
  <2>1. ASSUME NEW c \in Clients, NEW d \in Clients, Offers(c) = Offers(d),
               NEW p \in Negotiable(c), NEW q \in Negotiable(d), pc = "serving"
        PROVE  p = q
    <3>1. Negotiable(c) = Negotiable(d)
      BY <2>1 DEF Negotiable
    <3> QED
      BY <2>1, <3>1, OnlyOne DEF TlsInv
  <2>2. ASSUME NEW c \in Clients, stage[c] \in {"secure", "answered"}
        PROVE  pc = "serving" /\ session[c].proto \in Negotiable(c)
    BY <2>2 DEF TlsInv, ClientInv
  <2>3. ASSUME NEW c \in Clients, stage[c] \in {"secure", "answered"}, Offers(c) # {},
               NEW h \in Hosts, tls[h] # NoTls, Alpns(h) # {}
        PROVE  session[c].proto \in Offers(c)
    <3>1. pc = "serving" /\ session[c].proto \in Negotiable(c)
      BY <2>2, <2>3
    <3>2. PICK p \in alpns : TRUE
      BY <2>3, <3>1 DEF TlsInv, ConfigInv, Taken, WithTls
    <3>3. \E i \in DOMAIN prefs : prefs[i] = p
      BY <3>1, <3>2, ListHasAll DEF TlsInv, ConfigInv
    <3>4. prefs # <<>>
      BY <3>3
    <3> QED
      BY <2>3, <3>1, <3>4 DEF Negotiable
  <2> QED
    BY <2>1, <2>2, <2>3 DEF OffersSettle
<1> QED
  BY <1>1, TlsInvariant, PTL

(* A session has the certificate of the host it was made for. *)
THEOREM CertifiedSessions == Spec => []SessionsAreCertified
<1>1. TlsInv => SessionsAreCertified
  <2> SUFFICES ASSUME TlsInv
               PROVE  SessionsAreCertified
    OBVIOUS
  <2>1. ASSUME NEW c \in Clients, stage[c] \in {"secure", "answered"}
        PROVE  /\ c \in SpeaksTls
               /\ session[c].host \in WithTls /\ Accepted(session[c].host)
               /\ Lower(Name(session[c].host)) = Lower(Asks(c))
               /\ resolver[Lower(Asks(c))] = session[c].host
    <3>1. pc = "serving" /\ c \in SpeaksTls /\ session[c].host \in Certified(c)
      BY <2>1 DEF TlsInv, ClientInv
    <3>2. /\ session[c].host \in Hosts /\ Sni(session[c].host) = Lower(Asks(c))
          /\ resolver[Lower(Asks(c))] = session[c].host
      BY <3>1 DEF Certified
    <3>3. session[c].host \in WithTls
      BY <3>2, TlsAssumption DEF TlsInv, ConfigInv, ServerNames, TlsAssumption
    <3>4. Accepted(session[c].host)
      BY <3>1, <3>3 DEF TlsInv, ConfigInv, Taken
    <3> QED
      BY <3>1, <3>2, <3>3, <3>4, SniFact
  <2> QED
    BY <2>1 DEF SessionsAreCertified
<1> QED
  BY <1>1, TlsInvariant, PTL

(* No well-meant client is refused, however many hosts there are and in      *)
(* whatever order their protocols are listed.                                *)
THEOREM WellMeantSecured == Spec => []WellMeantIsSecured
<1>1. TlsInv => WellMeantIsSecured
  BY TlsAssumption DEF TlsInv, ClientInv, WellMeantIsSecured, TlsAssumption
<1> QED
  BY <1>1, TlsInvariant, PTL

(* A protocol agreed on is that of some host with TLS. *)
THEOREM ProtocolsHaveHosts == Spec => []ProtocolHasHost
<1>1. TlsInv => ProtocolHasHost
  BY DEF TlsInv, ClientInv, ProtocolHasHost
<1> QED
  BY <1>1, TlsInvariant, PTL

(* The host of the certificate answers who writes its name, letter for       *)
(* letter, and nobody else, whatever the hosts, their names and the port.    *)
THEOREM CertifiedServed == Spec => []CertifiedIsServed
<1>1. TlsInv /\ SessionsAreCertified => CertifiedIsServed
  BY DEF TlsInv, ClientInv, CertifiedIsServed, SessionsAreCertified
<1> QED
  BY <1>1, TlsInvariant, CertifiedSessions, PTL

=============================================================================
