------------------------- MODULE VetisServerProofs -------------------------
(***************************************************************************)
(* Proofs about VetisServer, for every set of hosts and addresses.         *)
(***************************************************************************)
EXTENDS VetisServer, SequenceTheorems, TLAPS

Transports == {"tcp", "udp"}

Alike(l, m) == l.proto = m.proto /\ l.addr = m.addr

(* each socket has one listener *)
OneEach(ls) == \A i, j \in DOMAIN ls : Alike(ls[i], ls[j]) => i = j

(* a host of that name is known there *)
Reaches(ls, proto, addr, name) ==
    \E i \in DOMAIN ls :
        /\ ls[i].proto = proto /\ ls[i].addr = addr
        /\ \E g \in ls[i].hosts : HostName(g) = name

(* no listener is lost or changes its phase, and new ones have that phase *)
Extends(m, ls, phase) ==
    /\ DOMAIN ls \subseteq DOMAIN m
    /\ \A i \in DOMAIN ls : Alike(m[i], ls[i]) /\ m[i].phase = ls[i].phase
    /\ \A i \in DOMAIN m \ DOMAIN ls : m[i].phase = phase

-----------------------------------------------------------------------------
(* How a host joins the listeners.                                         *)

(* A function on an interval is a sequence. *)
LEMMA MapIsSeq ==
    ASSUME NEW S, NEW n \in Nat, NEW f \in [1..n -> S]
    PROVE  f \in Seq(S) /\ Len(f) = n /\ DOMAIN f = 1..n
BY SeqDef

(* Adding a host adds its listener or its name, and takes nothing away: each *)
(* socket keeps its one listener, and what was reachable stays so.           *)
LEMMA MergedFact ==
    ASSUME NEW ls \in Seq(Listener), NEW proto \in Transports, NEW addr \in Addrs,
           NEW phase \in Phases, NEW h \in Hosts
    PROVE  LET m == Merged(ls, proto, addr, phase, h)
           IN  /\ m \in Seq(Listener)
               /\ OneEach(ls) => OneEach(m)
               /\ \A p, a, n : Reaches(ls, p, a, n) => Reaches(m, p, a, n)
               /\ Reaches(m, proto, addr, HostName(h))
               /\ Extends(m, ls, phase)
<1> DEFINE m == Merged(ls, proto, addr, phase, h)
           new == [proto |-> proto, addr |-> addr, hosts |-> {h}, phase |-> phase]
           There(l) == l.proto = proto /\ l.addr = addr
           Joined(l) == IF There(l) THEN [l EXCEPT !.hosts = WithHost(@, h)] ELSE l
<1>1. Len(ls) \in Nat /\ DOMAIN ls = 1..Len(ls) /\ \A i \in DOMAIN ls : ls[i] \in Listener
  OBVIOUS
<1>2. CASE \E i \in DOMAIN ls : There(ls[i])
  <2>1. m = [i \in 1..Len(ls) |-> Joined(ls[i])]
    BY <1>1, <1>2 DEF Merged
  <2>2. ASSUME NEW l \in Listener
        PROVE  /\ Joined(l) \in Listener /\ Alike(Joined(l), l) /\ Joined(l).phase = l.phase
               /\ \A g \in l.hosts : \E k \in Joined(l).hosts : HostName(k) = HostName(g)
               /\ There(l) => h \in Joined(l).hosts
    BY DEF Listener, WithHost, Alike
  <2>3. /\ m \in Seq(Listener) /\ DOMAIN m = DOMAIN ls
        /\ \A i \in DOMAIN ls : m[i] = Joined(ls[i])
    BY <1>1, <2>1, <2>2, MapIsSeq
  <2> HIDE DEF m, Joined
  <2>4. OneEach(ls) => OneEach(m)
    BY <1>1, <2>2, <2>3 DEF OneEach, Alike
  <2>5. \A p, a, n : Reaches(ls, p, a, n) => Reaches(m, p, a, n)
    BY <1>1, <2>2, <2>3 DEF Reaches, Alike
  <2>6. Reaches(m, proto, addr, HostName(h))
    BY <1>1, <1>2, <2>2, <2>3 DEF Reaches, Alike
  <2>7. Extends(m, ls, phase)
    BY <1>1, <2>2, <2>3 DEF Extends
  <2> QED
    BY <2>3, <2>4, <2>5, <2>6, <2>7 DEF m
<1>3. CASE ~\E i \in DOMAIN ls : There(ls[i])
  <2>1. m = Append(ls, new) /\ new \in Listener
    BY <1>3 DEF Merged, Listener, Transports
  <2>2. /\ m \in Seq(Listener) /\ DOMAIN m = 1..(Len(ls) + 1)
        /\ \A i \in 1..Len(ls) : m[i] = ls[i]
        /\ m[Len(ls) + 1] = new
    BY <2>1
  <2>3. Len(ls) + 1 \in DOMAIN m /\ \A i \in DOMAIN ls : i \in DOMAIN m /\ m[i] = ls[i]
    BY <1>1, <2>2
  <2>4. \A i \in DOMAIN m : i \in DOMAIN ls \/ i = Len(ls) + 1
    BY <1>1, <2>2
  <2> HIDE DEF m
  <2>5. OneEach(ls) => OneEach(m)
    BY <1>3, <2>2, <2>3, <2>4 DEF OneEach, Alike
  <2>6. \A p, a, n : Reaches(ls, p, a, n) => Reaches(m, p, a, n)
    BY <2>3 DEF Reaches
  <2>7. Reaches(m, proto, addr, HostName(h))
    BY <2>2, <2>3 DEF Reaches
  <2>8. Extends(m, ls, phase)
    BY <2>2, <2>3, <2>4 DEF Extends, Alike
  <2> QED
    BY <2>2, <2>5, <2>6, <2>7, <2>8 DEF m
<1> QED
  BY <1>2, <1>3

(* An address of a host gives it a listener for each of its transports, all  *)
(* under one address.                                                        *)
LEMMA AddressFact ==
    ASSUME ServerAssumption, TypeOK, at # 0, AddAddress
    PROVE  /\ current \in Hosts /\ at \in DOMAIN BindAddrs(current)
           /\ listeners' \in Seq(Listener)
           /\ OneEach(listeners) => OneEach(listeners')
           /\ \A p, a, n : Reaches(listeners, p, a, n) => Reaches(listeners', p, a, n)
           /\ \E addr \in Addrs :
                /\ Requested \in {addr, Any}
                /\ \A proto \in Protos(current) : Reaches(listeners', proto, addr, HostName(current))
           /\ DOMAIN listeners \subseteq DOMAIN listeners'
           /\ \A i \in DOMAIN listeners :
                Alike(listeners'[i], listeners[i]) /\ listeners'[i].phase = listeners[i].phase
           /\ \A i \in DOMAIN listeners' \ DOMAIN listeners : listeners'[i].phase \in {"idle", "reserved"}
<1>1. current \in Hosts
  BY DEF AddAddress, TypeOK
<1>2. PICK addr \in Addrs :
        /\ IF Requested = Any THEN Free(Chooser, addr) ELSE addr = Requested
        /\ LET Phase(proto) == IF Requested = Any /\ proto = Chooser THEN "reserved" ELSE "idle"
               With(ls, proto) ==
                 IF proto \in Protos(current) THEN Merged(ls, proto, addr, Phase(proto), current) ELSE ls
           IN  listeners' = With(With(listeners, "tcp"), "udp")
  BY DEF AddAddress
<1> DEFINE Phase(proto) == IF Requested = Any /\ proto = Chooser THEN "reserved" ELSE "idle"
           With(ls, proto) ==
             IF proto \in Protos(current) THEN Merged(ls, proto, addr, Phase(proto), current) ELSE ls
           one == With(listeners, "tcp")
<1>3. ASSUME NEW ls \in Seq(Listener), NEW proto \in Transports
      PROVE  /\ With(ls, proto) \in Seq(Listener)
             /\ OneEach(ls) => OneEach(With(ls, proto))
             /\ \A p, a, n : Reaches(ls, p, a, n) => Reaches(With(ls, proto), p, a, n)
             /\ proto \in Protos(current) => Reaches(With(ls, proto), proto, addr, HostName(current))
             /\ Extends(With(ls, proto), ls, "idle") \/ Extends(With(ls, proto), ls, "reserved")
  <2>1. Phase(proto) \in Phases /\ Phase(proto) \in {"idle", "reserved"}
    BY DEF Phases
  <2>2. Extends(ls, ls, "idle")
    BY DEF Extends, Alike
  <2> QED
    BY <1>1, <2>1, <2>2, MergedFact
<1>4. listeners' = With(one, "udp")
  BY <1>2
<1>5. listeners \in Seq(Listener) /\ "tcp" \in Transports /\ "udp" \in Transports
  BY DEF TypeOK, Transports
<1> HIDE DEF With
<1>6. one \in Seq(Listener)
  BY <1>3, <1>5
<1> HIDE DEF one
<1>7. /\ OneEach(listeners) => OneEach(one)
      /\ \A p, a, n : Reaches(listeners, p, a, n) => Reaches(one, p, a, n)
      /\ "tcp" \in Protos(current) => Reaches(one, "tcp", addr, HostName(current))
  BY <1>3, <1>5 DEF one
<1>8. /\ listeners' \in Seq(Listener)
      /\ OneEach(one) => OneEach(listeners')
      /\ \A p, a, n : Reaches(one, p, a, n) => Reaches(listeners', p, a, n)
      /\ "udp" \in Protos(current) => Reaches(listeners', "udp", addr, HostName(current))
  BY <1>3, <1>4, <1>5, <1>6
<1>9. \/ Extends(one, listeners, "idle") \/ Extends(one, listeners, "reserved")
  BY <1>3, <1>5 DEF one
<1>10. \/ Extends(listeners', one, "idle") \/ Extends(listeners', one, "reserved")
  BY <1>3, <1>4, <1>5, <1>6
<1>11. /\ DOMAIN listeners \subseteq DOMAIN listeners'
       /\ \A i \in DOMAIN listeners :
            Alike(listeners'[i], listeners[i]) /\ listeners'[i].phase = listeners[i].phase
       /\ \A i \in DOMAIN listeners' \ DOMAIN listeners : listeners'[i].phase \in {"idle", "reserved"}
  BY <1>9, <1>10 DEF Extends, Alike
<1>12. Protos(current) \subseteq Transports /\ BindAddrs(current) \in Seq(Addrs \cup {Any})
  BY <1>1 DEF ServerAssumption, Transports
<1>13. at \in DOMAIN BindAddrs(current)
  BY <1>12 DEF AddAddress, TypeOK
<1> QED
  BY <1>1, <1>2, <1>7, <1>8, <1>11, <1>12, <1>13 DEF Transports

-----------------------------------------------------------------------------
(* The inductive invariant.                                                *)

(* host h is known at its k-th address *)
Placed(h, k) ==
    \E addr \in Addrs :
        /\ BindAddrs(h)[k] \in {addr, Any}
        /\ \A proto \in Protos(h) : Reaches(listeners, proto, addr, HostName(h))

(* the hosts added so far are in place, the one being added up to the loop's *)
(* index                                                                     *)
HostsInv ==
    /\ server \notin {"building", "gone"} => current = None
    /\ current # None => at # 0
    /\ server # "gone" =>
         /\ \A h \in added : \A k \in DOMAIN BindAddrs(h) : Placed(h, k)
         /\ current # None => \A k \in DOMAIN BindAddrs(current) : k < at => Placed(current, k)

(* open, or an HTTP/3 listener that has collapsed *)
Listening(l) == l.phase = "open" \/ (l.proto = "udp" /\ l.phase \in {"lingering", "closed"})

(* over, whether or not its socket is still there *)
Passed(l) == l.phase \in {"lingering", "closed"}

(* start() has opened the listeners it has passed, stop() has closed them *)
LoopInv ==
    /\ server = "starting" => \A i \in DOMAIN listeners : i < at => Listening(listeners[i])
    /\ server = "running" => \A i \in DOMAIN listeners : Listening(listeners[i])
    /\ server \in {"running", "failed"} => 1 \in DOMAIN listeners
    /\ server = "stopping" => \A i \in DOMAIN listeners : i < at => Passed(listeners[i])
    /\ server = "stopped" => \A i \in DOMAIN listeners : Passed(listeners[i])

ServerInv ==
    /\ TypeOK
    /\ OneListenerPerAddress
    /\ HostsInv
    /\ LoopInv

(* What changes the phase of listeners changes nothing else about them. *)
LEMMA SameListeners ==
    ASSUME listeners \in Seq(Listener), listeners' \in Seq(Listener),
           DOMAIN listeners' = DOMAIN listeners,
           \A i \in DOMAIN listeners : /\ Alike(listeners'[i], listeners[i])
                                       /\ listeners'[i].hosts = listeners[i].hosts
    PROVE  /\ OneListenerPerAddress => OneListenerPerAddress'
           /\ \A h, k : Placed(h, k) => Placed(h, k)'
<1>1. OneListenerPerAddress => OneListenerPerAddress'
  BY DEF OneListenerPerAddress, Alike
<1>2. \A p, a, n : Reaches(listeners, p, a, n) => Reaches(listeners', p, a, n)
  BY DEF Reaches, Alike
<1> QED
  BY <1>1, <1>2 DEF Placed

LEMMA SetPhaseFact ==
    ASSUME TypeOK, NEW i \in DOMAIN listeners, NEW p \in Phases, SetPhase(i, p)
    PROVE  /\ listeners' \in Seq(Listener)
           /\ DOMAIN listeners' = DOMAIN listeners /\ Len(listeners') = Len(listeners)
           /\ listeners'[i].phase = p
           /\ \A j \in DOMAIN listeners :
                /\ Alike(listeners'[j], listeners[j]) /\ listeners'[j].hosts = listeners[j].hosts
                /\ j # i => listeners'[j] = listeners[j]
           /\ OneListenerPerAddress => OneListenerPerAddress'
           /\ \A h, k : Placed(h, k) => Placed(h, k)'
<1>1. DOMAIN listeners = 1..Len(listeners) /\ Len(listeners) \in Nat /\ listeners[i] \in Listener
  BY DEF TypeOK
<1>2. listeners' = [listeners EXCEPT ![i] = [listeners[i] EXCEPT !.phase = p]]
  BY DEF SetPhase
<1>3. [listeners[i] EXCEPT !.phase = p] \in Listener
  BY <1>1 DEF Listener
<1>4. listeners' \in [1..Len(listeners) -> Listener]
  BY <1>1, <1>2, <1>3 DEF TypeOK
<1>5. listeners' \in Seq(Listener) /\ Len(listeners') = Len(listeners)
  BY <1>1, <1>4, MapIsSeq
<1>6. /\ DOMAIN listeners' = DOMAIN listeners
      /\ listeners'[i].phase = p
      /\ \A j \in DOMAIN listeners :
           /\ Alike(listeners'[j], listeners[j]) /\ listeners'[j].hosts = listeners[j].hosts
           /\ j # i => listeners'[j] = listeners[j]
  BY <1>1, <1>2, <1>4 DEF Alike, Listener
<1> QED
  BY <1>5, <1>6, SameListeners DEF TypeOK

(* The listeners of a server that is dropped close, and stay what they are.  *)
LEMMA DropFact ==
    ASSUME TypeOK, DropServer
    PROVE  /\ listeners' \in Seq(Listener) /\ DOMAIN listeners' = DOMAIN listeners
           /\ \A i \in DOMAIN listeners :
                /\ Alike(listeners'[i], listeners[i]) /\ listeners'[i].hosts = listeners[i].hosts
                /\ listeners'[i].phase = Dropped(listeners[i].phase)
           /\ OneListenerPerAddress => OneListenerPerAddress'
<1> DEFINE Left(l) == [l EXCEPT !.phase = Dropped(@)]
<1>1. DOMAIN listeners = 1..Len(listeners) /\ Len(listeners) \in Nat
  BY DEF TypeOK
<1>2. \A l \in Listener : /\ Left(l) \in Listener /\ Alike(Left(l), l) /\ Left(l).hosts = l.hosts
                          /\ Left(l).phase = Dropped(l.phase)
  BY DEF Listener, Alike, Phases, Dropped
<1>3. listeners' = [i \in 1..Len(listeners) |-> Left(listeners[i])]
  BY <1>1 DEF DropServer
<1> HIDE DEF Left
<1>4. listeners' \in [1..Len(listeners) -> Listener]
  BY <1>1, <1>2, <1>3 DEF TypeOK
<1>5. listeners' \in Seq(Listener) /\ DOMAIN listeners' = DOMAIN listeners
  BY <1>1, <1>4, MapIsSeq
<1>6. \A i \in DOMAIN listeners :
        /\ Alike(listeners'[i], listeners[i]) /\ listeners'[i].hosts = listeners[i].hosts
        /\ listeners'[i].phase = Dropped(listeners[i].phase)
  BY <1>1, <1>2, <1>3 DEF TypeOK
<1> QED
  BY <1>5, <1>6, SameListeners DEF TypeOK

(* Adding a host: the loop over its addresses places it at one after the     *)
(* other, and leaves no address out.                                         *)
LEMMA ConfigureStep ==
    ASSUME ServerAssumption, ServerInv,
           (\E h \in Hosts : AddHost(h)) \/ HostFails \/ AddAddress \/ AddHostDone \/ AddFails \/ Build
    PROVE  ServerInv'
<1> USE DEF ServerInv, TypeOK, LoopInv, ServerStates
<1>0. \A h \in Hosts : BindAddrs(h) \in Seq(Addrs \cup {Any})
  BY DEF ServerAssumption
<1>1. ASSUME NEW h \in Hosts, AddHost(h)
      PROVE  ServerInv'
  <2>1. UNCHANGED <<server, listeners, added, taken>> /\ current' = h /\ at' = 1 /\ server = "building"
    BY <1>1 DEF AddHost
  <2>2. \A k \in DOMAIN BindAddrs(h) : ~(k < 1)
    BY <1>0
  <2>3. HostsInv'
    BY <2>1, <2>2 DEF HostsInv, Placed
  <2> QED
    BY <2>1, <2>3 DEF OneListenerPerAddress
<1>2. CASE HostFails \/ AddFails
  <2>1. /\ listeners' = <<>> /\ server' = "gone"
        /\ UNCHANGED <<added, current, at, taken>>
    BY <1>2 DEF HostFails, AddFails
  <2>2. listeners' \in Seq(Listener) /\ DOMAIN listeners' = {}
    BY <2>1
  <2> QED
    BY <2>1, <2>2 DEF OneListenerPerAddress, HostsInv
<1>3. CASE AddAddress
  <2>1. /\ UNCHANGED <<server, added, current, taken>> /\ at' = at + 1
        /\ server = "building" /\ current # None
    BY <1>3 DEF AddAddress
  <2>2. at # 0
    BY <2>1 DEF HostsInv
  <2>3. /\ current \in Hosts /\ at \in DOMAIN BindAddrs(current)
        /\ listeners' \in Seq(Listener)
        /\ OneEach(listeners) => OneEach(listeners')
        /\ \A p, a, n : Reaches(listeners, p, a, n) => Reaches(listeners', p, a, n)
        /\ \E addr \in Addrs :
             /\ Requested \in {addr, Any}
             /\ \A proto \in Protos(current) : Reaches(listeners', proto, addr, HostName(current))
    BY <1>3, <2>2, AddressFact
  <2>4. \A h, k : Placed(h, k) => Placed(h, k)'
    BY <2>3 DEF Placed
  <2>5. \A h, k : h = current /\ k = at => Placed(h, k)'
    <3> TAKE h, k
    <3> HAVE h = current /\ k = at
    <3>1. BindAddrs(h)[k] = Requested
      BY DEF Requested
    <3> QED
      BY <2>3, <3>1 DEF Placed
  <2>6. OneListenerPerAddress'
    BY <2>3 DEF OneListenerPerAddress, OneEach, Alike
  <2>7. \A h, k : h = current /\ k \in DOMAIN BindAddrs(h) /\ k < at + 1 => Placed(h, k)'
    <3> TAKE h, k
    <3> HAVE h = current /\ k \in DOMAIN BindAddrs(h) /\ k < at + 1
    <3>1. k < at \/ k = at
      BY <1>0, <2>3
    <3>2. k < at => Placed(h, k)
      BY <2>1 DEF HostsInv
    <3> QED
      BY <2>4, <2>5, <3>1, <3>2
  <2>8. HostsInv'
    BY <2>1, <2>4, <2>7 DEF HostsInv
  <2> QED
    BY <2>1, <2>3, <2>6, <2>8
<1>4. CASE AddHostDone
  <2>1. /\ UNCHANGED <<server, listeners, at, taken>> /\ server = "building" /\ current \in Hosts
        /\ added' = added \cup {current} /\ current' = None /\ at > Len(BindAddrs(current))
    BY <1>4 DEF AddHostDone
  <2>2. \A k \in DOMAIN BindAddrs(current) : k < at
    BY <1>0, <2>1
  <2>3. current # None
    BY <1>4 DEF AddHostDone
  <2>4. HostsInv'
    BY <2>1, <2>2, <2>3 DEF HostsInv, Placed
  <2> QED
    BY <2>1, <2>4 DEF OneListenerPerAddress
<1>5. CASE Build
  <2>1. UNCHANGED <<listeners, added, current, at, taken>> /\ server' = "built" /\ current = None
        /\ server = "building"
    BY <1>5 DEF Build
  <2>2. HostsInv'
    BY <2>1 DEF HostsInv, Placed
  <2> QED
    BY <2>1, <2>2 DEF OneListenerPerAddress
<1> QED
  BY <1>1, <1>2, <1>3, <1>4, <1>5

(* What has an element has a first one. *)
LEMMA FirstFact ==
    ASSUME NEW n \in Nat, NEW i \in 1..n
    PROVE  1 \in 1..n
OBVIOUS

(* The steps of a loop over 1 .. n. *)
LEMMA LoopFact ==
    ASSUME NEW n \in Nat, NEW k \in 1..n
    PROVE  /\ \A i \in 1..n : i < k + 1 => i < k \/ i = k
           /\ k = n => \A i \in 1..n : i < k + 1
           /\ k # n => k + 1 \in 1..n
OBVIOUS

(* start(): it goes on only past a listener that it has opened.              *)
LEMMA StartStep ==
    ASSUME ServerAssumption, ServerInv, Start \/ ListenOk \/ ListenErr \/ StartAbandoned
    PROVE  ServerInv'
<1> USE DEF ServerInv, TypeOK, LoopInv, ServerStates
<1>0. Len(listeners) \in Nat /\ DOMAIN listeners = 1..Len(listeners)
  OBVIOUS
<1>1. CASE Start
  <2>1. /\ UNCHANGED <<listeners, added, current, taken>> /\ server' = "starting" /\ at' = 1
        /\ server \in {"built", "running", "failed"} /\ listeners # <<>>
    BY <1>1 DEF Start
  <2>2. 1 \in DOMAIN listeners /\ \A i \in DOMAIN listeners : ~(i < 1)
    BY <1>0, <2>1
  <2>3. HostsInv'
    BY <2>1 DEF HostsInv, Placed
  <2> QED
    BY <2>1, <2>2, <2>3 DEF OneListenerPerAddress
<1>2. CASE ListenOk
  <2>1. /\ at \in DOMAIN listeners /\ SetPhase(at, "open") /\ at' = at + 1
        /\ server = "starting"
        /\ server' = IF at = Len(listeners) THEN "running" ELSE "starting"
        /\ UNCHANGED <<added, current, taken>>
    BY <1>2 DEF ListenOk
  <2>2. "open" \in Phases
    BY DEF Phases
  <2>3. /\ listeners' \in Seq(Listener) /\ DOMAIN listeners' = DOMAIN listeners
        /\ listeners'[at].phase = "open"
        /\ \A i \in DOMAIN listeners : i # at => listeners'[i] = listeners[i]
        /\ OneListenerPerAddress => OneListenerPerAddress'
        /\ \A h, k : Placed(h, k) => Placed(h, k)'
    BY <2>1, <2>2, SetPhaseFact
  <2>4. /\ \A i \in DOMAIN listeners : i < at + 1 => i < at \/ i = at
        /\ at = Len(listeners) => \A i \in DOMAIN listeners : i < at + 1
        /\ at # Len(listeners) => at + 1 \in DOMAIN listeners
    BY <1>0, <2>1, LoopFact
  <2>5. \A i \in DOMAIN listeners : i < at + 1 => Listening(listeners'[i])
    BY <2>1, <2>3, <2>4 DEF Listening
  <2>6. HostsInv'
    BY <2>1, <2>3 DEF HostsInv
  <2>7. 1 \in DOMAIN listeners
    BY <1>0, <2>1, FirstFact
  <2>8. LoopInv'
    BY <2>1, <2>3, <2>4, <2>5, <2>7
  <2> QED
    BY <2>1, <2>3, <2>4, <2>6, <2>8
<1>3. CASE ListenErr
  <2>1. /\ at \in DOMAIN listeners /\ (SetPhase(at, "idle") \/ UNCHANGED listeners)
        /\ server = "starting" /\ server' = "failed"
        /\ UNCHANGED <<added, current, at, taken>>
    BY <1>3 DEF ListenErr
  <2>2. "idle" \in Phases
    BY DEF Phases
  <2>3. /\ listeners' \in Seq(Listener) /\ DOMAIN listeners' = DOMAIN listeners
        /\ OneListenerPerAddress => OneListenerPerAddress'
        /\ \A h, k : Placed(h, k) => Placed(h, k)'
    <3>1. CASE SetPhase(at, "idle")
      BY <2>1, <2>2, <3>1, SetPhaseFact
    <3>2. CASE UNCHANGED listeners
      BY <3>2 DEF OneListenerPerAddress, Placed
    <3> QED
      BY <2>1, <3>1, <3>2
  <2>4. HostsInv'
    BY <2>1, <2>3 DEF HostsInv
  <2>5. 1 \in DOMAIN listeners
    BY <1>0, <2>1
  <2> QED
    BY <2>1, <2>3, <2>4, <2>5
<1>4. CASE StartAbandoned
  <2>1. server = "starting" /\ server' = "failed" /\ UNCHANGED <<listeners, added, current, at, taken>>
    BY <1>4 DEF StartAbandoned
  <2>2. HostsInv'
    BY <2>1 DEF HostsInv, Placed
  <2> QED
    BY <2>1, <2>2 DEF OneListenerPerAddress
<1> QED
  BY <1>1, <1>2, <1>3, <1>4

(* stop(): it goes on only past a listener that is closed.                   *)
LEMMA StopStep ==
    ASSUME ServerAssumption, ServerInv, Stop \/ StopListener \/ DropServer
    PROVE  ServerInv'
<1> USE DEF ServerInv, TypeOK, LoopInv, ServerStates
<1>0. Len(listeners) \in Nat /\ DOMAIN listeners = 1..Len(listeners)
  OBVIOUS
<1>1. CASE Stop
  <2>1. /\ UNCHANGED <<listeners, added, current, taken>> /\ at' = 1
        /\ server \in {"built", "running", "failed"}
        /\ server' = IF listeners = <<>> THEN "gone" ELSE "stopping"
    BY <1>1 DEF Stop
  <2>2. /\ listeners # <<>> => 1 \in DOMAIN listeners
        /\ \A i \in DOMAIN listeners : ~(i < 1)
    BY <1>0
  <2>3. HostsInv'
    BY <2>1 DEF HostsInv, Placed
  <2> QED
    BY <2>1, <2>2, <2>3 DEF OneListenerPerAddress
<1>2. CASE StopListener
  <2>1. /\ at \in DOMAIN listeners /\ server = "stopping"
        /\ UNCHANGED <<added, current, taken>>
    BY <1>2 DEF StopListener
  <2>2. {"closing", "lingering", "closed"} \subseteq Phases
    BY DEF Phases
  <2>3. CASE SetPhase(at, "closing") /\ UNCHANGED <<server, at>>
    <3>1. /\ listeners' \in Seq(Listener) /\ DOMAIN listeners' = DOMAIN listeners
          /\ \A i \in DOMAIN listeners : i # at => listeners'[i] = listeners[i]
          /\ OneListenerPerAddress => OneListenerPerAddress'
          /\ \A h, k : Placed(h, k) => Placed(h, k)'
      BY <2>1, <2>2, <2>3, SetPhaseFact
    <3>2. \A i \in DOMAIN listeners : i < at => i # at
      BY <1>0, <2>1
    <3>3. HostsInv' /\ LoopInv'
      BY <2>1, <2>3, <3>1, <3>2 DEF HostsInv
    <3> QED
      BY <2>1, <2>3, <3>1, <3>3
  <2>4. CASE /\ SetPhase(at, Dropped(listeners[at].phase)) /\ at' = at + 1
             /\ listeners[at].phase \in {"idle", "reserved", "lingering", "closed"}
             /\ server' = IF at = Len(listeners) THEN "stopped" ELSE "stopping"
    <3>0. Dropped(listeners[at].phase) \in {"lingering", "closed"}
      BY <2>4 DEF Dropped
    <3>1. /\ listeners' \in Seq(Listener) /\ DOMAIN listeners' = DOMAIN listeners
          /\ Passed(listeners'[at])
          /\ \A i \in DOMAIN listeners : i # at => listeners'[i] = listeners[i]
          /\ OneListenerPerAddress => OneListenerPerAddress'
          /\ \A h, k : Placed(h, k) => Placed(h, k)'
      BY <2>1, <2>2, <2>4, <3>0, SetPhaseFact DEF Passed
    <3>2. /\ \A i \in DOMAIN listeners : i < at + 1 => i < at \/ i = at
          /\ at = Len(listeners) => \A i \in DOMAIN listeners : i < at + 1
          /\ at # Len(listeners) => at + 1 \in DOMAIN listeners
      BY <1>0, <2>1, LoopFact
    <3>3. \A i \in DOMAIN listeners : i < at + 1 => Passed(listeners'[i])
      BY <2>1, <3>1, <3>2
    <3>4. HostsInv' /\ LoopInv'
      BY <2>1, <2>4, <3>1, <3>2, <3>3 DEF HostsInv
    <3> QED
      BY <2>1, <2>4, <3>1, <3>2, <3>4
  <2> QED
    BY <1>2, <2>3, <2>4 DEF StopListener
<1>3. CASE DropServer
  <2>1. server' = "gone" /\ UNCHANGED <<added, current, at, taken>>
    BY <1>3 DEF DropServer
  <2>2. listeners' \in Seq(Listener) /\ (OneListenerPerAddress => OneListenerPerAddress')
    BY <1>3, DropFact
  <2> QED
    BY <2>1, <2>2 DEF HostsInv
<1> QED
  BY <1>1, <1>2, <1>3

(* A listener closes when it was asked to, which no running server does, or  *)
(* collapses, which is none that start() or stop() still counts on.          *)
LEMMA WorldStep ==
    ASSUME ServerAssumption, ServerInv,
           \/ \E i \in DOMAIN listeners : Closes(i) \/ Collapses(i) \/ Drains(i)
           \/ \E proto \in {"tcp", "udp"}, addr \in Addrs : OtherProcess(proto, addr)
           \/ UNCHANGED vars
    PROVE  ServerInv'
<1> USE DEF ServerInv, TypeOK, LoopInv, ServerStates
<1>1. ASSUME NEW i \in DOMAIN listeners, Closes(i) \/ Collapses(i) \/ Drains(i)
      PROVE  ServerInv'
  <2>1. PICK q \in {"lingering", "closed"} :
           /\ SetPhase(i, q) /\ UNCHANGED <<server, added, current, at, taken>>
           /\ \/ listeners[i].phase \in {"closing", "lingering"}
              \/ listeners[i].proto = "udp"
    BY <1>1 DEF Closes, Collapses, Drains, Leaves
  <2>2. q \in Phases
    BY DEF Phases
  <2>3. /\ listeners' \in Seq(Listener) /\ DOMAIN listeners' = DOMAIN listeners
        /\ listeners'[i].phase = q /\ Alike(listeners'[i], listeners[i])
        /\ \A j \in DOMAIN listeners : j # i => listeners'[j] = listeners[j]
        /\ OneListenerPerAddress => OneListenerPerAddress'
        /\ \A h, k : Placed(h, k) => Placed(h, k)'
    BY <2>1, <2>2, SetPhaseFact
  <2>4. \A j \in DOMAIN listeners : Listening(listeners[j]) => Listening(listeners'[j])
    BY <2>1, <2>3 DEF Listening, Alike
  <2>5. \A j \in DOMAIN listeners : Passed(listeners[j]) => Passed(listeners'[j])
    BY <2>1, <2>3 DEF Passed
  <2>6. HostsInv'
    BY <2>1, <2>3 DEF HostsInv
  <2>7. LoopInv'
    BY <2>1, <2>3, <2>4, <2>5
  <2> QED
    BY <2>1, <2>3, <2>6, <2>7
<1>2. ASSUME NEW proto \in {"tcp", "udp"}, NEW addr \in Addrs, OtherProcess(proto, addr)
      PROVE  ServerInv'
  <2>1. UNCHANGED <<server, listeners, added, current, at>> /\ taken' \subseteq {"tcp", "udp"} \X Addrs
    BY <1>2 DEF OtherProcess
  <2>2. HostsInv'
    BY <2>1 DEF HostsInv, Placed
  <2> QED
    BY <2>1, <2>2 DEF OneListenerPerAddress
<1>3. CASE UNCHANGED vars
  <2>1. UNCHANGED <<server, listeners, added, current, at, taken>>
    BY <1>3 DEF vars
  <2>2. HostsInv'
    BY <2>1 DEF HostsInv, Placed
  <2> QED
    BY <2>1, <2>2 DEF OneListenerPerAddress
<1> QED
  BY <1>1, <1>2, <1>3

(* Every step keeps the invariant. *)
LEMMA ServerStep ==
    ASSUME ServerAssumption, ServerInv, [Next]_vars
    PROVE  ServerInv'
BY ConfigureStep, StartStep, StopStep, WorldStep DEF Next

-----------------------------------------------------------------------------
(* The theorems.                                                           *)

(* The invariant holds of every behaviour of the server, however many hosts, *)
(* addresses and listeners there are and whatever other processes bind.      *)
THEOREM InductiveInvariant == Spec => []ServerInv
<1>1. Init => ServerInv
  BY DEF Init, ServerInv, TypeOK, OneListenerPerAddress, HostsInv, LoopInv, ServerStates
<1>2. ServerInv /\ [Next]_vars => ServerInv'
  BY ServerAssumption, ServerStep
<1> QED
  BY <1>1, <1>2, PTL DEF Spec

(* No socket is ever meant for two listeners, whatever the hosts bind to and *)
(* whatever ports the system chooses.                                        *)
THEOREM OneListener == Spec => []OneListenerPerAddress
<1>1. ServerInv => OneListenerPerAddress
  BY DEF ServerInv
<1> QED
  BY <1>1, InductiveInvariant, PTL

(* A host that was added can be found at each of its addresses. *)
THEOREM HostsReachable == Spec => []HostsAreReachable
<1>1. ServerInv => HostsAreReachable
  BY DEF ServerInv, HostsInv, Placed, Reaches, HostsAreReachable
<1> QED
  BY <1>1, InductiveInvariant, PTL

(* A start() that succeeds has opened every listener. *)
THEOREM StartedListen == Spec => []StartedIsListening
<1>1. ServerInv => StartedIsListening
  BY DEF ServerInv, LoopInv, Listening, StartedIsListening
<1> QED
  BY <1>1, InductiveInvariant, PTL

-----------------------------------------------------------------------------
(* Why a start() that failed behind its first listener is final: that        *)
(* listener keeps its socket through every further start(), which stops at   *)
(* it again.                                                                 *)

FirstIsOpen ==
    /\ 1 \in DOMAIN listeners
    /\ listeners[1].proto = "tcp" /\ listeners[1].phase = "open"

OnlyStopIsLeft ==
    \/ server = "failed" /\ FirstIsOpen
    \/ server = "starting" /\ at = 1 /\ FirstIsOpen
    \/ server \in {"stopping", "stopped", "gone"}

(* An open listener cannot bind again: its own socket is in the way. *)
LEMMA OpenIsInTheWay ==
    ASSUME FirstIsOpen
    PROVE  ~CanBind(listeners[1])
BY DEF FirstIsOpen, CanBind, Free, OwnSockets

LEMMA OnlyStopStep ==
    ASSUME ServerInv, OnlyStopIsLeft, [Next]_vars
    PROVE  OnlyStopIsLeft'
<1> USE DEF OnlyStopIsLeft
<1>1. CASE UNCHANGED vars
  BY <1>1 DEF vars, FirstIsOpen
<1>2. CASE Start \/ ListenOk \/ ListenErr \/ StartAbandoned
  <2>1. CASE Start
    BY <2>1 DEF Start, FirstIsOpen
  <2>2. CASE ListenOk
    BY <2>2, OpenIsInTheWay DEF ListenOk
  <2>3. CASE ListenErr
    BY <2>3, OpenIsInTheWay DEF ListenErr, FirstIsOpen
  <2>4. CASE StartAbandoned
    BY <2>4 DEF StartAbandoned, FirstIsOpen
  <2> QED
    BY <1>2, <2>1, <2>2, <2>3, <2>4
<1>3. CASE Stop \/ StopListener \/ DropServer
  BY <1>3 DEF Stop, StopListener, DropServer
<1>4. CASE (\E h \in Hosts : AddHost(h)) \/ HostFails \/ AddAddress \/ AddHostDone \/ AddFails \/ Build
  BY <1>4 DEF AddHost, HostFails, AddAddress, AddHostDone, AddFails, Build
<1>5. ASSUME NEW i \in DOMAIN listeners, Closes(i) \/ Collapses(i) \/ Drains(i)
      PROVE  OnlyStopIsLeft'
  <2>1. PICK q \in {"lingering", "closed"} :
           /\ SetPhase(i, q) /\ UNCHANGED <<server, at>>
           /\ listeners[i].phase # "open" \/ listeners[i].proto = "udp"
    BY <1>5 DEF Closes, Collapses, Drains, Leaves
  <2>2. /\ DOMAIN listeners' = DOMAIN listeners
        /\ \A j \in DOMAIN listeners : j # i => listeners'[j] = listeners[j]
    BY <2>1, SetPhaseFact DEF ServerInv, Phases
  <2> QED
    BY <2>1, <2>2 DEF FirstIsOpen
<1>6. ASSUME NEW proto \in {"tcp", "udp"}, NEW addr \in Addrs, OtherProcess(proto, addr)
      PROVE  OnlyStopIsLeft'
  BY <1>6 DEF OtherProcess, FirstIsOpen
<1> QED
  BY <1>1, <1>2, <1>3, <1>4, <1>5, <1>6 DEF Next

(* No later call of start() succeeds, however often it is made and whatever  *)
(* happens in between.                                                       *)
THEOREM PartialStart == Spec => PartialStartIsFinal
<1>1. ServerInv /\ OnlyStopIsLeft /\ [Next]_vars => OnlyStopIsLeft'
  BY OnlyStopStep
<1>2. ServerInv => (/\ server = "failed"
                    /\ listeners[1].proto = "tcp" /\ listeners[1].phase = "open"
                    => OnlyStopIsLeft)
  BY DEF ServerInv, LoopInv, OnlyStopIsLeft, FirstIsOpen
<1>3. OnlyStopIsLeft => server # "running"
  BY DEF OnlyStopIsLeft
<1> QED
  BY <1>1, <1>2, <1>3, InductiveInvariant, PTL DEF Spec, PartialStartIsFinal

-----------------------------------------------------------------------------
(* What becomes of each listener.                                          *)

(* Before start() nothing listens, and before stop() or a drop nothing over  *)
(* TCP has ceased to; only an HTTP/3 listener leaves its socket behind.      *)
PhaseInv ==
    /\ \A i \in DOMAIN listeners : listeners[i].phase = "lingering" => listeners[i].proto = "udp"
    /\ server \in {"building", "built"} =>
         \A i \in DOMAIN listeners : listeners[i].phase \in {"idle", "reserved"}
    /\ server \in {"starting", "running", "failed"} =>
         \A i \in DOMAIN listeners :
            /\ listeners[i].phase # "closing"
            /\ listeners[i].proto = "tcp" => listeners[i].phase # "closed"
    /\ \A i \in DOMAIN listeners :
         listeners[i].proto = "udp" /\ listeners[i].phase \in {"open", "closing"} => TlsOk(listeners[i])

Ending == {"stopping", "stopped", "gone"}

(* how a step may change the phase of a listener, and for whom *)
Moves(proto, p, q) ==
    \/ q = p
    \/ server = "starting" /\ q = "open" /\ (p \in {"idle", "reserved"} \/ proto = "udp")
    \/ server = "starting" /\ q = "idle" /\ proto = "udp"
    \/ server' \in Ending /\ p = "open" /\ q = "closing"
    \/ server' \in Ending /\ p \in {"idle", "reserved", "closing"} /\ q = "closed"
    \/ proto = "udp" /\ p \in {"open", "closing", "lingering"} /\ q \in {"lingering", "closed"}

(* all at once *)
Moved ==
    \/ /\ listeners' = <<>> /\ server' = "gone"
       /\ \A i \in DOMAIN listeners : listeners[i].phase \in {"idle", "reserved"}
    \/ /\ DOMAIN listeners \subseteq DOMAIN listeners'
       /\ \A i \in DOMAIN listeners :
            /\ Alike(listeners'[i], listeners[i])
            /\ Moves(listeners[i].proto, listeners[i].phase, listeners'[i].phase)
       /\ \A i \in DOMAIN listeners' \ DOMAIN listeners :
            server = "building" /\ listeners'[i].phase \in {"idle", "reserved"}

(* An HTTP/3 listener that listens has a configuration of TLS, so a start()  *)
(* that succeeds in spite of one that is refused has it on TCP, or on a      *)
(* listener that closed since (rt.rs 238-251, listener/udp.rs 154-177).       *)
QuicReportsTls ==
    \A i \in DOMAIN listeners :
        /\ listeners[i].proto = "udp" /\ listeners[i].phase = "open" => TlsOk(listeners[i])
        /\ server = "running" /\ ~TlsOk(listeners[i]) =>
             listeners[i].proto = "tcp" \/ listeners[i].phase \in {"lingering", "closed"}

(* The server comes by a socket only while hosts are added and while start() *)
(* runs, and lets go of one of TCP only with stop() or when it is dropped:   *)
(* a start() that fails keeps what the ones before it opened (rt.rs 45-115,  *)
(* 238-251, 354-368).                                                        *)
SocketsFollowServer ==
    /\ OwnSockets' \ OwnSockets # {} => server \in {"building", "starting"}
    /\ \A addr \in Addrs :
         <<"tcp", addr>> \in OwnSockets \ OwnSockets' => server' \in Ending

(* the phase of the TCP listener of an address, for its contract: a port     *)
(* that is reserved does not listen, and where no listener is none is open   *)
PhaseIn(ls, addr) ==
    LET S == {i \in DOMAIN ls : ls[i].proto = "tcp" /\ ls[i].addr = addr}
        phase == ls[CHOOSE i \in S : TRUE].phase
    IN  IF S = {} \/ phase = "reserved" THEN "idle" ELSE phase

(* connections are no concern of the server: it shows that it goes through   *)
(* the phases in their order                                                 *)
Contract(addr) == INSTANCE ListenerContract WITH
    phase <- PhaseIn(listeners, addr), begun <- {}, over <- {},
    Conns <- {}, MayCollapse <- FALSE

(* A step that sets the phase of one listener. *)
LEMMA OneMoves ==
    ASSUME TypeOK, NEW i \in DOMAIN listeners, NEW q \in Phases, SetPhase(i, q),
           Moves(listeners[i].proto, listeners[i].phase, q)
    PROVE  Moved
<1>1. /\ DOMAIN listeners' = DOMAIN listeners
      /\ listeners'[i].phase = q
      /\ \A j \in DOMAIN listeners :
           /\ Alike(listeners'[j], listeners[j])
           /\ j # i => listeners'[j] = listeners[j]
  BY SetPhaseFact
<1>2. \A j \in DOMAIN listeners : Moves(listeners[j].proto, listeners[j].phase, listeners'[j].phase)
  BY <1>1 DEF Moves
<1> QED
  BY <1>1, <1>2 DEF Moved

LEMMA UnmovedFact ==
    ASSUME UNCHANGED listeners
    PROVE  Moved
  BY DEF Moved, Moves, Alike

(* Each step moves the listeners as it may. *)
LEMMA MovedStep ==
    ASSUME ServerAssumption, ServerInv, PhaseInv, [Next]_vars
    PROVE  Moved
<1> USE DEF ServerInv
<1>1. CASE UNCHANGED listeners
  BY <1>1, UnmovedFact
<1>2. CASE HostFails \/ AddFails
  BY <1>2 DEF HostFails, AddFails, PhaseInv, Moved
<1>3. CASE AddAddress
  <2>1. server = "building" /\ at # 0
    BY <1>3 DEF AddAddress, HostsInv
  <2>2. /\ DOMAIN listeners \subseteq DOMAIN listeners'
        /\ \A i \in DOMAIN listeners :
             Alike(listeners'[i], listeners[i]) /\ listeners'[i].phase = listeners[i].phase
        /\ \A i \in DOMAIN listeners' \ DOMAIN listeners : listeners'[i].phase \in {"idle", "reserved"}
    BY <1>3, <2>1, AddressFact
  <2> QED
    BY <2>1, <2>2 DEF Moved, Moves
<1>4. CASE ListenOk
  <2>1. server = "starting" /\ at \in DOMAIN listeners /\ SetPhase(at, "open") /\ CanBind(listeners[at])
    BY <1>4 DEF ListenOk, TypeOK
  <2>2. listeners[at].phase \in {"idle", "reserved"} \/ listeners[at].proto = "udp"
    <3>1. listeners[at] \in Listener
      BY <2>1 DEF TypeOK
    <3>2. listeners[at].phase # "open"
      BY <2>1, <3>1 DEF CanBind, Free, OwnSockets
    <3> QED
      BY <2>1, <3>1, <3>2 DEF PhaseInv, Listener, Phases
  <2> QED
    BY <2>1, <2>2, OneMoves DEF Moves, Phases
<1>5. CASE ListenErr
  <2>1. CASE SetPhase(at, "idle") /\ ListenReports(listeners[at])
    BY <1>5, <2>1, OneMoves DEF ListenErr, ListenReports, TypeOK, Moves, Phases
  <2> QED
    BY <1>1, <1>5, <2>1 DEF ListenErr
<1>6. CASE StopListener
  <2>1. at \in DOMAIN listeners /\ server = "stopping" /\ server' \in Ending
    BY <1>6 DEF StopListener, TypeOK, Ending
  <2>2. CASE listeners[at].phase = "open" /\ SetPhase(at, "closing")
    BY <2>1, <2>2, OneMoves DEF Moves, Phases
  <2>3. CASE /\ listeners[at].phase \in {"idle", "reserved", "lingering", "closed"}
             /\ SetPhase(at, Dropped(listeners[at].phase))
    BY <2>1, <2>3, OneMoves DEF Moves, Phases, Dropped
  <2> QED
    BY <1>6, <2>2, <2>3 DEF StopListener
<1>7. CASE DropServer
  <2>1. server' \in Ending /\ \A i \in DOMAIN listeners : listeners[i] \in Listener
    BY <1>7 DEF DropServer, TypeOK, Ending
  <2>2. /\ DOMAIN listeners' = DOMAIN listeners
        /\ \A i \in DOMAIN listeners :
             /\ Alike(listeners'[i], listeners[i])
             /\ listeners'[i].phase = Dropped(listeners[i].phase)
    BY <1>7, DropFact
  <2>3. \A i \in DOMAIN listeners : Moves(listeners[i].proto, listeners[i].phase, listeners'[i].phase)
    BY <2>1, <2>2 DEF Moves, Listener, Phases, Dropped
  <2> QED
    BY <2>2, <2>3 DEF Moved
<1>8. ASSUME NEW i \in DOMAIN listeners, Closes(i) \/ Collapses(i) \/ Drains(i)
      PROVE  Moved
  <2>1. CASE Closes(i)
    <3>1. PICK q \in Leaves(listeners[i].proto) :
             listeners[i].phase = "closing" /\ SetPhase(i, q) /\ server' = server
      BY <2>1 DEF Closes
    <3>2. server \in Ending
      BY <3>1 DEF PhaseInv, TypeOK, ServerStates, Ending
    <3> QED
      BY <3>1, <3>2, OneMoves DEF Leaves, Moves, Phases
  <2>2. CASE Collapses(i) \/ Drains(i)
    <3>1. PICK q \in {"lingering", "closed"} :
             listeners[i].phase \in {"open", "lingering"} /\ listeners[i].proto = "udp" /\ SetPhase(i, q)
      BY <2>2 DEF Collapses, Drains, Leaves, PhaseInv
    <3> QED
      BY <3>1, OneMoves DEF Moves, Phases
  <2> QED
    BY <1>8, <2>1, <2>2
<1>9. CASE \/ \E h \in Hosts : AddHost(h)
           \/ AddHostDone \/ Build \/ Start \/ StartAbandoned \/ Stop
           \/ \E proto \in {"tcp", "udp"}, addr \in Addrs : OtherProcess(proto, addr)
           \/ UNCHANGED vars
  BY <1>1, <1>9 DEF AddHost, AddHostDone, Build, Start, StartAbandoned, Stop, OtherProcess, vars
<1> QED
  BY <1>2, <1>3, <1>4, <1>5, <1>6, <1>7, <1>8, <1>9 DEF Next

(* A step that sets the phase of one listener keeps PhaseInv if that         *)
(* listener does.                                                            *)
LEMMA OneKeepsPhases ==
    ASSUME TypeOK, PhaseInv, NEW i \in DOMAIN listeners, NEW q \in Phases, SetPhase(i, q),
           server \notin {"building", "built"},
           server' = server \/ server' \notin {"building", "built"},
           server \in {"starting", "running", "failed"} \/ server' \in Ending,
           server' \notin Ending => q # "closing" /\ (listeners[i].proto = "tcp" => q # "closed"),
           listeners[i].proto = "udp" /\ q \in {"open", "closing"} => TlsOk(listeners[i]),
           q = "lingering" => listeners[i].proto = "udp"
    PROVE  PhaseInv'
<1>1. /\ DOMAIN listeners' = DOMAIN listeners
      /\ listeners'[i].phase = q
      /\ \A j \in DOMAIN listeners :
           /\ Alike(listeners'[j], listeners[j]) /\ listeners'[j].hosts = listeners[j].hosts
           /\ j # i => listeners'[j] = listeners[j]
  BY SetPhaseFact
<1>2. \A j \in DOMAIN listeners : TlsOk(listeners'[j]) <=> TlsOk(listeners[j])
  BY <1>1 DEF TlsOk
<1>3. \A j \in DOMAIN listeners' :
        listeners'[j].proto = "udp" /\ listeners'[j].phase \in {"open", "closing"} => TlsOk(listeners'[j])
  BY <1>1, <1>2 DEF PhaseInv, Alike
<1>4. server' \in {"starting", "running", "failed"} =>
        \A j \in DOMAIN listeners' :
            /\ listeners'[j].phase # "closing"
            /\ listeners'[j].proto = "tcp" => listeners'[j].phase # "closed"
  BY <1>1 DEF PhaseInv, Alike, Ending
<1>5. /\ server' \notin {"building", "built"}
      /\ \A j \in DOMAIN listeners' : listeners'[j].phase = "lingering" => listeners'[j].proto = "udp"
  BY <1>1 DEF PhaseInv, Alike
<1>6. \A j \in DOMAIN listeners' : TlsOk(listeners[j])' <=> TlsOk(listeners'[j])
  BY DEF TlsOk
<1> QED
  BY <1>3, <1>4, <1>5, <1>6 DEF PhaseInv

LEMMA PhaseStep ==
    ASSUME ServerAssumption, ServerInv, PhaseInv, [Next]_vars
    PROVE  PhaseInv'
<1> USE DEF ServerInv
<1>0. \A l : TlsOk(l) <=> l.hosts \cap BadTls = {}
  BY DEF TlsOk
<1>1. ASSUME UNCHANGED listeners,
             \/ server' = server
             \/ server' \in Ending
             \/ server = "building" /\ server' = "built"
             \/ server \in {"built", "running", "failed"} /\ server' = "starting"
             \/ server = "starting" /\ server' = "failed"
      PROVE  PhaseInv'
  BY <1>1 DEF PhaseInv, TlsOk, Ending
<1>2. CASE HostFails \/ AddFails
  BY <1>2 DEF HostFails, AddFails, PhaseInv
<1>3. CASE AddAddress
  <2>1. server = "building" /\ server' = server /\ at # 0
    BY <1>3 DEF AddAddress, HostsInv
  <2>2. \A i \in DOMAIN listeners' : listeners'[i].phase \in {"idle", "reserved"}
    <3>1. /\ \A i \in DOMAIN listeners :
              Alike(listeners'[i], listeners[i]) /\ listeners'[i].phase = listeners[i].phase
          /\ \A i \in DOMAIN listeners' \ DOMAIN listeners : listeners'[i].phase \in {"idle", "reserved"}
      BY <1>3, <2>1, AddressFact
    <3> QED
      BY <2>1, <3>1 DEF PhaseInv
  <2> QED
    BY <2>1, <2>2 DEF PhaseInv
<1>4. CASE ListenOk
  <2>1. /\ server = "starting" /\ at \in DOMAIN listeners /\ SetPhase(at, "open")
        /\ server' \in {"starting", "running"} /\ ~ListenReports(listeners[at])
    BY <1>4 DEF ListenOk, TypeOK
  <2> QED
    BY <2>1, OneKeepsPhases DEF ListenReports, Phases
<1>5. CASE ListenErr
  <2>1. server = "starting" /\ at \in DOMAIN listeners /\ server' = "failed"
    BY <1>5 DEF ListenErr, TypeOK
  <2>2. CASE UNCHANGED listeners
    BY <1>1, <2>1, <2>2
  <2>3. CASE SetPhase(at, "idle")
    BY <2>1, <2>3, OneKeepsPhases DEF Phases
  <2> QED
    BY <1>5, <2>2, <2>3 DEF ListenErr
<1>6. CASE StopListener
  <2>1. at \in DOMAIN listeners /\ server = "stopping" /\ server' \in Ending
    BY <1>6 DEF StopListener, TypeOK, Ending
  <2>2. CASE listeners[at].phase = "open" /\ SetPhase(at, "closing")
    BY <2>1, <2>2, OneKeepsPhases DEF Phases, PhaseInv, Ending
  <2>3. CASE /\ SetPhase(at, Dropped(listeners[at].phase))
             /\ listeners[at].phase \in {"idle", "reserved", "lingering", "closed"}
    BY <2>1, <2>3, OneKeepsPhases DEF Phases, Ending, Dropped, PhaseInv
  <2> QED
    BY <1>6, <2>2, <2>3 DEF StopListener
<1>7. CASE DropServer
  <2>1. server' = "gone"
    BY <1>7 DEF DropServer
  <2>2. DOMAIN listeners' = DOMAIN listeners
    BY <1>7, DropFact
  <2>4. \A i \in DOMAIN listeners :
          /\ Alike(listeners'[i], listeners[i]) /\ listeners'[i].hosts = listeners[i].hosts
          /\ listeners'[i].phase = Dropped(listeners[i].phase)
    BY <1>7, DropFact
  <2>5. \A i \in DOMAIN listeners' : listeners'[i].phase \in {"open", "closing"} =>
          listeners[i].phase \in {"open", "closing"}
    BY <2>2, <2>4 DEF Dropped
  <2>6. \A i \in DOMAIN listeners' :
          listeners'[i].proto = "udp" /\ listeners'[i].phase \in {"open", "closing"} => TlsOk(listeners[i])'
    BY <1>0, <2>2, <2>4, <2>5 DEF Alike, PhaseInv, TlsOk
  <2>7. \A i \in DOMAIN listeners' : listeners'[i].phase = "lingering" => listeners'[i].proto = "udp"
    BY <2>2, <2>4 DEF Alike, PhaseInv, Dropped
  <2> QED
    BY <2>1, <2>6, <2>7 DEF PhaseInv
<1>8. ASSUME NEW i \in DOMAIN listeners, Closes(i) \/ Collapses(i) \/ Drains(i)
      PROVE  PhaseInv'
  <2>1. PICK q \in {"lingering", "closed"} :
           /\ SetPhase(i, q) /\ server' = server
           /\ q = "lingering" => listeners[i].proto = "udp"
           /\ \/ listeners[i].phase = "closing"
              \/ listeners[i].phase \in {"open", "lingering"} /\ listeners[i].proto = "udp"
    BY <1>8 DEF Closes, Collapses, Drains, Leaves, PhaseInv
  <2>2. server \notin {"building", "built"}
    BY <2>1 DEF PhaseInv
  <2>3. listeners[i].proto = "tcp" => server' \in Ending
    BY <2>1, <2>2 DEF PhaseInv, TypeOK, ServerStates, Ending
  <2>4. server \in {"starting", "running", "failed"} \/ server' \in Ending
    BY <2>1, <2>2 DEF TypeOK, ServerStates, Ending
  <2> QED
    BY <2>1, <2>2, <2>3, <2>4, OneKeepsPhases DEF Phases
<1>9. CASE \/ \E h \in Hosts : AddHost(h)
           \/ AddHostDone \/ Build \/ Start \/ StartAbandoned \/ Stop
           \/ \E proto \in {"tcp", "udp"}, addr \in Addrs : OtherProcess(proto, addr)
           \/ UNCHANGED vars
  BY <1>1, <1>9 DEF AddHost, AddHostDone, Build, Start, StartAbandoned, Stop, OtherProcess, vars, Ending
<1> QED
  BY <1>2, <1>3, <1>4, <1>5, <1>6, <1>7, <1>8, <1>9 DEF Next

(* What the server is doing and what its listeners do go together. *)
THEOREM PhasesFollow == Spec => []PhaseInv
<1>1. Init => PhaseInv
  BY DEF Init, PhaseInv
<1>2. ServerInv /\ PhaseInv /\ [Next]_vars => PhaseInv'
  BY ServerAssumption, PhaseStep
<1> QED
  BY <1>1, <1>2, InductiveInvariant, PTL DEF Spec

(* A stop() that returns has ended every listener, and leaves no socket but  *)
(* those that the endpoints of HTTP/3 listeners left to their drivers.       *)
THEOREM StopReleases == Spec => []StopReleasesAll
<1>1. ServerInv /\ PhaseInv => StopReleasesAll
  <2> SUFFICES ASSUME ServerInv, PhaseInv, server = "stopped",
                      NEW i \in DOMAIN listeners,
                      listeners[i].phase \in {"reserved", "open", "closing", "lingering"}
               PROVE  listeners[i].phase = "lingering" /\ listeners[i].proto = "udp"
    BY DEF StopReleasesAll, OwnSockets
  <2> QED
    BY DEF ServerInv, LoopInv, Passed, PhaseInv
<1> QED
  BY <1>1, InductiveInvariant, PhasesFollow, PTL

(* The TLS configuration of HTTP/3 is checked before start() returns. *)
THEOREM QuicTlsReported == Spec => []QuicReportsTls
<1>1. ServerInv /\ PhaseInv => QuicReportsTls
  <2> SUFFICES ASSUME ServerInv, PhaseInv
               PROVE  QuicReportsTls
    OBVIOUS
  <2>1. \A i \in DOMAIN listeners : listeners[i].proto \in {"tcp", "udp"}
    <3>1. \A i \in DOMAIN listeners : listeners[i] \in Listener
      BY DEF ServerInv, TypeOK
    <3> QED
      BY <3>1 DEF Listener
  <2> QED
    BY <2>1 DEF ServerInv, LoopInv, Listening, PhaseInv, QuicReportsTls
<1> QED
  BY <1>1, InductiveInvariant, PhasesFollow, PTL

(* Sockets come with configuration and start(), and go with stop(). *)
THEOREM SocketsFollow == Spec => [][SocketsFollowServer]_vars
<1>1. ASSUME Moved
      PROVE  SocketsFollowServer
  <2>1. CASE /\ listeners' = <<>> /\ server' = "gone"
             /\ \A i \in DOMAIN listeners : listeners[i].phase \in {"idle", "reserved"}
    BY <2>1 DEF SocketsFollowServer, OwnSockets, Ending
  <2>2. CASE /\ DOMAIN listeners \subseteq DOMAIN listeners'
             /\ \A i \in DOMAIN listeners :
                  /\ Alike(listeners'[i], listeners[i])
                  /\ Moves(listeners[i].proto, listeners[i].phase, listeners'[i].phase)
             /\ \A i \in DOMAIN listeners' \ DOMAIN listeners :
                  server = "building" /\ listeners'[i].phase \in {"idle", "reserved"}
    <3>1. ASSUME NEW i \in DOMAIN listeners', listeners'[i].phase \in {"reserved", "open", "closing", "lingering"},
                 server \notin {"building", "starting"}
          PROVE  /\ i \in DOMAIN listeners /\ Alike(listeners'[i], listeners[i])
                 /\ listeners[i].phase \in {"reserved", "open", "closing", "lingering"}
      BY <2>2, <3>1 DEF Moves
    <3>2. OwnSockets' \ OwnSockets # {} => server \in {"building", "starting"}
      BY <3>1 DEF OwnSockets, Alike
    <3>3. ASSUME NEW i \in DOMAIN listeners, listeners[i].proto = "tcp",
                 listeners[i].phase \in {"reserved", "open", "closing", "lingering"}, server' \notin Ending
          PROVE  /\ i \in DOMAIN listeners' /\ Alike(listeners'[i], listeners[i])
                 /\ listeners'[i].phase \in {"reserved", "open", "closing", "lingering"}
      BY <2>2, <3>3 DEF Moves
    <3>4. \A addr \in Addrs : <<"tcp", addr>> \in OwnSockets \ OwnSockets' => server' \in Ending
      BY <3>3 DEF OwnSockets, Alike
    <3> QED
      BY <3>2, <3>4 DEF SocketsFollowServer
  <2> QED
    BY <1>1, <2>1, <2>2 DEF Moved
<1>2. ServerInv /\ PhaseInv /\ [Next]_vars => [SocketsFollowServer]_vars
  BY <1>1, ServerAssumption, MovedStep
<1> QED
  BY <1>2, InductiveInvariant, PhasesFollow, PTL DEF Spec

LEMMA PhaseAt ==
    ASSUME NEW ls, OneEach(ls), NEW addr, NEW i \in DOMAIN ls, ls[i].proto = "tcp", ls[i].addr = addr
    PROVE  PhaseIn(ls, addr) = IF ls[i].phase = "reserved" THEN "idle" ELSE ls[i].phase
<1>1. {j \in DOMAIN ls : ls[j].proto = "tcp" /\ ls[j].addr = addr} = {i}
  BY DEF OneEach, Alike
<1> QED
  BY <1>1 DEF PhaseIn

LEMMA IdlePhase ==
    ASSUME NEW ls, NEW addr,
           \A i \in DOMAIN ls : ls[i].proto = "tcp" /\ ls[i].addr = addr => ls[i].phase \in {"idle", "reserved"}
    PROVE  PhaseIn(ls, addr) = "idle"
<1> DEFINE S == {i \in DOMAIN ls : ls[i].proto = "tcp" /\ ls[i].addr = addr}
<1>1. CASE S = {}
  BY <1>1 DEF PhaseIn
<1>2. CASE S # {}
  <2>1. (CHOOSE i \in S : TRUE) \in S
    BY <1>2
  <2> QED
    BY <1>2, <2>1 DEF PhaseIn
<1> QED
  BY <1>1, <1>2

(* The order of the phases, as the contract has it. *)
LEMMA PhasesInOrder ==
    ASSUME ServerInv, ServerInv', Moved, NEW addr
    PROVE  LET p == PhaseIn(listeners, addr)
               q == PhaseIn(listeners', addr)
           IN  \/ q = p
               \/ p = "idle" /\ q \in {"open", "closed"}
               \/ p = "open" /\ q = "closing"
               \/ p = "closing" /\ q = "closed"
<1>1. OneEach(listeners) /\ OneEach(listeners')
  BY DEF ServerInv, OneListenerPerAddress, OneEach, Alike
<1>2. CASE /\ listeners' = <<>>
           /\ \A i \in DOMAIN listeners : listeners[i].phase \in {"idle", "reserved"}
  BY <1>2, IdlePhase
<1>3. CASE /\ DOMAIN listeners \subseteq DOMAIN listeners'
           /\ \A i \in DOMAIN listeners :
                /\ Alike(listeners'[i], listeners[i])
                /\ Moves(listeners[i].proto, listeners[i].phase, listeners'[i].phase)
           /\ \A i \in DOMAIN listeners' \ DOMAIN listeners :
                server = "building" /\ listeners'[i].phase \in {"idle", "reserved"}
  <2>1. ASSUME NEW i \in DOMAIN listeners, listeners[i].proto = "tcp", listeners[i].addr = addr
        PROVE  LET p == PhaseIn(listeners, addr)
                   q == PhaseIn(listeners', addr)
               IN  \/ q = p
                   \/ p = "idle" /\ q \in {"open", "closed"}
                   \/ p = "open" /\ q = "closing"
                   \/ p = "closing" /\ q = "closed"
    <3>1. /\ i \in DOMAIN listeners' /\ listeners'[i].proto = "tcp" /\ listeners'[i].addr = addr
          /\ Moves("tcp", listeners[i].phase, listeners'[i].phase)
      BY <1>3, <2>1 DEF Alike
    <3>2. /\ PhaseIn(listeners, addr) = IF listeners[i].phase = "reserved" THEN "idle" ELSE listeners[i].phase
          /\ PhaseIn(listeners', addr) = IF listeners'[i].phase = "reserved" THEN "idle" ELSE listeners'[i].phase
      BY <1>1, <2>1, <3>1, PhaseAt
    <3> QED
      BY <3>1, <3>2 DEF Moves
  <2>2. ASSUME ~\E i \in DOMAIN listeners : listeners[i].proto = "tcp" /\ listeners[i].addr = addr
        PROVE  PhaseIn(listeners, addr) = "idle" /\ PhaseIn(listeners', addr) = "idle"
    <3>1. PhaseIn(listeners, addr) = "idle"
      BY <2>2, IdlePhase
    <3>2. \A i \in DOMAIN listeners' : listeners'[i].proto = "tcp" /\ listeners'[i].addr = addr =>
            listeners'[i].phase \in {"idle", "reserved"}
      BY <1>3, <2>2 DEF Alike
    <3> QED
      BY <3>1, <3>2, IdlePhase
  <2> QED
    BY <2>1, <2>2
<1> QED
  BY <1>2, <1>3 DEF Moved

(* Whatever the hosts, the server treats the TCP listener of each address as *)
(* the contract of listeners has it: it listens once, is asked to stop only  *)
(* if it listens, and never listens again.  TcpListener keeps the other side *)
(* of that contract.                                                         *)
THEOREM TcpListenersKeepContract ==
    ASSUME NEW addr \in Addrs
    PROVE  Spec => Contract(addr)!Init /\ [][Contract(addr)!Next]_(Contract(addr)!vars)
<1>1. Init => Contract(addr)!Init
  BY IdlePhase DEF Init, Contract!Init
<1>2. ServerInv /\ ServerInv' /\ PhaseInv /\ [Next]_vars => [Contract(addr)!Next]_(Contract(addr)!vars)
  <2> SUFFICES ASSUME ServerInv, ServerInv', PhaseInv, [Next]_vars
               PROVE  Contract(addr)!Next \/ UNCHANGED Contract(addr)!vars
    OBVIOUS
  <2>1. Moved
    BY ServerAssumption, MovedStep
  <2> QED
    BY <2>1, PhasesInOrder
       DEF Contract!Next, Contract!vars, Contract!Open, Contract!Shut, Contract!Finish, Contract!Discard
<1> QED
  BY <1>1, <1>2, InductiveInvariant, PhasesFollow, PTL DEF Spec

=============================================================================
