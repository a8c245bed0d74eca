------------------------- MODULE HttpServiceProofs -------------------------
(***************************************************************************)
(* Proofs about HttpService, for every set of hosts, addresses, names,     *)
(* paths and uris.                                                         *)
(***************************************************************************)
EXTENDS HttpService, WellFoundedInduction, TLAPS

Text == Seq({"/", "a", "b", "."})

(* what a client may ask, also after redirects *)
Asked ==
    { r \in [form : Forms, scheme : {"http", "https"}, name : Names, to : Addresses,
             uri : Text, query : Text] :
        /\ r.form = "h3" <=> r.to.over = "udp"
        /\ r.form = "h3" => r.scheme = "https" }

(* the turns of the hosts that listener a stored under the key k *)
Turns(a, k) == {i \in DOMAIN added : a \in Bound(added[i]) /\ k = Key(added[i], a)}

(* the last of them is in the table; a server that runs has all its hosts *)
TableInv ==
    /\ added \in Seq(Hosts)
    /\ serving => Hosts \subseteq ToSet(added)
    /\ table \in [Addresses -> [Keys -> Hosts \cup {None}]]
    /\ \A a \in Addresses, k \in Keys :
         \/ Turns(a, k) = {} /\ table[a][k] = None
         \/ \E i \in Turns(a, k) : table[a][k] = added[i] /\ \A j \in Turns(a, k) : j <= i

(* what an answer was made of; nothing is asked before the paths are final *)
AnswerInv ==
    /\ paths \in [Hosts -> SUBSET Text]
    /\ req = None \/ req \in Asked
    /\ req # None => serving
    /\ answer # None =>
         /\ req # None /\ req \in Asked
         /\ host = Found(req)
         /\ result \in Results
         /\ answer = IF req.form = "h3" THEN QuicAnswer(req, host, result, file)
                     ELSE HttpAnswer(req, host, result, file)

IndInv == TableInv /\ AnswerInv

(* Whoever follows a redirect asks the same host, over http as before, and   *)
(* is redirected again, whatever the handler would do: the target is made    *)
(* with the scheme of the request (service/http.rs 83-113).                  *)
RedirectsForGood ==
    IsRedirect =>
        LET to == Location(req)
        IN  /\ to.scheme = "http"
            /\ Found(to) = host
            /\ \A res \in Results, f \in Files : HttpAnswer(to, Found(to), res, f) = Plain(308)

(* A path that is added takes requests for itself and moves none from one    *)
(* of the others to another (host/mod.rs 236-258, 287-307); a host that was  *)
(* added to the server keeps its routes.                                     *)
RoutesStay ==
    \A h \in Hosts : \A uri \in Text :
        Chosen(paths'[h], uri) # Chosen(paths[h], uri) =>
            /\ h \notin ToSet(added)
            /\ Chosen(paths'[h], uri) \in paths'[h] \ paths[h]

-----------------------------------------------------------------------------
(* About the operators.                                                    *)

(* The client's name for a host is the listener's, unless it asks on the     *)
(* default port of the other scheme, and it is no other host's.              *)
LEMMA MeantFact ==
    ASSUME HttpAssumption, NEW r \in Asked, ~Crossed(r)
    PROVE  /\ Authority(r) \in Keys
           /\ \A h \in Hosts : Meant(r, h) <=> r.to \in Bound(h) /\ Authority(r) = Key(h, r.to)
<1>1. /\ r.name \in Names /\ r.to \in Addresses /\ r.scheme \in {"http", "https"}
      /\ r.to.over = "udp" => r.scheme = "https"
      /\ r.to.over \in {"tcp", "udp"}
  BY DEF Asked, HttpAssumption
<1>2. Authority(r) = <<r.name>> \/ Authority(r) = <<r.name, r.to.port>>
  BY DEF Authority
<1>3. Authority(r) \in Keys
  BY <1>1, <1>2 DEF Keys
<1>4. ASSUME NEW h \in Hosts
      PROVE  Name(h) = r.name <=> Authority(r) = Key(h, r.to)
  <2>1. CASE r.to.over = "udp"
    BY <1>1, <2>1 DEF Key, UdpKey, Authority, DefaultPort
  <2>2. CASE r.to.over = "tcp"
    BY <1>1, <2>2 DEF Key, TcpKey, Authority, DefaultPort, Crossed
  <2> QED
    BY <1>1, <2>1, <2>2
<1> QED
  BY <1>3, <1>4 DEF Meant

(* What is no prefix of the uri is neither the uri nor among its prefixes. *)
LEMMA ChosenFact ==
    ASSUME NEW P, NEW uri \in Text, NEW p \in P, ~IsPrefix(p, uri)
    PROVE  Chosen(P \ {p}, uri) = Chosen(P, uri)
<1>1. IsPrefix(uri, uri)
  BY DEF IsPrefix, Text
<1>2. uri \in P \ {p} <=> uri \in P
  BY <1>1
<1>3. {q \in P \ {p} : IsPrefix(q, uri)} = {q \in P : IsPrefix(q, uri)}
  OBVIOUS
<1> DEFINE Longest(S) == IF S = {} THEN None ELSE CHOOSE t \in S : \A q \in S : Len(q) <= Len(t)
           Begun(T) == {q \in T : IsPrefix(q, uri)}
<1>4. \A T : Chosen(T, uri) = IF uri \in T THEN uri ELSE Longest(Begun(T))
  BY DEF Chosen
<1>5. Begun(P \ {p}) = Begun(P)
  BY <1>3
<1> HIDE DEF Longest, Begun
<1> QED
  BY <1>2, <1>4, <1>5

Below == {ss \in Nat \X Nat : ss[1] < ss[2]}

(* A set of numbers has a least one. *)
LEMMA Least ==
    ASSUME NEW T \in SUBSET Nat, T # {}
    PROVE  \E x \in T : \A y \in T : x <= y
<1>1. IsWellFoundedOn(Below, Nat)
  <2>1. Below = OpToRel(<, Nat)
    BY Zenon DEF Below, OpToRel
  <2>2. IsWellFoundedOn(OpToRel(<, Nat), Nat)
    BY NatLessThanWellFounded, Zenon
  <2> QED
    BY <2>1, <2>2, Zenon
<1>2. \E x \in T : \A y \in T : ~(<<y, x>> \in Below)
  BY <1>1, WFMin
<1>3. \A x \in T, y \in T : ~(<<y, x>> \in Below) => x <= y
  BY DEF Below
<1> QED
  BY <1>2, <1>3

(* What a uri begins with is no longer than it, and all of it if as long. *)
LEMMA PrefixFact ==
    ASSUME NEW uri \in Text
    PROVE  /\ IsPrefix(uri, uri)
           /\ \A p \in Text : IsPrefix(p, uri) => Len(p) \in 0 .. Len(uri)
           /\ \A p, q \in Text : IsPrefix(p, uri) /\ IsPrefix(q, uri) /\ Len(p) = Len(q) => p = q
  BY DEF IsPrefix, Text

(* Among the prefixes of a uri there is one longest. *)
LEMMA LongestExists ==
    ASSUME NEW uri \in Text, NEW S \in SUBSET Text, S # {}, \A p \in S : IsPrefix(p, uri)
    PROVE  \E p \in S : \A q \in S : Len(q) <= Len(p)
<1> DEFINE Missing == {Len(uri) - Len(p) : p \in S}
<1>1. \A p \in S : Len(p) \in 0 .. Len(uri)
  BY PrefixFact
<1>2. Len(uri) \in Nat
  BY DEF Text
<1>3. Missing \in SUBSET Nat /\ Missing # {}
  BY <1>1, <1>2
<1>4. PICK x \in Missing : \A y \in Missing : x <= y
  BY <1>3, Least
<1>5. PICK p \in S : x = Len(uri) - Len(p)
  BY <1>4
<1>6. \A q \in S : Len(uri) - Len(p) <= Len(uri) - Len(q)
  BY <1>4, <1>5
<1> QED
  BY <1>1, <1>2, <1>6

(* The path that is chosen is the longest that the uri begins with: the      *)
(* lookup of the uri itself is but a short cut to it, no other path is as    *)
(* long, and there is none only if the uri begins with none of the paths.    *)
THEOREM ChosenIsLongest ==
    ASSUME HttpAssumption, NEW P \in SUBSET Text, NEW uri \in Text
    PROVE  /\ Chosen(P, uri) = None <=> \A p \in P : ~IsPrefix(p, uri)
           /\ \A c : Chosen(P, uri) = c /\ c # None <=>
                 /\ c \in P /\ IsPrefix(c, uri)
                 /\ \A p \in P : IsPrefix(p, uri) /\ p # c => Len(p) < Len(c)
<1> DEFINE S == {p \in P : IsPrefix(p, uri)}
           t == Chosen(P, uri)
<1>1. \A p \in P : p # None
  BY DEF HttpAssumption, Text
<1>2. \A p \in S : Len(p) \in 0 .. Len(uri)
  BY PrefixFact
<1>3. \A p, q \in S : Len(p) = Len(q) => p = q
  BY PrefixFact
<1>4. CASE S = {}
  BY <1>1, <1>4, PrefixFact DEF Chosen
<1>5. ASSUME S # {}
      PROVE  t \in S /\ \A p \in S : Len(p) <= Len(t)
  <2>1. CASE uri \in P
    BY <1>2, <2>1, PrefixFact DEF Chosen
  <2>2. CASE uri \notin P
    <3>1. t = CHOOSE p \in S : \A q \in S : Len(q) <= Len(p)
      BY <1>5, <2>2 DEF Chosen
    <3>2. \E p \in S : \A q \in S : Len(q) <= Len(p)
      BY <1>5, LongestExists
    <3> QED
      BY <3>1, <3>2
  <2> QED
    BY <2>1, <2>2
<1>6. CASE S # {}
  <2>1. t \in S /\ \A p \in S : p # t => Len(p) < Len(t)
    BY <1>2, <1>3, <1>5, <1>6
  <2>2. \A c \in S : (\A p \in S : p # c => Len(p) < Len(c)) => c = t
    BY <1>2, <2>1
  <2>3. /\ t # None /\ t \in P /\ IsPrefix(t, uri)
        /\ \A p \in P : IsPrefix(p, uri) /\ p # t => Len(p) < Len(t)
        /\ \A c \in P : IsPrefix(c, uri) /\ (\A p \in P : IsPrefix(p, uri) /\ p # c => Len(p) < Len(c)) => c = t
    BY <1>1, <2>1, <2>2
  <2>4. Chosen(P, uri) = t
    OBVIOUS
  <2> HIDE DEF t, S
  <2> QED
    BY <2>3, <2>4
<1> QED
  BY <1>4, <1>6

(* An outcome that has a status becomes an answer. *)
LEMMA RoutedFact ==
    ASSUME NEW h, NEW uri, NEW res \in Results, res # "other", NEW f
    PROVE  Routed(h, uri, res, f) # NoAnswer
<1>1. \A status : status # 0 => StatusPage(h, status, f) # NoAnswer
  BY DEF StatusPage, NoAnswer
<1>2. CASE res = "ok"
  BY <1>1, <1>2 DEF Routed, NoAnswer
<1>3. CASE res # "ok"
  <2>1. StatusOf[res] # 0
    BY <1>3 DEF StatusOf, Results
  <2> QED
    BY <1>1, <1>3, <2>1 DEF Routed
<1> QED
  BY <1>2, <1>3

(* No route gives a redirect. *)
LEMMA NoRedirectOfRoute ==
    ASSUME NEW h, NEW uri, NEW res \in Results, NEW f
    PROVE  Routed(h, uri, res, f).status # 308
<1>1. \A status : StatusPage(h, status, f).status = status
  BY DEF StatusPage
<1>2. CASE res \in {"ok", "other"}
  BY <1>1, <1>2 DEF Routed, NoAnswer
<1>3. CASE res \notin {"ok", "other"}
  <2>1. StatusOf[res] # 308
    BY <1>3 DEF StatusOf, Results
  <2> QED
    BY <1>1, <1>3, <2>1 DEF Routed
<1> QED
  BY <1>2, <1>3

(* A path more takes the uris for which it is the longest, no others. *)
LEMMA AddedFact ==
    ASSUME HttpAssumption, NEW P \in SUBSET Text, NEW p \in Text, NEW uri \in Text,
           Chosen(P \cup {p}, uri) # Chosen(P, uri)
    PROVE  Chosen(P \cup {p}, uri) \in (P \cup {p}) \ P
<1> DEFINE old == Chosen(P, uri)
           new == Chosen(P \cup {p}, uri)
<1>1. P \cup {p} \in SUBSET Text /\ None \notin P \cup {p}
  BY DEF HttpAssumption, Text
<1> DEFINE Longest(c, Q) == /\ c \in Q /\ IsPrefix(c, uri)
                            /\ \A q \in Q : IsPrefix(q, uri) /\ q # c => Len(q) < Len(c)
<1>2. ASSUME NEW Q \in SUBSET Text
      PROVE  /\ Chosen(Q, uri) = None <=> \A q \in Q : ~IsPrefix(q, uri)
             /\ Chosen(Q, uri) # None => Longest(Chosen(Q, uri), Q)
             /\ \A c : c # None /\ Longest(c, Q) => Chosen(Q, uri) = c
  <2> DEFINE t == Chosen(Q, uri)
  <2>1. t = None <=> \A q \in Q : ~IsPrefix(q, uri)
    BY ChosenIsLongest
  <2>2. \A c : t = c /\ c # None <=> Longest(c, Q)
    BY ChosenIsLongest
  <2> HIDE DEF t, Longest
  <2>3. (t # None => Longest(t, Q)) /\ \A c : (c # None /\ Longest(c, Q) => t = c)
    BY <2>2
  <2> QED
    BY <2>1, <2>3 DEF t
<1>3. /\ new = None <=> \A q \in P \cup {p} : ~IsPrefix(q, uri)
      /\ new # None => Longest(new, P \cup {p})
      /\ old = None <=> \A q \in P : ~IsPrefix(q, uri)
      /\ \A c : (c # None /\ Longest(c, P) => old = c)
  <2> HIDE DEF Longest
  <2> QED
    BY <1>1, <1>2
<1>4. new # old
  OBVIOUS
<1> HIDE DEF new, old
<1>5. new # None
  BY <1>3, <1>4
<1>6. new \notin P
  BY <1>3, <1>4, <1>5
<1>7. new \in P \cup {p} /\ new \notin P
  BY <1>3, <1>5, <1>6
<1> QED
  BY <1>7 DEF new

-----------------------------------------------------------------------------
(* The invariant.                                                          *)

LEMMA AnswerStep ==
    ASSUME HttpAssumption, TableInv, AnswerInv, [Next]_vars
    PROVE  AnswerInv'
<1>1. CASE UNCHANGED vars
  <2>1. UNCHANGED <<paths, table, serving, req, host, result, file, answer>>
    BY <1>1 DEF vars, hostVars
  <2>2. Found(req)' = Found(req)
    BY <2>1 DEF Found
  <2>3. QuicAnswer(req, host, result, file)' = QuicAnswer(req, host, result, file)
    BY <2>1 DEF QuicAnswer, Routed
  <2>4. HttpAnswer(req, host, result, file)' = HttpAnswer(req, host, result, file)
    BY <2>1 DEF HttpAnswer, Routed
  <2> QED
    BY <2>1, <2>2, <2>3, <2>4 DEF AnswerInv
<1>2. ASSUME NEW h \in Hosts, AddPath(h)
      PROVE  AnswerInv'
  <2>1. PICK d \in Drafts(h) : paths' = [paths EXCEPT ![h] = @ \cup {d.uri}]
    BY <1>2 DEF AddPath
  <2>2. d.uri \in Text
    BY DEF HttpAssumption, Text
  <2>3. paths' \in [Hosts -> SUBSET Text]
    BY <2>1, <2>2 DEF AnswerInv
  <2>4. req = None /\ answer = None => AnswerInv'
    BY <1>2, <2>3 DEF AddPath, AnswerInv
  <2>5. ~serving
    BY <1>2 DEF AddPath, TableInv
  <2> QED
    BY <2>4, <2>5, HttpAssumption DEF AnswerInv
<1>8. ASSUME NEW h \in Hosts, AddHost(h)
      PROVE  AnswerInv'
  <2>1. ~serving
    BY <1>8 DEF AddHost, TableInv
  <2>2. req = None /\ answer = None
    BY <2>1, HttpAssumption DEF AnswerInv
  <2> QED
    BY <1>8, <2>2 DEF AddHost, AnswerInv
<1>3. CASE Serve
  <2>1. req = None /\ answer = None
    BY <1>3, HttpAssumption DEF Serve, AnswerInv
  <2> QED
    BY <1>3, <2>1 DEF Serve, AnswerInv
<1>4. ASSUME NEW r \in Requests, Request(r)
      PROVE  AnswerInv'
  <2>1. r \in Asked
    BY DEF Requests, Asked, Text, HttpAssumption
  <2> QED
    BY <1>4, <2>1 DEF Request, Visit, AnswerInv, hostVars
<1>5. CASE Call
  <2>1. UNCHANGED <<paths, table, serving, req>>
    BY <1>5 DEF Call, hostVars
  <2>2. Found(req)' = Found(req)
    BY <2>1 DEF Found
  <2> QED
    BY <1>5, <2>1, <2>2 DEF Call, AnswerInv, QuicAnswer, HttpAnswer, Routed
<1>6. CASE Follow
  <2>1. req \in Asked /\ serving
    BY <1>6 DEF Follow, IsRedirect, AnswerInv
  <2>2. req.uri \o req.query \in Text /\ <<>> \in Text
    BY <2>1 DEF Asked, Text
  <2>3. Location(req) \in Asked
    BY <2>1, <2>2 DEF Location, Asked
  <2> QED
    BY <1>6, <2>1, <2>3 DEF Follow, Visit, AnswerInv, hostVars
<1>7. CASE Leave
  BY <1>7 DEF Leave, Visit, AnswerInv, hostVars
<1> QED
  BY <1>1, <1>2, <1>3, <1>4, <1>5, <1>6, <1>7, <1>8 DEF Next

(* A host that is added replaces what its listeners had under its name. *)
LEMMA TableStep ==
    ASSUME HttpAssumption, TableInv, [Next]_vars
    PROVE  TableInv'
<1>1. ASSUME UNCHANGED <<added, table>>, serving' => Hosts \subseteq ToSet(added)
      PROVE  TableInv'
  <2>1. \A a \in Addresses, k \in Keys : Turns(a, k)' = Turns(a, k)
    BY <1>1 DEF Turns
  <2> QED
    BY <1>1, <2>1 DEF TableInv
<1>2. ASSUME NEW h \in Hosts, AddHost(h)
      PROVE  TableInv'
  <2> DEFINE n == Len(added)
  <2>1. /\ n \in Nat /\ added' \in Seq(Hosts) /\ Len(added') = n + 1 /\ added'[n + 1] = h
        /\ \A i \in 1 .. n : added'[i] = added[i]
    BY <1>2 DEF AddHost, TableInv
  <2>2. serving' = serving /\ ToSet(added) \subseteq ToSet(added')
    BY <1>2, <2>1 DEF AddHost, ToSet, TableInv
  <2>3. table' \in [Addresses -> [Keys -> Hosts \cup {None}]]
    BY <1>2 DEF AddHost, TableInv
  <2>4. ASSUME NEW a \in Addresses, NEW k \in Keys
        PROVE  \/ Turns(a, k)' = {} /\ table'[a][k] = None
               \/ \E i \in Turns(a, k)' : table'[a][k] = added'[i] /\ \A j \in Turns(a, k)' : j <= i
    <3>1. table'[a][k] = IF a \in Bound(h) /\ k = Key(h, a) THEN h ELSE table[a][k]
      BY <1>2 DEF AddHost
    <3>2. Turns(a, k)' = Turns(a, k) \cup (IF a \in Bound(h) /\ k = Key(h, a) THEN {n + 1} ELSE {})
      <4>1. DOMAIN added = 1 .. n /\ DOMAIN added' = 1 .. n + 1
        BY <2>1 DEF TableInv
      <4>2. \A g, i : i \in 1 .. n => i # n + 1
        BY <2>1
      <4>3. 1 .. n + 1 = (1 .. n) \cup {n + 1}
        BY <2>1
      <4> HIDE DEF n
      <4> QED
        BY <2>1, <4>1, <4>2, <4>3 DEF Turns
    <3>3. Turns(a, k) \subseteq 1 .. n
      BY DEF Turns, TableInv
    <3>4. CASE a \in Bound(h) /\ k = Key(h, a)
      <4>1. n + 1 \in Turns(a, k)' /\ table'[a][k] = added'[n + 1]
        BY <2>1, <3>1, <3>2, <3>4
      <4>2. \A j \in Turns(a, k)' : j <= n + 1
        BY <2>1, <3>2, <3>3, <3>4
      <4> QED
        BY <4>1, <4>2
    <3>5. CASE ~(a \in Bound(h) /\ k = Key(h, a))
      <4>1. Turns(a, k)' = Turns(a, k) /\ table'[a][k] = table[a][k]
        BY <3>1, <3>2, <3>5
      <4>2. \A i \in Turns(a, k) : added'[i] = added[i]
        BY <2>1, <3>3
      <4> QED
        BY <4>1, <4>2 DEF TableInv
    <3> QED
      BY <3>4, <3>5
  <2> HIDE DEF n
  <2> QED
    BY <2>1, <2>2, <2>3, <2>4 DEF TableInv
<1>3. CASE UNCHANGED vars \/ (\E h \in Hosts : AddPath(h)) \/ Call \/ Follow \/ Leave
             \/ \E r \in Requests : Request(r)
  <2>1. UNCHANGED <<added, table, serving>>
    BY <1>3 DEF vars, hostVars, AddPath, Call, Follow, Leave, Request, Visit
  <2> QED
    BY <1>1, <2>1 DEF TableInv
<1>4. CASE Serve
  BY <1>1, <1>4 DEF Serve
<1> QED
  BY <1>2, <1>3, <1>4 DEF Next

LEMMA TableInit ==
    ASSUME HttpAssumption, Init
    PROVE  TableInv
<1>1. added = <<>> /\ \A a \in Addresses, k \in Keys : Turns(a, k) = {}
  BY DEF Init, Turns
<1> QED
  BY <1>1 DEF Init, TableInv

LEMMA AnswerInit ==
    ASSUME HttpAssumption, Init
    PROVE  AnswerInv
<1>1. paths \in [Hosts -> SUBSET Text]
  BY DEF Init, HttpAssumption, Text
<1> QED
  BY <1>1 DEF Init, AnswerInv

(* An answer belongs to the host that the request names. *)
THEOREM AnswerInvariant == Spec => []IndInv
<1>1. Init => IndInv
  BY HttpAssumption, TableInit, AnswerInit DEF IndInv
<1>2. IndInv /\ [Next]_vars => IndInv'
  BY HttpAssumption, TableStep, AnswerStep DEF IndInv
<1> QED
  BY <1>1, <1>2, PTL DEF Spec

(* A request finds the last of the hosts that have its name and address,     *)
(* whatever the hosts, their names and addresses, and none where there is    *)
(* none, except on the default port of the other scheme.                     *)
THEOREM HostFound == Spec => []HostIsFound
<1>1. IndInv => HostIsFound
  <2> SUFFICES ASSUME TableInv, AnswerInv, answer # None, req.form # "bare", ~Crossed(req)
               PROVE  LET named == {i \in DOMAIN added : Meant(req, added[i])}
                      IN  \/ named = {} /\ host = None
                          \/ \E i \in named : host = added[i] /\ \A j \in named : j <= i
    BY DEF HostIsFound, IndInv
  <2> DEFINE k == Authority(req)
             named == {i \in DOMAIN added : Meant(req, added[i])}
  <2>1. req \in Asked /\ host = Found(req) /\ req.to \in Addresses
    BY DEF AnswerInv, Asked
  <2>2. /\ k \in Keys
        /\ \A h \in Hosts : Meant(req, h) <=> req.to \in Bound(h) /\ k = Key(h, req.to)
    BY <2>1, MeantFact, HttpAssumption
  <2>3. host = table[req.to][k]
    BY <2>1, <2>2 DEF Found
  <2>4. named = Turns(req.to, k)
    BY <2>2 DEF Turns, TableInv
  <2> HIDE DEF k
  <2> QED
    BY <2>1, <2>2, <2>3, <2>4 DEF TableInv
<1> QED
  BY <1>1, AnswerInvariant, PTL

(* Paths do not interfere, whatever paths a host has. *)
THEOREM PathsIndependent == Spec => []PathsAreIndependent
<1>1. IndInv => PathsAreIndependent
  <2> SUFFICES ASSUME AnswerInv, answer # None,
                      NEW p \in paths[host], ~IsPrefix(p, req.uri)
               PROVE  Chosen(paths[host] \ {p}, req.uri) = Chosen(paths[host], req.uri)
    BY DEF PathsAreIndependent, IndInv
  <2>1. req.uri \in Text
    BY DEF AnswerInv, Asked
  <2> QED
    BY <2>1, ChosenFact
<1> QED
  BY <1>1, AnswerInvariant, PTL

(* Both services give one answer, whatever the paths and pages of the host.  *)
THEOREM ServicesAlike == Spec => []ServicesAgree
<1>1. IndInv => ServicesAgree
  <2> SUFFICES ASSUME AnswerInv, answer # None, host # None, ~Redirected(host, req),
                      ~BadHeader(host), result # "other"
               PROVE  HttpAnswer(req, host, result, file) = QuicAnswer(req, host, result, file)
    BY DEF ServicesAgree, IndInv
  <2>1. req.form # "bare"
    BY DEF AnswerInv, Found
  <2>2. Routed(host, req.uri, result, file) # NoAnswer
    BY RoutedFact DEF AnswerInv
  <2> QED
    BY <2>1, <2>2 DEF HttpAnswer, QuicAnswer
<1> QED
  BY <1>1, AnswerInvariant, PTL

(* A redirect that the services give leads to another one.                   *)
THEOREM RedirectLoops == Spec => []RedirectsForGood
<1>1. IndInv => RedirectsForGood
  <2> SUFFICES ASSUME AnswerInv, IsRedirect
               PROVE  RedirectsForGood
    BY DEF RedirectsForGood, IndInv
  <2> DEFINE to == Location(req)
  <2>1. req \in Asked /\ host = Found(req) /\ result \in Results
    BY DEF AnswerInv, IsRedirect
  <2>2. ~(req.form = "h3") /\ answer = HttpAnswer(req, host, result, file)
    BY <2>1, NoRedirectOfRoute DEF AnswerInv, IsRedirect, QuicAnswer, Plain
  <2>3. req.form # "bare" /\ host # None /\ Redirected(host, req)
    BY <2>1, <2>2, NoRedirectOfRoute DEF HttpAnswer, IsRedirect, Plain, NoAnswer
  <2>4. /\ to.form = req.form /\ to.scheme = req.scheme
        /\ to.name = req.name /\ to.to = req.to
    BY <2>1 DEF Location, Asked
  <2>5. Found(to) = host
    BY <2>1, <2>4 DEF Found, Authority
  <2>6. Redirected(host, to) /\ to.scheme = "http"
    BY <2>1, <2>3, <2>4, HttpAssumption DEF HttpAssumption, Redirected, SchemeOf, Asked, Forms
  <2>7. \A res \in Results, f \in Files : HttpAnswer(to, Found(to), res, f) = Plain(308)
    BY <2>3, <2>4, <2>5, <2>6 DEF HttpAnswer
  <2> HIDE DEF to
  <2>8. Location(req) = to
    BY DEF to
  <2> QED
    BY <2>5, <2>6, <2>7, <2>8 DEF RedirectsForGood
<1> QED
  BY <1>1, AnswerInvariant, PTL

(* Configuring a path moves no request between the others. *)
THEOREM PathsKeepTheirRequests == Spec => [][RoutesStay]_vars
<1>1. ASSUME IndInv, [Next]_vars
      PROVE  [RoutesStay]_vars
  <2> SUFFICES RoutesStay
    OBVIOUS
  <2>1. CASE UNCHANGED paths
    BY <2>1 DEF RoutesStay
  <2>2. ASSUME NEW g \in Hosts, AddPath(g)
        PROVE  RoutesStay
    <3>1. PICK d \in Drafts(g) : paths' = [paths EXCEPT ![g] = @ \cup {d.uri}]
      BY <2>2 DEF AddPath
    <3>2. paths \in [Hosts -> SUBSET Text] /\ g \notin ToSet(added)
      BY <1>1, <2>2 DEF IndInv, AnswerInv, AddPath
    <3>3. d.uri \in Text
      BY HttpAssumption DEF HttpAssumption, Text
    <3> SUFFICES ASSUME NEW h \in Hosts, NEW uri \in Text,
                        Chosen(paths'[h], uri) # Chosen(paths[h], uri)
                 PROVE  h = g /\ Chosen(paths'[h], uri) \in paths'[h] \ paths[h]
      BY <3>2 DEF RoutesStay
    <3>4. h = g /\ paths'[h] = paths[h] \cup {d.uri}
      BY <3>1, <3>2
    <3> QED
      BY <3>2, <3>3, <3>4, HttpAssumption, AddedFact
  <2>3. CASE \/ Serve \/ Call \/ Follow \/ Leave
             \/ (\E r \in Requests : Request(r)) \/ (\E h \in Hosts : AddHost(h))
    BY <2>1, <2>3 DEF AddHost, Serve, Call, Follow, Leave, Request, Visit, hostVars
  <2> QED
    BY <1>1, <2>1, <2>2, <2>3 DEF Next, vars, hostVars
<1> QED
  BY <1>1, AnswerInvariant, PTL DEF Spec

=============================================================================
