------------------------- MODULE LogPipelineProofs -------------------------
(***************************************************************************)
(* Proofs about LogPipeline, however often start() is called and whatever  *)
(* the length of the queue.                                                *)
(***************************************************************************)
EXTENDS LogPipeline, VetisServerProofs

-----------------------------------------------------------------------------
(* The log takes nothing away from the server: what is proved of           *)
(* VetisServer holds of the server with its log.                           *)

LEMMA LogStepIsStep ==
    ASSUME [LogNext]_allVars
    PROVE  [Next]_vars
<1>1. CASE UNCHANGED allVars
  BY <1>1 DEF allVars
<1>2. CASE LogNext
  <2>1. Configuring \/ Stop \/ Start => Next
    BY DEF Configuring, Next
  <2>2. ListenOk \/ ListenErr \/ StartAbandoned \/ StopListener \/ DropServer => Next
    BY DEF Next
  <2>3. \A i \in DOMAIN listeners : Closes(i) \/ Collapses(i) \/ Drains(i) => Next
    BY DEF Next
  <2>4. \A proto \in {"tcp", "udp"}, addr \in Addrs : OtherProcess(proto, addr) => Next
    BY DEF Next
  <2> QED
    BY <1>2, <2>1, <2>2, <2>3, <2>4
       DEF LogNext, StartLogger, Listens, StartEnds, StopsListener, Drops, ListenerEnds, ConnsEnd,
           HandshakesEnd, Log, Write, WriterEnds
<1> QED
  BY <1>1, <1>2

(* The server with its log is a server. *)
THEOREM LogImplementsServer == LogSpec => Spec
<1>1. LogInit => Init
  BY DEF LogInit
<1>2. [LogNext]_allVars => [Next]_vars
  BY LogStepIsStep
<1> QED
  BY <1>1, <1>2, PTL DEF LogSpec, Spec

(* What is proved of the server holds of the server with its log. *)
THEOREM LogKeepsServer ==
    LogSpec => /\ []OneListenerPerAddress /\ []HostsAreReachable
               /\ []StartedIsListening /\ []StopReleasesAll
               /\ []QuicReportsTls /\ [][SocketsFollowServer]_vars
               /\ PartialStartIsFinal
  BY LogImplementsServer, OneListener, HostsReachable, StartedListen, StopReleases,
     QuicTlsReported, SocketsFollow, PartialStart, PTL

-----------------------------------------------------------------------------
(* A sender never comes from nowhere: it is a clone of one whose writer      *)
(* still runs, or that of a start() which has just made its writer.          *)

HeardTypes ==
    /\ writers \in Seq({"running", "ended"})
    /\ unread \in Seq(Nat)
    /\ DOMAIN unread = DOMAIN writers
    /\ \A s \in senders : s = <<s[1], s[2], s[3]>> /\ s[3] \in DOMAIN writers

HeardInv ==
    /\ HeardTypes
    /\ NothingUnheard
    /\ server = "starting" => <<"start", 0, Newest>> \in senders

(* Clones and drops of senders keep what was heard. *)
LEMMA ClonesAreHeard ==
    ASSUME HeardTypes, NothingUnheard, UNCHANGED <<writers, unread>>,
           \A s \in senders' : s = <<s[1], s[2], s[3]>> /\ \E t \in senders : t[3] = s[3]
    PROVE  HeardTypes' /\ NothingUnheard'
<1>1. HeardTypes'
  BY DEF HeardTypes
<1>2. \A g : Held(g)' => Held(g)
  BY DEF Held
<1> QED
  BY <1>1, <1>2 DEF NothingUnheard

LEMMA HeardStart ==
    ASSUME HeardInv, StartLogger
    PROVE  HeardInv'
<1> DEFINE n == Len(writers)
<1>1. /\ writers' = Append(writers, "running") /\ unread' = Append(unread, 0)
      /\ senders' = Given(senders, 1, n + 1) \cup {<<"start", 0, n + 1>>}
  BY DEF StartLogger, Newest
<1>2. /\ n \in Nat /\ DOMAIN writers = 1..n /\ DOMAIN unread = 1..n /\ Len(unread) = n
      /\ writers \in Seq({"running", "ended"}) /\ unread \in Seq(Nat)
  BY DEF HeardInv, HeardTypes
<1>3. /\ writers' \in Seq({"running", "ended"}) /\ DOMAIN writers' = 1..(n + 1) /\ Len(writers') = n + 1
      /\ \A g \in 1..n : writers'[g] = writers[g]
      /\ writers'[n + 1] = "running"
  BY <1>1, <1>2
<1>4. /\ unread' \in Seq(Nat) /\ DOMAIN unread' = 1..(n + 1)
      /\ \A g \in 1..n : unread'[g] = unread[g]
  BY <1>1, <1>2
<1>5. \A g \in 1..(n + 1) : g \in 1..n \/ g = n + 1
  BY <1>2
<1>6. \A s \in senders' : s \in senders \/ s = <<"field", 1, n + 1>> \/ s = <<"start", 0, n + 1>>
  BY <1>1 DEF Given
<1>7. n + 1 \in 1..(n + 1) /\ n + 1 \notin 1..n /\ \A g \in 1..n : g \in 1..(n + 1)
  BY <1>2
<1> HIDE DEF n
<1>8. HeardTypes'
  BY <1>2, <1>3, <1>4, <1>6, <1>7 DEF HeardTypes, HeardInv
<1>9. \A g \in 1..n : Held(g)' => Held(g)
  BY <1>6, <1>7 DEF Held
<1>10. NothingUnheard'
  BY <1>2, <1>3, <1>4, <1>5, <1>9 DEF NothingUnheard, HeardInv
<1>11. <<"start", 0, Newest'>> \in senders'
  BY <1>1, <1>3 DEF Newest
<1> QED
  BY <1>8, <1>10, <1>11 DEF HeardInv, Newest

LEMMA HeardListen ==
    ASSUME HeardInv, Listens \/ StartEnds
    PROVE  HeardInv'
<1> USE DEF HeardInv
<1>0. HeardTypes /\ NothingUnheard /\ UNCHANGED <<writers, unread>>
  BY DEF Listens, StartEnds
<1>1. CASE Listens
  <2> DEFINE S == senders \cup {<<"task", at, s[3]>> : s \in Of("field", at)}
  <2>1. /\ server = "starting"
        /\ senders' = IF server' = "running" THEN StartOver(S) ELSE Given(S, at + 1, Newest)
    BY <1>1 DEF Listens, ListenOk
  <2>2. \A s \in S : s = <<s[1], s[2], s[3]>> /\ \E t \in senders : t[3] = s[3]
    BY <1>0 DEF HeardTypes, Of
  <2>3. <<"start", 0, Newest>> \in S
    BY <2>1
  <2> HIDE DEF S
  <2>4. \A s \in senders' : s \in S \/ s = <<"field", at + 1, Newest>>
    BY <2>1 DEF StartOver, Given
  <2>5. <<"start", 0, Newest>>[3] = Newest /\ <<"field", at + 1, Newest>>[3] = Newest
    OBVIOUS
  <2>6. \A s \in senders' : s = <<s[1], s[2], s[3]>> /\ \E t \in senders : t[3] = s[3]
    BY <2>1, <2>2, <2>4, <2>5
  <2>7. HeardTypes' /\ NothingUnheard'
    BY <1>0, <2>6, ClonesAreHeard
  <2>8. server' = "starting" => <<"start", 0, Newest>> \in senders'
    BY <2>1, <2>3 DEF Given
  <2> QED
    BY <1>0, <2>7, <2>8 DEF Newest
<1>2. CASE StartEnds
  <2>1. server' = "failed" /\ senders' = StartOver(senders)
    BY <1>2 DEF StartEnds, ListenErr, StartAbandoned
  <2>2. \A s \in senders' : s = <<s[1], s[2], s[3]>> /\ \E t \in senders : t[3] = s[3]
    BY <1>0, <2>1 DEF StartOver, HeardTypes
  <2>3. HeardTypes' /\ NothingUnheard'
    BY <1>0, <2>2, ClonesAreHeard
  <2> QED
    BY <2>1, <2>3
<1> QED
  BY <1>1, <1>2

(* What a listener leaves behind are clones of what its task had. *)
LEMMA SurvivorsFact ==
    ASSUME NEW i \in DOMAIN listeners, ListenerEnds(i)
    PROVE  /\ \A s \in senders' :
                \/ s \in senders /\ ~(s[1] = "task" /\ s[2] = i)
                \/ \E k \in Survivors(i), t \in Of("task", i) : s = <<k, i, t[3]>>
           /\ \A s \in senders : ~(s[1] = "task" /\ s[2] = i) => s \in senders'
           /\ \A s \in senders' : s \in senders \/ \E k \in Kinds, t \in senders : s = <<k, i, t[3]>>
           /\ \A s \in Of("task", i) : s \in senders \ senders'
<1>1. PICK K \in SUBSET Survivors(i) :
         senders' = (senders \ Of("task", i)) \cup {<<k, i, s[3]>> : k \in K, s \in Of("task", i)}
  BY DEF ListenerEnds
<1>2. Survivors(i) \subseteq {"conns", "handshakes"} /\ Survivors(i) \subseteq Kinds
  BY DEF Survivors, Kinds
<1>3. \A k \in K, s \in Of("task", i) : <<k, i, s[3]>> \notin Of("task", i)
  BY <1>2 DEF Of
<1> QED
  BY <1>1, <1>2, <1>3 DEF Of

LEMMA HeardEnd ==
    ASSUME HeardInv,
           \/ StopsListener \/ Drops
           \/ \E i \in DOMAIN listeners : ListenerEnds(i)
           \/ \E s \in senders : ConnsEnd(s) \/ HandshakesEnd(s)
    PROVE  HeardInv'
<1> USE DEF HeardInv
<1>0. HeardTypes /\ NothingUnheard /\ UNCHANGED <<writers, unread>>
  BY DEF StopsListener, Drops, ListenerEnds, ConnsEnd, HandshakesEnd
<1>1. CASE StopsListener \/ Drops
  <2>1. senders' \subseteq senders /\ server' # "starting"
    BY <1>1 DEF StopsListener, StopListener, Drops, DropServer
  <2>2. \A s \in senders' : s = <<s[1], s[2], s[3]>> /\ \E t \in senders : t[3] = s[3]
    BY <1>0, <2>1 DEF HeardTypes
  <2> QED
    BY <1>0, <2>1, <2>2, ClonesAreHeard
<1>2. ASSUME NEW i \in DOMAIN listeners, ListenerEnds(i)
      PROVE  HeardInv'
  <2>1. /\ UNCHANGED server
        /\ \A s \in senders' : s \in senders \/ \E k \in Kinds, t \in senders : s = <<k, i, t[3]>>
        /\ \A s \in senders : s[1] # "task" => s \in senders'
    <3>1. UNCHANGED server
      BY <1>2 DEF ListenerEnds, Closes, Collapses
    <3> QED
      BY <1>2, <3>1, SurvivorsFact
  <2>2. \A s \in senders' : s = <<s[1], s[2], s[3]>> /\ \E t \in senders : t[3] = s[3]
    BY <1>0, <2>1 DEF HeardTypes
  <2>3. server = "starting" => <<"start", 0, Newest>> \in senders'
    BY <2>1
  <2> QED
    BY <1>0, <2>1, <2>2, <2>3, ClonesAreHeard DEF Newest
<1>3. ASSUME NEW s \in senders, ConnsEnd(s) \/ HandshakesEnd(s)
      PROVE  HeardInv'
  <2>1. s[1] \in {"conns", "handshakes"} /\ senders' = senders \ {s} /\ UNCHANGED server
    BY <1>3 DEF ConnsEnd, HandshakesEnd, vars
  <2>2. \A t \in senders' : t = <<t[1], t[2], t[3]>> /\ \E u \in senders : u[3] = t[3]
    BY <1>0, <2>1 DEF HeardTypes
  <2>3. server = "starting" => <<"start", 0, Newest>> \in senders'
    BY <2>1
  <2> QED
    BY <1>0, <2>1, <2>2, <2>3, ClonesAreHeard DEF Newest
<1> QED
  BY <1>1, <1>2, <1>3

(* Nobody can put a message into a channel whose writer has ended. *)
LEMMA HeardChannel ==
    ASSUME HeardInv, NEW g \in DOMAIN writers, Log(g) \/ Write(g) \/ WriterEnds(g)
    PROVE  HeardInv'
<1> USE DEF HeardInv, HeardTypes
<1>1. Len(writers) \in Nat /\ DOMAIN writers = 1..Len(writers) /\ DOMAIN unread = 1..Len(writers)
  OBVIOUS
<1>2. UNCHANGED senders /\ UNCHANGED server
  BY DEF Log, Write, WriterEnds, vars
<1>3. CASE Log(g) \/ Write(g)
  <2>1. /\ UNCHANGED writers
        /\ \E k \in Nat : unread' = [unread EXCEPT ![g] = k]
        /\ writers[g] # "ended"
    BY <1>3 DEF Log, Write, NothingUnheard
  <2>2. PICK k \in Nat : unread' = [unread EXCEPT ![g] = k]
    BY <2>1
  <2>3. unread' \in [1..Len(writers) -> Nat] /\ \A f \in DOMAIN writers : f # g => unread'[f] = unread[f]
    BY <1>1, <2>2
  <2>4. unread' \in Seq(Nat) /\ DOMAIN unread' = DOMAIN writers
    BY <1>1, <2>3, MapIsSeq
  <2>5. HeardTypes'
    BY <1>2, <2>1, <2>4
  <2>6. NothingUnheard'
    BY <1>2, <2>1, <2>3 DEF NothingUnheard, Held
  <2> QED
    BY <1>2, <2>1, <2>5, <2>6 DEF Newest
<1>4. CASE WriterEnds(g)
  <2>1. UNCHANGED unread /\ writers' = [writers EXCEPT ![g] = "ended"] /\ unread[g] = 0 /\ ~Held(g)
    BY <1>4 DEF WriterEnds
  <2>2. /\ writers' \in [1..Len(writers) -> {"running", "ended"}]
        /\ \A f \in DOMAIN writers : f # g => writers'[f] = writers[f]
    BY <1>1, <2>1
  <2>3. /\ writers' \in Seq({"running", "ended"}) /\ DOMAIN writers' = DOMAIN writers
        /\ Len(writers') = Len(writers)
    BY <1>1, <2>2, MapIsSeq
  <2>4. HeardTypes'
    BY <1>2, <2>1, <2>3
  <2>5. NothingUnheard'
    BY <1>2, <2>1, <2>2, <2>3 DEF NothingUnheard, Held
  <2> QED
    BY <1>2, <2>3, <2>4, <2>5 DEF Newest
<1> QED
  BY <1>3, <1>4

LEMMA HeardStep ==
    ASSUME HeardInv, [LogNext]_allVars
    PROVE  HeardInv'
<1>1. ASSUME UNCHANGED logVars, server' = "starting" => server = "starting"
      PROVE  HeardInv'
  BY <1>1 DEF logVars, HeardInv, HeardTypes, NothingUnheard, Held, Newest
<1>2. CASE UNCHANGED allVars
  BY <1>1, <1>2 DEF allVars, vars
<1>3. CASE Configuring /\ UNCHANGED logVars
  <2>1. server' = "starting" => server = "starting"
    BY <1>3 DEF Configuring, AddHost, HostFails, AddAddress, AddHostDone, AddFails, Build
  <2> QED
    BY <1>1, <1>3, <2>1
<1>4. CASE Stop /\ UNCHANGED logVars
  BY <1>1, <1>4 DEF Stop
<1>5. CASE \E proto \in {"tcp", "udp"}, addr \in Addrs : OtherProcess(proto, addr) /\ UNCHANGED logVars
  BY <1>1, <1>5 DEF OtherProcess
<1>6. CASE \E i \in DOMAIN listeners : Drains(i) /\ UNCHANGED logVars
  BY <1>1, <1>6 DEF Drains
<1> QED
  BY <1>2, <1>3, <1>4, <1>5, <1>6, HeardStart, HeardListen, HeardEnd, HeardChannel DEF LogNext

(* What a channel has accepted is written before its writer ends, for every  *)
(* number of calls of start() and every length of the queue.                 *)
THEOREM AcceptedIsWritten == LogSpec => []NothingUnheard
<1>1. LogInit => HeardInv
  <2>1. LogInit => writers = <<>> /\ unread = <<>> /\ senders = {} /\ server = "building"
    BY DEF LogInit, Init
  <2> QED
    BY <2>1 DEF HeardInv, HeardTypes, NothingUnheard
<1>2. HeardInv /\ [LogNext]_allVars => HeardInv'
  BY HeardStep
<1>3. HeardInv => NothingUnheard
  BY DEF HeardInv
<1> QED
  BY <1>1, <1>2, <1>3, PTL DEF LogSpec

-----------------------------------------------------------------------------
(* Which writer a running server logs to: the loop of start() gives each     *)
(* listener the sender of its own writer before it makes it listen, and a    *)
(* listener can listen only when no task of an earlier start() is left.      *)

(* what listener i has of that kind leads to the newest writer *)
Logs(kind, i) ==
    /\ <<kind, i, Newest>> \in senders
    /\ \A s \in senders : s[1] = kind /\ s[2] = i => s[3] = Newest

(* a task is that of a listener with a socket *)
TasksInv ==
    \A s \in senders : s[1] = "task" =>
        s[2] \in DOMAIN listeners /\ listeners[s[2]].phase \in {"open", "closing"}

RunInv ==
    /\ server \in {"building", "built"} => senders = {}
    /\ TasksInv
    /\ server = "starting" => \A i \in DOMAIN listeners :
         /\ i < at \/ i = at => Logs("field", i)
         /\ i < at /\ listeners[i].phase = "open" => Logs("task", i)
    /\ server = "running" => \A i \in DOMAIN listeners :
         /\ Logs("field", i)
         /\ listeners[i].phase = "open" => Logs("task", i)

LEMMA RunStart ==
    ASSUME HeardInv, ServerInv, RunInv, StartLogger
    PROVE  RunInv'
<1> DEFINE n == Len(writers)
<1>1. /\ senders' = Given(senders, 1, n + 1) \cup {<<"start", 0, n + 1>>}
      /\ writers' = Append(writers, "running")
      /\ UNCHANGED listeners /\ server' = "starting" /\ at' = 1
  BY DEF StartLogger, Start, Newest
<1>2. Newest' = n + 1
  BY <1>1 DEF Newest, HeardInv, HeardTypes
<1>3. \A i \in DOMAIN listeners : i < 1 \/ i = 1 => i = 1
  BY DEF ServerInv, TypeOK
<1>4. \A i \in DOMAIN listeners : ~(i < 1)
  BY DEF ServerInv, TypeOK
<1> HIDE DEF n
<1>5. Logs("field", 1)'
  BY <1>1, <1>2 DEF Logs, Given
<1>6. TasksInv'
  BY <1>1 DEF TasksInv, RunInv, Given
<1> QED
  BY <1>1, <1>3, <1>4, <1>5, <1>6 DEF RunInv

LEMMA RunListen ==
    ASSUME HeardInv, ServerInv, RunInv, Listens
    PROVE  RunInv'
<1> DEFINE S == senders \cup {<<"task", at, s[3]>> : s \in Of("field", at)}
<1>1. /\ server = "starting" /\ at \in DOMAIN listeners /\ CanBind(listeners[at])
      /\ SetPhase(at, "open") /\ at' = at + 1 /\ UNCHANGED writers
      /\ server' = IF at = Len(listeners) THEN "running" ELSE "starting"
      /\ senders' = IF server' = "running" THEN StartOver(S) ELSE Given(S, at + 1, Newest)
  BY DEF Listens, ListenOk, ServerInv, TypeOK
<1>2. Len(listeners) \in Nat /\ DOMAIN listeners = 1..Len(listeners)
  BY DEF ServerInv, TypeOK
<1>3. /\ DOMAIN listeners' = DOMAIN listeners /\ listeners'[at].phase = "open"
      /\ \A i \in DOMAIN listeners : i # at => listeners'[i] = listeners[i]
  BY <1>1, SetPhaseFact DEF ServerInv, Phases
<1>4. listeners[at].phase \notin {"open", "closing"}
  BY <1>1 DEF CanBind, Free, OwnSockets
<1>5. \A s \in senders : ~(s[1] = "task" /\ s[2] = at)
  BY <1>4 DEF RunInv, TasksInv
<1>6. Logs("field", at)
  BY <1>1 DEF RunInv
<1>7. \A s \in S : s \in senders \/ s = <<"task", at, Newest>>
  BY <1>6 DEF Of, Logs
<1>8. senders \subseteq S /\ <<"task", at, Newest>> \in S
  BY <1>6 DEF Of, Logs
<1>9. /\ \A i \in DOMAIN listeners : i < at + 1 => i < at \/ i = at
      /\ at = Len(listeners) => \A i \in DOMAIN listeners : i < at + 1
      /\ \A i \in DOMAIN listeners : i < at + 1 => i # at + 1
  <2>1. \A i \in 1..Len(listeners) : i < at + 1 => i # at + 1
    BY <1>1, <1>2
  <2> QED
    BY <1>1, <1>2, <2>1, LoopFact
<1> HIDE DEF S
<1>10. \A s \in senders' : s \in S \/ (server' = "starting" /\ s = <<"field", at + 1, Newest>>)
  BY <1>1 DEF StartOver, Given
<1>11. /\ \A s \in S : s[1] = "task" => s \in senders'
       /\ \A i : i # at + 1 => \A s \in S : s[1] = "field" /\ s[2] = i => s \in senders'
       /\ server' = "running" => \A s \in S : s[1] = "field" => s \in senders'
  BY <1>1 DEF StartOver, Given
<1>12. TasksInv'
  BY <1>1, <1>3, <1>7, <1>10 DEF RunInv, TasksInv
<1>13. \A i \in DOMAIN listeners : i < at + 1 => Logs("field", i)'
  <2> SUFFICES ASSUME NEW i \in DOMAIN listeners, i < at + 1
               PROVE  Logs("field", i)'
    OBVIOUS
  <2>1. Logs("field", i) /\ i # at + 1
    BY <1>1, <1>9 DEF RunInv
  <2> QED
    BY <1>1, <1>7, <1>8, <1>10, <1>11, <2>1 DEF Logs, Newest
<1>14. \A i \in DOMAIN listeners : i < at + 1 /\ listeners'[i].phase = "open" => Logs("task", i)'
  <2> SUFFICES ASSUME NEW i \in DOMAIN listeners, i < at + 1, listeners'[i].phase = "open"
               PROVE  Logs("task", i)'
    OBVIOUS
  <2>1. CASE i = at
    BY <1>1, <1>5, <1>7, <1>8, <1>10, <1>11, <2>1 DEF Logs, Newest
  <2>2. CASE i # at
    <3>1. Logs("task", i)
      BY <1>1, <1>3, <1>9, <2>2 DEF RunInv
    <3> QED
      BY <1>1, <1>7, <1>8, <1>10, <1>11, <2>2, <3>1 DEF Logs, Newest
  <2> QED
    BY <2>1, <2>2
<1>15. server' = "starting" => \A i : i = at + 1 => Logs("field", i)'
  <2> SUFFICES ASSUME server' = "starting", NEW i, i = at + 1
               PROVE  Logs("field", i)'
    OBVIOUS
  <2>1. senders' = Given(S, at + 1, Newest)
    BY <1>1
  <2> QED
    BY <1>1, <2>1 DEF Given, Logs, Newest
<1>16. server' = "starting" => \A i \in DOMAIN listeners' :
         /\ i < at' \/ i = at' => Logs("field", i)'
         /\ i < at' /\ listeners'[i].phase = "open" => Logs("task", i)'
  BY <1>1, <1>3, <1>13, <1>14, <1>15
<1>17. server' = "running" => \A i \in DOMAIN listeners' :
         /\ Logs("field", i)'
         /\ listeners'[i].phase = "open" => Logs("task", i)'
  BY <1>1, <1>3, <1>9, <1>13, <1>14
<1> QED
  BY <1>1, <1>12, <1>16, <1>17 DEF RunInv

LEMMA RunEnd ==
    ASSUME HeardInv, ServerInv, RunInv, StartEnds \/ StopsListener \/ Drops
    PROVE  RunInv'
<1>1. CASE StartEnds
  <2>1. /\ server' = "failed" /\ senders' \subseteq senders
        /\ UNCHANGED listeners \/ (SetPhase(at, "idle") /\ CanBind(listeners[at]))
        /\ at \in DOMAIN listeners
    BY <1>1 DEF StartEnds, StartOver, ListenErr, StartAbandoned, ServerInv, TypeOK
  <2>2. CASE UNCHANGED listeners
    BY <2>1, <2>2 DEF RunInv, TasksInv
  <2>3. CASE SetPhase(at, "idle") /\ CanBind(listeners[at])
    <3>1. listeners[at].phase \notin {"open", "closing"}
      BY <2>1, <2>3 DEF CanBind, Free, OwnSockets
    <3>2. /\ DOMAIN listeners' = DOMAIN listeners
          /\ \A i \in DOMAIN listeners : i # at => listeners'[i] = listeners[i]
      BY <2>1, <2>3, SetPhaseFact DEF ServerInv, Phases
    <3> QED
      BY <2>1, <3>1, <3>2 DEF RunInv, TasksInv
  <2> QED
    BY <2>1, <2>2, <2>3
<1>2. CASE StopsListener
  <2>1. /\ server' \in {"stopping", "stopped"} /\ senders' \subseteq senders
        /\ at \in DOMAIN listeners
        /\ \/ SetPhase(at, "closing")
           \/ \E q \in Phases : SetPhase(at, q) /\ listeners[at].phase \notin {"open", "closing"}
    <3>1. \A p \in Phases : Dropped(p) \in Phases
      BY DEF Dropped, Phases
    <3> QED
      BY <1>2, <3>1 DEF StopsListener, StopListener, ServerInv, TypeOK, Phases
  <2>2. CASE SetPhase(at, "closing")
    <3>1. /\ DOMAIN listeners' = DOMAIN listeners /\ listeners'[at].phase = "closing"
          /\ \A i \in DOMAIN listeners : i # at => listeners'[i] = listeners[i]
      BY <2>1, <2>2, SetPhaseFact DEF ServerInv, Phases
    <3> QED
      BY <2>1, <3>1 DEF RunInv, TasksInv
  <2>3. CASE \E q \in Phases : SetPhase(at, q) /\ listeners[at].phase \notin {"open", "closing"}
    <3>1. /\ DOMAIN listeners' = DOMAIN listeners
          /\ \A i \in DOMAIN listeners : i # at => listeners'[i] = listeners[i]
      BY <2>1, <2>3, SetPhaseFact DEF ServerInv, Phases
    <3> QED
      BY <2>1, <2>3, <3>1 DEF RunInv, TasksInv
  <2> QED
    BY <2>1, <2>2, <2>3
<1>3. CASE Drops
  <2>1. /\ server' = "gone" /\ senders' \subseteq senders
        /\ DOMAIN listeners' = DOMAIN listeners
        /\ \A i \in DOMAIN listeners :
             listeners[i].phase \in {"open", "closing"} => listeners'[i].phase = "closing"
    BY <1>3, DropFact DEF Drops, DropServer, Dropped, ServerInv
  <2> QED
    BY <2>1 DEF RunInv, TasksInv
<1> QED
  BY <1>1, <1>2, <1>3

(* Only the phase of that one listener changes when it ends. *)
LEMMA EndsFact ==
    ASSUME ServerInv, NEW i \in DOMAIN listeners, ListenerEnds(i) \/ Drains(i)
    PROVE  /\ DOMAIN listeners' = DOMAIN listeners /\ listeners'[i].phase \in {"lingering", "closed"}
           /\ Alike(listeners'[i], listeners[i])
           /\ \A j \in DOMAIN listeners : j # i => listeners'[j] = listeners[j]
<1>1. PICK q \in {"lingering", "closed"} : SetPhase(i, q)
  BY DEF ListenerEnds, Closes, Collapses, Drains, Leaves
<1>2. q \in Phases
  BY DEF Phases
<1> QED
  BY <1>1, <1>2, SetPhaseFact DEF ServerInv

LEMMA RunWorld ==
    ASSUME HeardInv, ServerInv, RunInv,
           \/ \E i \in DOMAIN listeners : ListenerEnds(i) \/ (Drains(i) /\ UNCHANGED logVars)
           \/ \E s \in senders : ConnsEnd(s) \/ HandshakesEnd(s)
    PROVE  RunInv'
<1>1. ASSUME NEW i \in DOMAIN listeners, ListenerEnds(i)
      PROVE  RunInv'
  <2>1. /\ UNCHANGED <<server, at, writers>>
        /\ \A s \in senders' :
             \/ s \in senders /\ ~(s[1] = "task" /\ s[2] = i)
             \/ s[1] \in {"conns", "handshakes"} /\ senders # {}
        /\ \A s \in senders : ~(s[1] = "task" /\ s[2] = i) => s \in senders'
    <3>1. Survivors(i) \subseteq {"conns", "handshakes"}
      BY DEF Survivors
    <3> QED
      BY <1>1, <3>1, SurvivorsFact DEF ListenerEnds, Closes, Collapses, Of
  <2>2. /\ DOMAIN listeners' = DOMAIN listeners /\ listeners'[i].phase \in {"lingering", "closed"}
        /\ \A j \in DOMAIN listeners : j # i => listeners'[j] = listeners[j]
    BY <1>1, EndsFact
  <2>3. \A j \in DOMAIN listeners : Logs("field", j) => Logs("field", j)'
    BY <2>1 DEF Logs, Newest
  <2>4. \A j \in DOMAIN listeners : j # i /\ Logs("task", j) => Logs("task", j)'
    BY <2>1 DEF Logs, Newest
  <2>5. TasksInv'
    BY <2>1, <2>2 DEF RunInv, TasksInv
  <2>6. server \in {"building", "built"} => senders' = {}
    BY <2>1 DEF RunInv
  <2> QED
    BY <2>1, <2>2, <2>3, <2>4, <2>5, <2>6 DEF RunInv
<1>2. ASSUME NEW s \in senders, ConnsEnd(s) \/ HandshakesEnd(s)
      PROVE  RunInv'
  <2>1. /\ s[1] \in {"conns", "handshakes"} /\ senders' = senders \ {s}
        /\ UNCHANGED <<server, at, listeners, writers>>
    BY <1>2 DEF ConnsEnd, HandshakesEnd, vars
  <2>2. \A kind \in {"field", "task"}, j \in DOMAIN listeners : Logs(kind, j) => Logs(kind, j)'
    BY <2>1 DEF Logs, Newest
  <2>3. TasksInv'
    BY <2>1 DEF RunInv, TasksInv
  <2> QED
    BY <2>1, <2>2, <2>3 DEF RunInv
<1>3. ASSUME NEW i \in DOMAIN listeners, Drains(i) /\ UNCHANGED logVars
      PROVE  RunInv'
  <2>1. /\ UNCHANGED <<server, at, writers, senders>>
        /\ listeners[i].phase = "lingering"
    BY <1>3 DEF Drains, logVars
  <2>2. /\ DOMAIN listeners' = DOMAIN listeners /\ listeners'[i].phase \in {"lingering", "closed"}
        /\ \A j \in DOMAIN listeners : j # i => listeners'[j] = listeners[j]
    BY <1>3, EndsFact
  <2>3. \A kind \in {"field", "task"}, j \in DOMAIN listeners : Logs(kind, j) => Logs(kind, j)'
    BY <2>1 DEF Logs, Newest
  <2>4. TasksInv'
    BY <2>1, <2>2 DEF RunInv, TasksInv
  <2> QED
    BY <2>1, <2>2, <2>3, <2>4 DEF RunInv
<1> QED
  BY <1>1, <1>2, <1>3

LEMMA RunStep ==
    ASSUME HeardInv, ServerInv, RunInv, [LogNext]_allVars
    PROVE  RunInv'
<1>1. CASE UNCHANGED allVars
  BY <1>1 DEF allVars, vars, logVars, RunInv, TasksInv, Logs, Newest
<1>2. CASE Configuring /\ UNCHANGED logVars
  <2>1. server = "building" /\ server' \in {"building", "built", "gone"} /\ UNCHANGED <<senders, writers>>
    BY <1>2 DEF Configuring, AddHost, HostFails, AddAddress, AddHostDone, AddFails, Build, logVars
  <2> QED
    BY <2>1 DEF RunInv, TasksInv
<1>3. CASE Stop /\ UNCHANGED logVars
  BY <1>3 DEF Stop, logVars, RunInv, TasksInv
<1>4. CASE \E proto \in {"tcp", "udp"}, addr \in Addrs : OtherProcess(proto, addr) /\ UNCHANGED logVars
  BY <1>4 DEF OtherProcess, logVars, RunInv, TasksInv, Logs, Newest
<1>5. ASSUME NEW g \in DOMAIN writers, Log(g) \/ Write(g) \/ WriterEnds(g)
      PROVE  RunInv'
  <2>1. UNCHANGED <<server, at, listeners, senders>> /\ Newest' = Newest
    BY <1>5 DEF Log, Write, WriterEnds, vars, Newest, HeardInv, HeardTypes
  <2> QED
    BY <2>1 DEF RunInv, TasksInv, Logs
<1> QED
  BY <1>1, <1>2, <1>3, <1>4, <1>5, RunStart, RunListen, RunEnd, RunWorld DEF LogNext

(* After a start() that succeeded everything that listens logs to the writer *)
(* of that start, which runs: however many starts have failed before.        *)
THEOREM RunningServerIsHeard == LogSpec => []RunningIsHeard
<1> DEFINE Inv == ServerInv /\ HeardInv /\ RunInv
<1>1. LogInit => Inv
  <2>1. LogInit => /\ writers = <<>> /\ unread = <<>> /\ senders = {} /\ server = "building"
                   /\ Init
    BY DEF LogInit, Init
  <2>2. Init => ServerInv
    BY DEF Init, ServerInv, TypeOK, OneListenerPerAddress, HostsInv, LoopInv, ServerStates
  <2>3. LogInit => HeardInv
    BY <2>1 DEF HeardInv, HeardTypes, NothingUnheard
  <2>4. LogInit => RunInv
    BY <2>1 DEF RunInv, TasksInv
  <2> QED
    BY <2>1, <2>2, <2>3, <2>4
<1>2. Inv /\ [LogNext]_allVars => Inv'
  BY ServerAssumption, ServerStep, LogStepIsStep, HeardStep, RunStep
<1>3. Inv => RunningIsHeard
  <2> SUFFICES ASSUME Inv, server = "running"
               PROVE  /\ writers[Newest] = "running"
                      /\ \A i \in DOMAIN listeners : listeners[i].phase = "open" =>
                           Of("task", i) = {<<"task", i, Newest>>}
    BY DEF RunningIsHeard
  <2>1. \A i \in DOMAIN listeners : listeners[i].phase = "open" =>
          Of("task", i) = {<<"task", i, Newest>>}
    <3> SUFFICES ASSUME NEW i \in DOMAIN listeners, listeners[i].phase = "open"
                 PROVE  Of("task", i) = {<<"task", i, Newest>>}
      OBVIOUS
    <3>1. Logs("task", i)
      BY DEF RunInv
    <3>2. \A s \in senders : s = <<s[1], s[2], s[3]>>
      BY DEF HeardInv, HeardTypes
    <3>3. \A s \in Of("task", i) : s = <<"task", i, Newest>>
      BY <3>1, <3>2 DEF Logs, Of
    <3> QED
      BY <3>1, <3>3 DEF Logs, Of
  <2>2. 1 \in DOMAIN listeners
    BY DEF ServerInv, LoopInv
  <2>3. Logs("field", 1)
    BY <2>2 DEF RunInv
  <2>4. Held(Newest) /\ Newest \in DOMAIN writers
    BY <2>3 DEF Logs, Held, HeardInv, HeardTypes
  <2>5. writers[Newest] \in {"running", "ended"}
    BY <2>4 DEF HeardInv, HeardTypes
  <2> QED
    BY <2>1, <2>4, <2>5 DEF HeardInv, NothingUnheard
<1> HIDE DEF Inv
<1> QED
  BY <1>1, <1>2, <1>3, PTL DEF LogSpec

-----------------------------------------------------------------------------
(* Why the writers end: what holds a sender is gone, or on its way, when the *)
(* server has stopped or was dropped.                                        *)

(* start() takes its sender with it, and stop() those of the listeners that  *)
(* it has passed                                                             *)
HoldInv ==
    /\ \A s \in senders :
         /\ s[1] \in Kinds
         /\ s[1] = "start" => server = "starting"
         /\ s[1] = "field" =>
              /\ s[2] \in DOMAIN listeners
              /\ server \notin {"stopped", "gone"}
              /\ server = "stopping" => at <= s[2]
         /\ s[1] = "handshakes" => s[2] \in DOMAIN listeners /\ listeners[s[2]].proto = "tcp"
    /\ server = "gone" => \A i \in DOMAIN listeners : listeners[i].phase # "open"

Over == {"stopped", "gone"}

(* Once the server has stopped or was dropped, a sender belongs to a         *)
(* connection, which over TCP may be in a TLS handshake that nobody ends,    *)
(* or, if it was dropped, to the task of a listener that is closing: none    *)
(* waits for the server (rt.rs 354-368, worker/tcp.rs 82-97).                *)
LastSendersLeave ==
    server \in Over =>
        \A s \in senders :
            \/ s[1] = "conns"
            \/ /\ s[1] = "handshakes"
               /\ s[2] \in DOMAIN listeners /\ listeners[s[2]].proto = "tcp"
            \/ /\ s[1] = "task" /\ server = "gone"
               /\ s[2] \in DOMAIN listeners /\ listeners[s[2]].phase = "closing"

(* From then on no writer is made and no sender either, except that the task *)
(* of a listener leaves its own to its connections.                          *)
SendersOnlyGo ==
    server \in Over =>
        /\ server' \in Over
        /\ Len(writers') = Len(writers)
        /\ \A s \in senders' \ senders :
             /\ s[1] \in Survivors(s[2])
             /\ \E t \in senders \ senders' : t[1] = "task" /\ t[2] = s[2] /\ t[3] = s[3]

LEMMA HoldStart ==
    ASSUME ServerInv, HoldInv, StartLogger \/ Listens \/ StartEnds
    PROVE  HoldInv'
<1>0. Len(listeners) \in Nat /\ DOMAIN listeners = 1..Len(listeners)
  BY DEF ServerInv, TypeOK
<1>1. CASE StartLogger
  <2>1. /\ server' = "starting" /\ UNCHANGED listeners /\ 1 \in DOMAIN listeners
        /\ senders' = Given(senders, 1, Newest + 1) \cup {<<"start", 0, Newest + 1>>}
        /\ server \in {"built", "running", "failed"}
    BY <1>0, <1>1 DEF StartLogger, Start
  <2>2. \A s \in senders' : s \in senders \/ s = <<"field", 1, Newest + 1>> \/ s = <<"start", 0, Newest + 1>>
    BY <2>1 DEF Given
  <2> QED
    BY <2>1, <2>2 DEF HoldInv, Kinds
<1>2. CASE Listens
  <2> DEFINE S == senders \cup {<<"task", at, s[3]>> : s \in Of("field", at)}
  <2>1. /\ server = "starting" /\ at \in DOMAIN listeners /\ SetPhase(at, "open")
        /\ server' = IF at = Len(listeners) THEN "running" ELSE "starting"
        /\ senders' = IF server' = "running" THEN StartOver(S) ELSE Given(S, at + 1, Newest)
    BY <1>2 DEF Listens, ListenOk, ServerInv, TypeOK
  <2>2. /\ DOMAIN listeners' = DOMAIN listeners
        /\ \A i \in DOMAIN listeners : listeners'[i].proto = listeners[i].proto
    BY <2>1, SetPhaseFact DEF ServerInv, Phases, Alike
  <2>3. server' = "starting" => at + 1 \in DOMAIN listeners
    BY <1>0, <2>1
  <2>4. \A s \in S : s \in senders \/ s[1] = "task"
    OBVIOUS
  <2> HIDE DEF S
  <2>5. \A s \in senders' :
          \/ s \in S /\ (server' = "running" => s[1] # "start")
          \/ server' = "starting" /\ s = <<"field", at + 1, Newest>>
    BY <2>1 DEF StartOver, Given
  <2> QED
    BY <2>1, <2>2, <2>3, <2>4, <2>5 DEF HoldInv, Kinds
<1>3. CASE StartEnds
  <2>1. /\ server' = "failed" /\ senders' = StartOver(senders)
        /\ UNCHANGED listeners \/ SetPhase(at, "idle")
        /\ at \in DOMAIN listeners /\ server = "starting"
    BY <1>3 DEF StartEnds, ListenErr, StartAbandoned, ServerInv, TypeOK
  <2>2. /\ DOMAIN listeners' = DOMAIN listeners
        /\ \A i \in DOMAIN listeners : listeners'[i].proto = listeners[i].proto
    BY <2>1, SetPhaseFact DEF ServerInv, Phases, Alike
  <2> QED
    BY <2>1, <2>2 DEF HoldInv, StartOver
<1> QED
  BY <1>1, <1>2, <1>3

LEMMA HoldEnd ==
    ASSUME ServerInv, HoldInv,
           \/ Stop /\ UNCHANGED logVars
           \/ StopsListener \/ Drops
    PROVE  HoldInv'
<1>0. Len(listeners) \in Nat /\ DOMAIN listeners = 1..Len(listeners)
  BY DEF ServerInv, TypeOK
<1>1. CASE Stop /\ UNCHANGED logVars
  <2>1. /\ UNCHANGED <<listeners, senders>> /\ at' = 1
        /\ server \in {"built", "running", "failed"}
        /\ server' = IF listeners = <<>> THEN "gone" ELSE "stopping"
    BY <1>1 DEF Stop, logVars
  <2>2. \A i \in DOMAIN listeners : 1 <= i
    BY <1>0
  <2>3. listeners = <<>> => DOMAIN listeners = {}
    BY <1>0
  <2> QED
    BY <2>1, <2>2, <2>3 DEF HoldInv
<1>2. CASE StopsListener
  <2>1. /\ at \in DOMAIN listeners /\ server = "stopping"
        /\ senders' = IF at' = at THEN senders ELSE senders \ Of("field", at)
        /\ \/ SetPhase(at, "closing") /\ UNCHANGED <<server, at>>
           \/ /\ SetPhase(at, Dropped(listeners[at].phase)) /\ at' = at + 1
              /\ server' = IF at = Len(listeners) THEN "stopped" ELSE "stopping"
    BY <1>2 DEF StopsListener, StopListener, ServerInv, TypeOK
  <2>2. /\ DOMAIN listeners' = DOMAIN listeners
        /\ \A i \in DOMAIN listeners : listeners'[i].proto = listeners[i].proto
    <3>1. \A p : Dropped(p) \in Phases
      BY DEF Dropped, Phases
    <3> QED
      BY <2>1, <3>1, SetPhaseFact DEF ServerInv, Phases, Alike
  <2>3. CASE UNCHANGED <<server, at>>
    BY <2>1, <2>2, <2>3 DEF HoldInv
  <2>4. CASE /\ at' = at + 1
             /\ server' = IF at = Len(listeners) THEN "stopped" ELSE "stopping"
    <3>1. at' # at /\ senders' = senders \ Of("field", at)
      BY <1>0, <2>1, <2>4
    <3>2. \A k \in DOMAIN listeners : at <= k /\ k # at => at + 1 <= k /\ at # Len(listeners)
      BY <1>0, <2>1
    <3>3. \A s \in senders' : s[1] = "field" =>
            s[2] \in DOMAIN listeners /\ at + 1 <= s[2] /\ at # Len(listeners)
      BY <2>1, <3>1, <3>2 DEF HoldInv, Of
    <3> QED
      BY <2>1, <2>2, <2>4, <3>1, <3>3 DEF HoldInv
  <2> QED
    BY <2>1, <2>3, <2>4
<1>3. CASE Drops
  <2>1. /\ server' = "gone" /\ senders' = {s \in senders : s[1] \notin {"start", "field"}}
        /\ DOMAIN listeners' = DOMAIN listeners
        /\ \A i \in DOMAIN listeners :
             listeners'[i].phase # "open" /\ listeners'[i].proto = listeners[i].proto
    BY <1>3, DropFact DEF Drops, DropServer, Dropped, Alike, ServerInv
  <2> QED
    BY <2>1 DEF HoldInv
<1> QED
  BY <1>1, <1>2, <1>3

LEMMA HoldStep ==
    ASSUME ServerInv, RunInv, HoldInv, [LogNext]_allVars
    PROVE  HoldInv'
<1>1. CASE UNCHANGED allVars
  BY <1>1 DEF allVars, vars, logVars, HoldInv
<1>2. CASE Configuring /\ UNCHANGED logVars
  <2>1. /\ senders' = {}
        /\ server' = "gone" => listeners' = <<>>
    BY <1>2 DEF Configuring, AddHost, HostFails, AddAddress, AddHostDone, AddFails, Build, logVars, RunInv
  <2> QED
    BY <2>1 DEF HoldInv
<1>3. CASE \E proto \in {"tcp", "udp"}, addr \in Addrs : OtherProcess(proto, addr) /\ UNCHANGED logVars
  BY <1>3 DEF OtherProcess, logVars, HoldInv
<1>4. ASSUME NEW g \in DOMAIN writers, Log(g) \/ Write(g) \/ WriterEnds(g)
      PROVE  HoldInv'
  BY <1>4 DEF Log, Write, WriterEnds, vars, HoldInv
<1>5. ASSUME NEW s \in senders, ConnsEnd(s) \/ HandshakesEnd(s)
      PROVE  HoldInv'
  BY <1>5 DEF ConnsEnd, HandshakesEnd, vars, HoldInv
<1>6. ASSUME NEW i \in DOMAIN listeners, ListenerEnds(i) \/ (Drains(i) /\ UNCHANGED logVars)
      PROVE  HoldInv'
  <2>1. UNCHANGED <<server, at>>
    BY <1>6 DEF ListenerEnds, Closes, Collapses, Drains
  <2>2. \A s \in senders' :
          \/ s \in senders
          \/ s[1] = "conns"
          \/ s[1] = "handshakes" /\ s[2] = i /\ listeners[i].proto = "tcp"
    <3>1. CASE Drains(i) /\ UNCHANGED logVars
      BY <3>1 DEF logVars
    <3>2. CASE ListenerEnds(i)
      BY <3>2, SurvivorsFact DEF Survivors
    <3> QED
      BY <1>6, <3>1, <3>2
  <2>3. /\ DOMAIN listeners' = DOMAIN listeners /\ listeners'[i].phase \in {"lingering", "closed"}
        /\ listeners'[i].proto = listeners[i].proto
        /\ \A j \in DOMAIN listeners : j # i => listeners'[j] = listeners[j]
    BY <1>6, EndsFact DEF Alike
  <2> QED
    BY <2>1, <2>2, <2>3 DEF HoldInv, Kinds
<1> QED
  BY <1>1, <1>2, <1>3, <1>4, <1>5, <1>6, HoldStart, HoldEnd DEF LogNext

(* The invariants of the server with its log, all in one. *)
LogInv == ServerInv /\ HeardInv /\ RunInv /\ HoldInv

THEOREM LogInvariant == LogSpec => []LogInv
<1>1. LogInit => LogInv
  <2>1. LogInit => /\ writers = <<>> /\ unread = <<>> /\ senders = {} /\ server = "building"
                   /\ Init
    BY DEF LogInit, Init
  <2>2. Init => ServerInv
    BY DEF Init, ServerInv, TypeOK, OneListenerPerAddress, HostsInv, LoopInv, ServerStates
  <2>3. LogInit => HeardInv
    BY <2>1 DEF HeardInv, HeardTypes, NothingUnheard
  <2>4. LogInit => RunInv /\ HoldInv
    BY <2>1 DEF RunInv, TasksInv, HoldInv
  <2> QED
    BY <2>1, <2>2, <2>3, <2>4 DEF LogInv
<1>2. LogInv /\ [LogNext]_allVars => LogInv'
  BY ServerAssumption, ServerStep, LogStepIsStep, HeardStep, RunStep, HoldStep DEF LogInv
<1> QED
  BY <1>1, <1>2, PTL DEF LogSpec

(* After stop(), or a drop, no sender waits for anything but connections and *)
(* listeners that close.                                                     *)
THEOREM SendersLeave == LogSpec => []LastSendersLeave
<1>1. LogInv => LastSendersLeave
  <2> SUFFICES ASSUME LogInv, server \in Over, NEW s \in senders, s[1] \notin {"conns", "handshakes"}
               PROVE  /\ s[1] = "task" /\ server = "gone"
                      /\ s[2] \in DOMAIN listeners /\ listeners[s[2]].phase = "closing"
    BY DEF LastSendersLeave, LogInv, HoldInv
  <2>1. s[1] = "task"
    BY DEF LogInv, HoldInv, Kinds, Over
  <2>2. s[2] \in DOMAIN listeners /\ listeners[s[2]].phase \in {"open", "closing"}
    BY <2>1 DEF LogInv, RunInv, TasksInv
  <2>3. server = "gone"
    BY <2>2 DEF LogInv, ServerInv, LoopInv, Passed, Over
  <2> QED
    BY <2>1, <2>2, <2>3 DEF LogInv, HoldInv
<1> QED
  BY <1>1, LogInvariant, PTL

(* And no sender comes in its place. *)
THEOREM NoSenderReturns == LogSpec => [][SendersOnlyGo]_allVars
<1>1. LogInv /\ [LogNext]_allVars => [SendersOnlyGo]_allVars
  <2> SUFFICES ASSUME LogInv, LogNext, server \in Over
               PROVE  /\ server' \in Over
                      /\ Len(writers') = Len(writers)
                      /\ \A s \in senders' \ senders :
                           /\ s[1] \in Survivors(s[2])
                           /\ \E t \in senders \ senders' : t[1] = "task" /\ t[2] = s[2] /\ t[3] = s[3]
    BY DEF SendersOnlyGo
  <2>1. CASE \E proto \in {"tcp", "udp"}, addr \in Addrs : OtherProcess(proto, addr) /\ UNCHANGED logVars
    BY <2>1 DEF OtherProcess, logVars
  <2>2. ASSUME NEW i \in DOMAIN listeners, ListenerEnds(i)
        PROVE  /\ server' = server /\ writers' = writers
               /\ \A s \in senders' \ senders :
                    /\ s[1] \in Survivors(s[2])
                    /\ \E t \in senders \ senders' : t[1] = "task" /\ t[2] = s[2] /\ t[3] = s[3]
    <3>1. server' = server /\ writers' = writers
      BY <2>2 DEF ListenerEnds, Closes, Collapses
    <3>2. \A s \in senders' \ senders : \E k \in Survivors(i), t \in Of("task", i) : s = <<k, i, t[3]>>
      BY <2>2, SurvivorsFact
    <3>3. \A t \in Of("task", i) : t \in senders \ senders' /\ t[1] = "task" /\ t[2] = i
      BY <2>2, SurvivorsFact DEF Of
    <3> QED
      BY <3>1, <3>2, <3>3
  <2>3. ASSUME NEW s \in senders, ConnsEnd(s) \/ HandshakesEnd(s)
        PROVE  server' = server /\ writers' = writers /\ senders' \subseteq senders
    BY <2>3 DEF ConnsEnd, HandshakesEnd, vars
  <2>4. ASSUME NEW g \in DOMAIN writers, Log(g) \/ Write(g) \/ WriterEnds(g)
        PROVE  server' = server /\ Len(writers') = Len(writers) /\ senders' = senders
    <3>1. Len(writers) \in Nat /\ DOMAIN writers = 1..Len(writers)
      BY DEF LogInv, HeardInv, HeardTypes
    <3>2. writers' = writers \/ writers' = [writers EXCEPT ![g] = "ended"]
      BY <2>4 DEF Log, Write, WriterEnds
    <3>3. writers \in Seq({"running", "ended"})
      BY DEF LogInv, HeardInv, HeardTypes
    <3>4. Len(writers') = Len(writers)
      BY <3>2, <3>3
    <3> QED
      BY <2>4, <3>4 DEF Log, Write, WriterEnds, vars
  <2>5. ASSUME NEW i \in DOMAIN listeners, Drains(i) /\ UNCHANGED logVars
        PROVE  server' = server /\ writers' = writers /\ senders' = senders
    BY <2>5 DEF Drains, logVars
  <2>6. ~(Configuring \/ Stop \/ StartLogger \/ Listens \/ StartEnds \/ StopsListener \/ Drops)
    BY DEF Over, Configuring, AddHost, HostFails, AddAddress, AddHostDone, AddFails, Build, Stop,
           StartLogger, Start, Listens, ListenOk, StartEnds, ListenErr, StartAbandoned,
           StopsListener, StopListener, Drops, DropServer
  <2> QED
    BY <2>1, <2>2, <2>3, <2>4, <2>5, <2>6 DEF LogNext
<1> QED
  BY <1>1, LogInvariant, PTL DEF LogSpec

=============================================================================
