----------------------------- MODULE LogPipeline -----------------------------
(***************************************************************************)
(* The server (VetisServer) with its log: every start() makes a channel    *)
(* and a thread that writes what arrives there (rt.rs 226-236,             *)
(* worker/log.rs); the sender is cloned into the listeners, and from there *)
(* into their tasks and those of their connections.  Nobody joins a        *)
(* writer: it ends when its channel is empty and no sender of it is left.  *)
(* The messages have the levels that the macros of src/ give them, all of  *)
(* which the writer knows: its unreachable!() (worker/log.rs 24) stays so. *)
(***************************************************************************)
EXTENDS VetisServer

CONSTANTS
    MaxStarts,      \* BOUND: how often start() is called
    QueueSize       \* ServerConfig::logger_queue_size

ASSUME LogAssumption == MaxStarts \in Nat /\ QueueSize \in Nat \ {0}

VARIABLES
    writers,        \* the threads, one for each start() so far
    unread,         \* how many messages wait in the channel of each
    senders         \* who has a sender: <<kind, listener, writer>>

logVars == <<writers, unread, senders>>
allVars == <<vars, logVars>>

-----------------------------------------------------------------------------

(* the future of start(), the field of a listener, its task (with its        *)
(* workers), the tasks of its connections that hear a signal or are aborted, *)
(* and those in a TLS handshake that do neither (worker/tcp.rs 82-97): they  *)
(* wait for the peer                                                         *)
Kinds == {"start", "field", "task", "conns", "handshakes"}

Held(g) == \E s \in senders : s[3] = g

Of(kind, i) == {s \in senders : s[1] = kind /\ s[2] = i}

(* the writer of the start() that runs *)
Newest == Len(writers)

(* MUTANT: a listener keeps the logger it has *)
Given_First(S, i, g) == IF \E s \in S : s[1] = "field" /\ s[2] = i THEN S ELSE S \cup {<<"field", i, g>>}

(* Listener::logger() *)
Given(S, i, g) == {s \in S : s[1] # "field" \/ s[2] # i} \cup {<<"field", i, g>>}

(* MUTANT: the server keeps the sender *)
StartOver_Kept(S) == S

(* the sender of start() goes with its future *)
StartOver(S) == {s \in S : s[1] # "start"}

LogInit ==
    /\ Init
    /\ writers = <<>>
    /\ unread = <<>>
    /\ senders = {}

-----------------------------------------------------------------------------
(* What the steps of the server do to the senders.                         *)

StartLogger ==
    /\ Len(writers) < MaxStarts
    /\ Start
    /\ writers' = Append(writers, "running")
    /\ unread' = Append(unread, 0)
    /\ senders' = Given(senders, 1, Newest + 1) \cup {<<"start", 0, Newest + 1>>}

(* the task gets a clone of the listener's logger, then the loop gives the *)
(* next listener its own                                                   *)
Listens ==
    /\ ListenOk
    /\ LET S == senders \cup {<<"task", at, s[3]>> : s \in Of("field", at)}
       IN  senders' = IF server' = "running" THEN StartOver(S) ELSE Given(S, at + 1, Newest)
    /\ UNCHANGED <<writers, unread>>

StartEnds ==
    /\ ListenErr \/ StartAbandoned
    /\ senders' = StartOver(senders)
    /\ UNCHANGED <<writers, unread>>

(* a listener that stop() has passed is dropped *)
StopsListener ==
    /\ StopListener
    /\ senders' = IF at' = at THEN senders ELSE senders \ Of("field", at)
    /\ UNCHANGED <<writers, unread>>

Drops ==
    /\ DropServer
    /\ senders' = {s \in senders : s[1] \notin {"start", "field"}}
    /\ UNCHANGED <<writers, unread>>

(* what a listener that ends may leave behind *)
Survivors(i) == IF listeners[i].proto = "tcp" THEN {"conns", "handshakes"} ELSE {"conns"}

(* the task of a listener ends, those of its connections perhaps later *)
ListenerEnds(i) ==
    /\ Closes(i) \/ Collapses(i)
    /\ \E K \in SUBSET Survivors(i) :
        senders' = (senders \ Of("task", i)) \cup {<<k, i, s[3]>> : k \in K, s \in Of("task", i)}
    /\ UNCHANGED <<writers, unread>>

ConnsEnd(s) ==
    /\ s[1] = "conns"
    /\ senders' = senders \ {s}
    /\ UNCHANGED <<vars, writers, unread>>

(* the peer completes the handshakes, and the tasks see the signal, or leaves *)
HandshakesEnd(s) ==
    /\ s[1] = "handshakes"
    /\ senders' = senders \ {s}
    /\ UNCHANGED <<vars, writers, unread>>

-----------------------------------------------------------------------------
(* The channel and LogWorker::run().                                       *)

(* a message for which there is no room is not in the channel *)
Log(g) ==
    /\ Held(g)
    /\ unread[g] < QueueSize
    /\ unread' = [unread EXCEPT ![g] = @ + 1]
    /\ UNCHANGED <<vars, writers, senders>>

Write(g) ==
    /\ writers[g] = "running"
    /\ unread[g] > 0
    /\ unread' = [unread EXCEPT ![g] = @ - 1]
    /\ UNCHANGED <<vars, writers, senders>>

(* MUTANT: the writer ends with the last sender *)
WriterEnds_Undrained(g) ==
    /\ writers[g] = "running"
    /\ ~Held(g)
    /\ writers' = [writers EXCEPT ![g] = "ended"]
    /\ UNCHANGED <<vars, unread, senders>>

(* recv() fails when the channel is empty and nobody can send *)
WriterEnds(g) ==
    /\ writers[g] = "running"
    /\ unread[g] = 0
    /\ ~Held(g)
    /\ writers' = [writers EXCEPT ![g] = "ended"]
    /\ UNCHANGED <<vars, unread, senders>>

-----------------------------------------------------------------------------

Configuring ==
    \/ \E h \in Hosts : AddHost(h)
    \/ HostFails
    \/ AddAddress
    \/ AddHostDone
    \/ AddFails
    \/ Build

LogNext ==
    \/ Configuring /\ UNCHANGED logVars
    \/ Stop /\ UNCHANGED logVars
    \/ \E proto \in {"tcp", "udp"}, addr \in Addrs : OtherProcess(proto, addr) /\ UNCHANGED logVars
    \/ StartLogger
    \/ Listens
    \/ StartEnds
    \/ StopsListener
    \/ Drops
    \/ \E i \in DOMAIN listeners : ListenerEnds(i) \/ (Drains(i) /\ UNCHANGED logVars)
    \/ \E s \in senders : ConnsEnd(s) \/ HandshakesEnd(s)
    \/ \E g \in DOMAIN writers : Log(g) \/ Write(g) \/ WriterEnds(g)

(* a writer is a thread of its own, and the tasks of connections that have   *)
(* lost their listener end (TcpListener!OrphansEnd, UdpListener!TasksEnd),   *)
(* except what OrphansEnd excepts: a TLS handshake that nobody aborted lasts *)
(* as long as its peer likes                                                 *)
LogFairness ==
    /\ WF_allVars(\E s \in senders : ConnsEnd(s))
    /\ \A g \in 1 .. MaxStarts : WF_allVars(g \in DOMAIN writers /\ (Write(g) \/ WriterEnds(g)))

LogSpec == LogInit /\ [][LogNext]_allVars /\ Fairness /\ LogFairness

-----------------------------------------------------------------------------
(* Properties.                                                             *)

(* A writer that has ended left nothing unread, and nobody has a sender that *)
(* leads to it, however many times start() was called, failed or was dropped *)
(* in between (rt.rs 226-250, worker/log.rs 16-30): what a channel has       *)
(* accepted is not lost unless the process ends.                             *)
NothingUnheard ==
    \A g \in DOMAIN writers : writers[g] = "ended" => unread[g] = 0 /\ ~Held(g)

(* After a start() that succeeded every listening task logs to the writer of *)
(* that start, also when an earlier one has failed and its writer goes on    *)
(* (rt.rs 238-248, listener/tcp.rs 173-179).                                 *)
RunningIsHeard ==
    server = "running" =>
        /\ writers[Newest] = "running"
        /\ \A i \in DOMAIN listeners : listeners[i].phase = "open" =>
            Of("task", i) = {<<"task", i, Newest>>}

(* g cannot end: a TLS handshake whose task nobody aborted, and whose peer   *)
(* stays, has a sender of it                                                 *)
HeldByPeer(g) == \E s \in senders : s[1] = "handshakes" /\ s[3] = g

(* Each writer ends when the server was stopped or dropped, though none is   *)
(* told to: the last sender goes, with the last task that held one           *)
(* (rt.rs 354-368, worker/log.rs 18).  Only a TLS client that neither        *)
(* completes its handshake nor leaves can keep a writer alive                *)
(* (worker/tcp.rs 82-97), and only the writer of its own listener.           *)
WritersEnd ==
    server \in {"stopped", "gone"} ~> \A g \in DOMAIN writers : writers[g] = "ended" \/ HeldByPeer(g)

=============================================================================
