---------------------------- MODULE TcpListener ----------------------------
(***************************************************************************)
(* The TCP listener of VeTiS: the owner that calls listen() and stop(), the *)
(* task of the ConnectionDispatcher (listener/tcp.rs), its workers and the *)
(* tasks they spawn, one per connection (worker/tcp.rs).                   *)
(*                                                                         *)
(* Every action is what one task does between two of its await points.     *)
(* tokio's select! drops the branch that lost, with the streams it holds,  *)
(* before the handler of the branch that won runs; a watch channel's       *)
(* changed() completes when the value was sent AND when the sender was     *)
(* dropped, so each of the three shutdown signals is derived from the      *)
(* state of the task that owns the sender.                                 *)
(***************************************************************************)
EXTENDS Naturals, Sequences, FiniteSets

CONSTANTS
    Conns,              \* the connections that clients may open
    Workers,            \* the workers of the listener (ListenerConfig::workers)
    ClientAddr(_),      \* the socket address of a connection's peer
    None                \* "no connection", "no worker"

ASSUME TcpAssumption ==
    /\ IsFiniteSet(Workers)
    /\ Workers # {}
    /\ None \notin Conns \cup Workers

VARIABLES
    owner,      \* where the owner of the TcpListener value stands
    task,       \* the program counter of the dispatcher's task
    queue,      \* the bounded channel from the dispatcher to the workers
    worker,     \* the program counter of each worker
    hand,       \* the connection a worker holds between recv() and insert()
    handles,    \* TcpWorker::connections, as the connections it has handles of
    conn,       \* where each connection stands
    peer,       \* what its peer has done so far
    by,         \* the worker that took it from the queue
    aborted     \* the connections whose task was aborted

workerVars == <<worker, hand, handles>>
connVars   == <<conn, peer, by, aborted>>
vars       == <<owner, task, queue, workerVars, connVars>>

-----------------------------------------------------------------------------

Capacity == Cardinality(Workers)

OwnerStates  == {"created", "reserved", "listening", "stopping", "stopped", "dropped"}
TaskStates   == {"none", "spawned", "accepting", "rejecting", "sending", "draining", "done"}
WorkerStates == {"none", "spawned", "recv", "peek", "insert", "closing", "ended", "failed"}
PeerStates   == {"silent", "sent", "gone"}

(* a connection that waits for a worker: in the kernel's backlog, accepted *)
(* by the dispatcher, in the queue, or in the hands of a worker that peeks *)
Waiting == {"backlog", "pending", "queued", "peeked"}
(* a connection with a task: in its TLS handshake, or served               *)
Live == {"tls", "idle", "busy"}
(* how the task of a connection finishes: by itself, by a signal or an      *)
(* abort between two requests, during a request, in its handshake, or with  *)
(* a handler that panics                                                    *)
Over == {"served", "closed", "cut", "refused", "panicked"}
(* closed without ever having had a task: read by a logging statement,     *)
(* dropped by a shutdown, or reset by the peer while a worker looked at it *)
Lost == {"discarded", "dropped", "reset"}
ConnStates == {"absent"} \cup Waiting \cup Live \cup Over \cup Lost

Running == {"accepting", "rejecting", "sending"}

(* the watch channel of the listener: true was sent, or the sender is gone *)
ShutSignal == owner \in {"stopping", "stopped", "dropped"}
(* the watch channel of the dispatcher, seen by the workers                *)
WorkerSignal == task \in {"draining", "done"}
(* the watch channel of worker w, seen by the tasks it spawned             *)
ConnSignal(w) == worker[w] \in {"closing", "ended", "failed"}

(* MUTANT: no join_next() loop *)
Joined_Unawaited == TRUE

(* join_next() has returned every worker of the JoinSet *)
Joined == \A w \in Workers : worker[w] \in {"none", "ended", "failed"}

(* the listening socket is bound, by reserve_port() or by listen() *)
SocketOpen == owner = "reserved" \/ task \notin {"none", "done"}

(* conn with every connection in one of the states S closed by the server *)
Dropping(S) == [c \in Conns |-> IF conn[c] \in S THEN "dropped" ELSE conn[c]]

Init ==
    /\ owner = "created"
    /\ task = "none"
    /\ queue = <<>>
    /\ worker = [w \in Workers |-> "none"]
    /\ hand = [w \in Workers |-> None]
    /\ handles = [w \in Workers |-> {}]
    /\ conn = [c \in Conns |-> "absent"]
    /\ peer = [c \in Conns |-> "silent"]
    /\ by = [c \in Conns |-> None]
    /\ aborted = {}

-----------------------------------------------------------------------------
(* The owner: reserve_port, listen, stop, and dropping the value.          *)

ReservePort ==
    /\ owner = "created"
    /\ owner' = "reserved"
    /\ UNCHANGED <<task, queue, workerVars, connVars>>

Listen ==
    /\ owner \in {"created", "reserved"}
    /\ owner' = "listening"
    /\ task' = "spawned"
    /\ UNCHANGED <<queue, workerVars, connVars>>

(* a listener that never listened has no signal: stop() drops the socket *)
StopUnused ==
    /\ owner \in {"created", "reserved"}
    /\ owner' = "stopped"
    /\ conn' = Dropping({"backlog"})
    /\ UNCHANGED <<task, queue, workerVars, peer, by, aborted>>

Stop ==
    /\ owner = "listening"
    /\ owner' = "stopping"
    /\ UNCHANGED <<task, queue, workerVars, connVars>>

StopReturns ==
    /\ owner = "stopping"
    /\ task = "done"
    /\ owner' = "stopped"
    /\ UNCHANGED <<task, queue, workerVars, connVars>>

(* the value is dropped, or the future of its stop() is *)
Drop ==
    /\ owner \notin {"stopped", "dropped"}
    /\ owner' = "dropped"
    /\ conn' = IF task = "none" THEN Dropping({"backlog"}) ELSE conn
    /\ UNCHANGED <<task, queue, workerVars, peer, by, aborted>>

-----------------------------------------------------------------------------
(* The dispatcher.                                                         *)

(* init() spawns all the workers, or none when the TLS configuration fails: *)
(* run() logs that and goes on accepting.                                   *)
DispatcherRun ==
    /\ task = "spawned"
    /\ task' = "accepting"
    /\ worker' \in {worker, [w \in Workers |-> "spawned"]}
    /\ UNCHANGED <<owner, queue, hand, handles, connVars>>

Accept(c) ==
    /\ task = "accepting"
    /\ conn[c] = "backlog"
    /\ task' = "sending"
    /\ conn' = [conn EXCEPT ![c] = "pending"]
    /\ UNCHANGED <<owner, queue, workerVars, peer, by, aborted>>

AcceptError ==
    /\ task = "accepting"
    /\ task' = "rejecting"
    /\ UNCHANGED <<owner, queue, workerVars, connVars>>

(* The arguments of debug! accept once more; when that succeeds the stream *)
(* is a temporary of the logging statement and is closed with it.          *)
AcceptInLog ==
    /\ task = "rejecting"
    /\ task' = "accepting"
    /\ \/ UNCHANGED conn
       \/ \E c \in Conns :
            /\ conn[c] = "backlog"
            /\ conn' = [conn EXCEPT ![c] = "discarded"]
    /\ UNCHANGED <<owner, queue, workerVars, peer, by, aborted>>

(* MUTANT: an unbounded channel *)
Room_Unbounded == TRUE

Room == Len(queue) < Capacity

Send(c) ==
    /\ task = "sending"
    /\ conn[c] = "pending"
    /\ Room
    /\ task' = "accepting"
    /\ queue' = Append(queue, c)
    /\ conn' = [conn EXCEPT ![c] = "queued"]
    /\ UNCHANGED <<owner, workerVars, peer, by, aborted>>

(* select! drops run(), with the stream that waits for room in the queue, *)
(* and stop() signals the workers.                                        *)
ShutDispatcher ==
    /\ task \in {"spawned"} \cup Running
    /\ ShutSignal
    /\ task' = "draining"
    /\ conn' = Dropping({"pending"})
    /\ UNCHANGED <<owner, queue, workerVars, peer, by, aborted>>

(* MUTANT: the task returns without waiting for the workers *)
Drained_Early ==
    /\ task = "draining"
    /\ task' = "done"
    /\ queue' = <<>>
    /\ conn' = Dropping({"backlog", "queued"})
    /\ UNCHANGED <<owner, workerVars, peer, by, aborted>>

(* the task returns: the socket, its backlog and the queue go with it *)
Drained ==
    /\ task = "draining"
    /\ Joined
    /\ task' = "done"
    /\ queue' = <<>>
    /\ conn' = Dropping({"backlog", "queued"})
    /\ UNCHANGED <<owner, workerVars, peer, by, aborted>>

-----------------------------------------------------------------------------
(* A worker.                                                               *)

WorkerRun(w) ==
    /\ worker[w] = "spawned"
    /\ worker' = [worker EXCEPT ![w] = "recv"]
    /\ UNCHANGED <<owner, task, queue, hand, handles, connVars>>

(* MUTANT: the workers share the receiver under a lock that is held while *)
(* the connection is looked at                                            *)
WorkerRecv_Locked(w) ==
    /\ worker[w] = "recv"
    /\ \A v \in Workers : worker[v] # "peek"
    /\ queue # <<>>
    /\ queue' = Tail(queue)
    /\ worker' = [worker EXCEPT ![w] = "peek"]
    /\ hand' = [hand EXCEPT ![w] = Head(queue)]
    /\ conn' = [conn EXCEPT ![Head(queue)] = "peeked"]
    /\ by' = [by EXCEPT ![Head(queue)] = w]
    /\ UNCHANGED <<owner, task, handles, peer, aborted>>

WorkerRecv(w) ==
    /\ worker[w] = "recv"
    /\ queue # <<>>
    /\ queue' = Tail(queue)
    /\ worker' = [worker EXCEPT ![w] = "peek"]
    /\ hand' = [hand EXCEPT ![w] = Head(queue)]
    /\ conn' = [conn EXCEPT ![Head(queue)] = "peeked"]
    /\ by' = [by EXCEPT ![Head(queue)] = w]
    /\ UNCHANGED <<owner, task, handles, peer, aborted>>

(* A connection is TLS when its first bytes are 16 03.  Two bytes are asked  *)
(* for and one is enough for peek() to return, so a TLS hello may be taken   *)
(* for plain text too; a peer that closed its side before it sent anything   *)
(* reads as no byte, hence as plain text.                                    *)
Classes == {"tls", "idle"}

(* the task is spawned and runs from here on; its handle is not yet stored *)
WorkerSpawn(w) ==
    /\ worker[w] = "peek"
    /\ peer[hand[w]] # "silent"
    /\ \E class \in Classes : conn' = [conn EXCEPT ![hand[w]] = class]
    /\ worker' = [worker EXCEPT ![w] = "insert"]
    /\ UNCHANGED <<owner, task, queue, hand, handles, peer, by, aborted>>

(* MUTANT: one handle per worker in place of a map *)
WithoutAddr_OneSlot(H, c) == {}

(* the map has one entry per address *)
WithoutAddr(H, c) == {h \in H : ClientAddr(h) # ClientAddr(c)}

(* MUTANT: the hand is emptied before its handle is stored *)
WorkerInsert_AfterMove(w) ==
    /\ worker[w] = "insert"
    /\ worker' = [worker EXCEPT ![w] = "recv"]
    /\ hand' = [hand EXCEPT ![w] = None]
    /\ handles' = [handles EXCEPT ![w] = WithoutAddr(@, hand[w]) \cup {hand'[w]}]
    /\ UNCHANGED <<owner, task, queue, connVars>>

(* MUTANT: "if let" in place of "while let" *)
WorkerInsert_OnceOnly(w) ==
    /\ worker[w] = "insert"
    /\ worker' = [worker EXCEPT ![w] = "ended"]
    /\ handles' = [handles EXCEPT ![w] = WithoutAddr(@, hand[w]) \cup {hand[w]}]
    /\ hand' = [hand EXCEPT ![w] = None]
    /\ UNCHANGED <<owner, task, queue, connVars>>

WorkerInsert(w) ==
    /\ worker[w] = "insert"
    /\ worker' = [worker EXCEPT ![w] = "recv"]
    /\ handles' = [handles EXCEPT ![w] = WithoutAddr(@, hand[w]) \cup {hand[w]}]
    /\ hand' = [hand EXCEPT ![w] = None]
    /\ UNCHANGED <<owner, task, queue, connVars>>

(* peer_addr() or peek() fails: run() returns, the worker is dropped and *)
(* nobody spawns another in its place                                    *)
WorkerFail(w) ==
    /\ worker[w] = "peek"
    /\ peer[hand[w]] = "gone"
    /\ conn' = [conn EXCEPT ![hand[w]] = "reset"]
    /\ worker' = [worker EXCEPT ![w] = "failed"]
    /\ hand' = [hand EXCEPT ![w] = None]
    /\ handles' = [handles EXCEPT ![w] = {}]
    /\ UNCHANGED <<owner, task, queue, peer, by, aborted>>

(* MUTANT: the shutdown is looked at between two connections only *)
WorkerShut_BetweenConns(w) ==
    /\ worker[w] \in {"spawned", "recv"}
    /\ WorkerSignal
    /\ worker' = [worker EXCEPT ![w] = "closing"]
    /\ UNCHANGED <<owner, task, queue, hand, handles, connVars>>

(* select! drops run(), with the stream being peeked; stop() signals the *)
(* tasks of the worker                                                   *)
WorkerShut(w) ==
    /\ worker[w] \in {"spawned", "recv", "peek"}
    /\ WorkerSignal
    /\ worker' = [worker EXCEPT ![w] = "closing"]
    /\ conn' = IF worker[w] = "peek" THEN [conn EXCEPT ![hand[w]] = "dropped"] ELSE conn
    /\ hand' = [hand EXCEPT ![w] = None]
    /\ UNCHANGED <<owner, task, queue, handles, peer, by, aborted>>

(* MUTANT: stop() signals and does not abort *)
WorkerAbort_SignalOnly(w) ==
    /\ worker[w] = "closing"
    /\ worker' = [worker EXCEPT ![w] = "ended"]
    /\ handles' = [handles EXCEPT ![w] = {}]
    /\ UNCHANGED <<owner, task, queue, hand, connVars>>

(* and then aborts those it has the handle of, without awaiting them *)
WorkerAbort(w) ==
    /\ worker[w] = "closing"
    /\ worker' = [worker EXCEPT ![w] = "ended"]
    /\ aborted' = aborted \cup {c \in handles[w] : conn[c] \in Live}
    /\ handles' = [handles EXCEPT ![w] = {}]
    /\ UNCHANGED <<owner, task, queue, hand, conn, peer, by>>

-----------------------------------------------------------------------------
(* The task of a connection.                                               *)

Moves(c, from, to) ==
    /\ conn[c] = from
    /\ conn' = [conn EXCEPT ![c] = to]
    /\ UNCHANGED <<owner, task, queue, workerVars, peer, by, aborted>>

TlsAccept(c) == Moves(c, "tls", "idle")

(* the error leaves the task before its entry is removed from the map *)
TlsFail(c) == Moves(c, "tls", "refused")

RequestStart(c) == peer[c] # "gone" /\ Moves(c, "idle", "busy")

RequestDone(c) == Moves(c, "busy", "idle")

(* hyper polls the handler in the task of the connection: a panic unwinds it, *)
(* past the line that removes its entry                                       *)
HandlerPanics(c) == Moves(c, "busy", "panicked")

(* serving finished, because of either side: the entry of the ADDRESS goes *)
ServeEnd(c) ==
    /\ \/ conn[c] = "idle"
       \/ conn[c] = "busy" /\ peer[c] = "gone"
    /\ conn' = [conn EXCEPT ![c] = "served"]
    /\ handles' = [handles EXCEPT ![by[c]] = WithoutAddr(@, c)]
    /\ UNCHANGED <<owner, task, queue, worker, hand, peer, by, aborted>>

(* MUTANT: one watch channel for the tasks of all workers *)
ShutConn_AnyWorker(c) ==
    /\ \E w \in Workers : ConnSignal(w)
    /\ Moves(c, "idle", "closed") \/ Moves(c, "busy", "cut")

(* the signal of its worker: only the serving half of the task listens *)
ShutConn(c) ==
    /\ by[c] \in Workers
    /\ ConnSignal(by[c])
    /\ Moves(c, "idle", "closed") \/ Moves(c, "busy", "cut")

CancelConn(c) ==
    /\ c \in aborted
    /\ \/ Moves(c, "tls", "closed")
       \/ Moves(c, "idle", "closed")
       \/ Moves(c, "busy", "cut")

-----------------------------------------------------------------------------
(* The clients.  An address is used again only once its last user is gone. *)

Connect(c) ==
    /\ conn[c] = "absent"
    /\ SocketOpen
    /\ \A d \in Conns : 
         conn[d] \in Waiting \cup Live /\ ClientAddr(d) = ClientAddr(c) => peer[d] = "gone"
    /\ conn' = [conn EXCEPT ![c] = "backlog"]
    /\ UNCHANGED <<owner, task, queue, workerVars, peer, by, aborted>>

PeerMoves(c, to) ==
    /\ conn[c] \in Waiting \cup Live
    /\ peer' = [peer EXCEPT ![c] = to]
    /\ UNCHANGED <<owner, task, queue, workerVars, conn, by, aborted>>

PeerSends(c) == peer[c] = "silent" /\ PeerMoves(c, "sent")

PeerLeaves(c) == peer[c] # "gone" /\ PeerMoves(c, "gone")

-----------------------------------------------------------------------------

OwnerNext == ReservePort \/ Listen \/ StopUnused \/ Stop \/ StopReturns \/ Drop

DispatcherNext ==
    \/ DispatcherRun
    \/ AcceptError
    \/ AcceptInLog
    \/ ShutDispatcher
    \/ Drained
    \/ \E c \in Conns : Accept(c) \/ Send(c)

WorkerNext(w) ==
    \/ WorkerRun(w)
    \/ WorkerRecv(w)
    \/ WorkerSpawn(w)
    \/ WorkerInsert(w)
    \/ WorkerFail(w)
    \/ WorkerShut(w)
    \/ WorkerAbort(w)

ConnNext(c) ==
    \/ TlsAccept(c)
    \/ TlsFail(c)
    \/ RequestStart(c)
    \/ RequestDone(c)
    \/ HandlerPanics(c)
    \/ ServeEnd(c)
    \/ ShutConn(c)
    \/ CancelConn(c)

ClientNext(c) == Connect(c) \/ PeerSends(c) \/ PeerLeaves(c)

Next ==
    \/ OwnerNext
    \/ DispatcherNext
    \/ \E w \in Workers : WorkerNext(w)
    \/ \E c \in Conns : ConnNext(c) \/ ClientNext(c)

Dispatch ==
    \/ DispatcherRun
    \/ AcceptInLog
    \/ Drained
    \/ \E c \in Conns : Accept(c) \/ Send(c)

(* The runtime polls every task that can make progress, and select! polls   *)
(* its branches in a random order, so an accept loop cannot starve the      *)
(* shutdown.  Nothing forces accept() to fail, the owner to stop, a client  *)
(* to connect, send or leave, a handshake to succeed, a request to be made  *)
(* or answered.  A handshake with a peer that left ends with an error.      *)
Fairness ==
    /\ WF_vars(StopReturns)
    /\ WF_vars(Dispatch)
    /\ WF_vars(ShutDispatcher)
    /\ \A w \in Workers : WF_vars(WorkerNext(w))
    /\ \A c \in Conns :
        /\ WF_vars(peer[c] = "gone" /\ TlsFail(c))
        /\ WF_vars(ShutConn(c) \/ CancelConn(c))

Spec == Init /\ [][Next]_vars

FairSpec == Spec /\ Fairness

-----------------------------------------------------------------------------
(* Properties.                                                             *)

(* Every variable stays within its type. *)
TypeOK ==
    /\ owner \in OwnerStates
    /\ task \in TaskStates
    /\ queue \in Seq(Conns)
    /\ worker \in [Workers -> WorkerStates]
    /\ hand \in [Workers -> Conns \cup {None}]
    /\ handles \in [Workers -> SUBSET Conns]
    /\ conn \in [Conns -> ConnStates]
    /\ peer \in [Conns -> PeerStates]
    /\ by \in [Conns -> Workers \cup {None}]
    /\ aborted \in SUBSET Conns

(* When stop() has returned (listener/tcp.rs 196-209) the dispatcher and    *)
(* every worker are gone, so nothing can give a connection a task any more, *)
(* and no connection is left without an owner: none waits in the backlog,   *)
(* the queue or the hands of a worker.                                      *)
StopLeavesNoWork ==
    owner = "stopped" =>
        /\ task \in {"none", "done"}
        /\ Joined
        /\ \A c \in Conns : conn[c] \notin Waiting

(* The server closes a connection that waits, or cuts one that is served,   *)
(* only for a cause: a waiting one is dropped only by a shutdown of the     *)
(* listener, and a served one is closed only when its own worker has left   *)
(* its loop.  The failure of one worker (worker/tcp.rs 72-80) never closes  *)
(* the connections of another.                                              *)
LossHasCause ==
    \A c \in Conns :
        /\ conn[c] = "dropped" => ShutSignal
        /\ conn[c] \in {"closed", "cut"} => by[c] \in Workers /\ ConnSignal(by[c])

(* another connection from c's address went through c's worker *)
AddrReused(c) ==
    \E d \in Conns \ {c} :
        ClientAddr(d) = ClientAddr(c) /\ by[d] = by[c] /\ conn[d] \notin Waiting

(* The map of a worker that has not stopped holds the handle of each of its *)
(* live connections, so that stop() can abort them (worker/tcp.rs 141-147), *)
(* unless another connection from the same address went through the worker: *)
(* then insert() replaces, or remove() takes away, a handle that is not     *)
(* the caller's own.                                                        *)
LiveIsTracked ==
    \A c \in Conns : conn[c] \in Live =>
        LET w == by[c] IN
            \/ ConnSignal(w)
            \/ hand[w] = c
            \/ c \in handles[w]
            \/ AddrReused(c)

(* Back-pressure: at most one connection more than the queue holds is        *)
(* between accept() and a worker (listener/tcp.rs 284-287 and 316-319): when  *)
(* the workers fall behind, the others wait in the kernel's backlog.         *)
Backpressure ==
    Cardinality({c \in Conns : conn[c] \in {"pending", "queued"}}) <= Capacity + 1

(* A stop() that is awaited returns (listener/tcp.rs 196-209): nothing the *)
(* clients do, or fail to do, holds it up.                                 *)
StopCompletes == owner = "stopping" ~> owner \in {"stopped", "dropped"}

(* out of order: failed, never started, or waiting for the first byte of a   *)
(* peer that stays silent (worker/tcp.rs 77-80, which has no timeout)        *)
OutOfOrder(w) ==
    \/ worker[w] \in {"none", "failed"}
    \/ worker[w] = "peek" /\ peer[hand[w]] = "silent"

(* An accepted connection reaches a worker or is dropped by a shutdown,      *)
(* unless from some point on all workers are out of order for good: no peer  *)
(* holds up the connections of others while one worker is left that works    *)
(* (listener/tcp.rs 298-322, worker/tcp.rs 67-132).                          *)
AcceptedIsTaken ==
    ([]<>(\E w \in Workers : ~OutOfOrder(w))) =>
        \A c \in Conns :
            conn[c] \in {"pending", "queued"} ~> conn[c] \notin {"pending", "queued"}

(* Once a worker has stopped or failed, the tasks it spawned end: served     *)
(* ones by its signal, handshakes by an abort, or (no abort follows a        *)
(* failure) when the peer leaves or the handshake is over.                   *)
OrphansEnd ==
    \A c \in Conns :
        conn[c] \in Live /\ ConnSignal(by[c]) ~>
            \/ conn[c] \notin Live
            \/ conn[c] = "tls" /\ c \notin aborted /\ peer[c] # "gone"
                /\ (worker[by[c]] = "failed" \/ AddrReused(c))

(* "This method shuts down all listeners and waits for ongoing requests to   *)
(* complete before returning" (rt.rs 346-347).  Requests are cut because a   *)
(* worker failed or the listener was dropped; the promise is that stop()     *)
(* cuts none.                                                                *)
NoRequestCutByStop ==
    \A c \in Conns : conn[c] = "cut" => worker[by[c]] = "failed" \/ owner = "dropped"

-----------------------------------------------------------------------------
(* The inductive invariant that the proofs of TcpListenerProofs rest on.   *)

OwnerInv ==
    /\ owner \in {"created", "reserved"} => task = "none"
    /\ owner \in {"listening", "stopping"} => task # "none"
    /\ WorkerSignal => ShutSignal
    /\ owner = "stopped" => task \in {"none", "done"}

WorkersInv ==
    /\ task \in {"none", "spawned"} => \A w \in Workers : worker[w] = "none"
    /\ task = "done" => Joined
    /\ \A w \in Workers : worker[w] \in {"closing", "ended"} => WorkerSignal

(* a worker holds a connection exactly while it peeks at it or has not yet *)
(* stored its handle, and that connection is its own                       *)
HandInv ==
    \A w \in Workers :
        /\ hand[w] \in Conns <=> worker[w] \in {"peek", "insert"}
        /\ hand[w] \in Conns => by[hand[w]] = w
        /\ worker[w] = "peek" => conn[hand[w]] = "peeked"
        /\ worker[w] = "insert" => conn[hand[w]] \in Live \cup Over

(* the queue holds the queued connections, each once *)
QueueInv ==
    /\ \A i \in 1..Len(queue) : conn[queue[i]] = "queued"
    /\ \A i, j \in 1..Len(queue) : queue[i] = queue[j] => i = j
    /\ Len(queue) <= Capacity

QueuedInv == \A c \in Conns : conn[c] = "queued" => \E i \in 1..Len(queue) : queue[i] = c

(* who answers for a connection, state by state *)
ConnInv ==
    \A c \in Conns :
        /\ conn[c] \in {"absent", "backlog", "pending", "queued"} => by[c] = None
        /\ conn[c] = "backlog" => SocketOpen
        /\ conn[c] = "pending" => task = "sending" /\ \A d \in Conns : conn[d] = "pending" => d = c
        /\ conn[c] = "queued"  => task \in Running \cup {"draining"}
        /\ conn[c] = "peeked"  => by[c] \in Workers /\ worker[by[c]] = "peek" /\ hand[by[c]] = c
        /\ conn[c] \in Live \cup Over => by[c] \in Workers
        /\ c \in aborted => by[c] \in Workers /\ ConnSignal(by[c]) /\ conn[c] \in Live \cup Over
        /\ \A w \in Workers : c \in handles[w] => by[c] = w /\ conn[c] \in Live \cup Over

IndInv ==
    /\ TypeOK
    /\ OwnerInv
    /\ WorkersInv
    /\ HandInv
    /\ QueueInv
    /\ QueuedInv
    /\ ConnInv
    /\ LossHasCause
    /\ LiveIsTracked

-----------------------------------------------------------------------------
(* The listener implements the contract.                                   *)

phaseBar ==
    IF owner \in {"created", "reserved"} THEN "idle"
    ELSE IF task \in {"none", "done"} THEN "closed"
    ELSE IF owner = "listening" THEN "open"
    ELSE "closing"

Contract == INSTANCE ListenerContract WITH
    MayCollapse <- FALSE,
    phase <- phaseBar,
    begun <- {c \in Conns : conn[c] \in Live \cup Over},
    over  <- {c \in Conns : conn[c] \in Over}

(* Connections begin only while the listener runs, once each, and end once;  *)
(* a listener that nobody stops never closes; a requested shutdown completes *)
(* (listener/tcp.rs 154-209 and 283-348).                                    *)
ImplementsContract == Contract!Spec

=============================================================================
