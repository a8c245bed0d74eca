---------------------------- MODULE UdpListener ----------------------------
(***************************************************************************)
(* The UDP (HTTP/3) listener of VeTiS: its owner, the task of the          *)
(* ConnectionDispatcher (listener/udp.rs), its workers and the tasks of    *)
(* the QUIC connections (worker/udp.rs).                                   *)
(*                                                                         *)
(* It differs from TcpListener where the code does: the dispatcher itself  *)
(* completes each handshake and RETURNS when one fails, which drops the    *)
(* endpoint, aborts the workers and closes their connections; a worker     *)
(* looks at nothing before it spawns a task, so it never fails; and the    *)
(* whole task of a connection listens to the signal of its worker.         *)
(***************************************************************************)
EXTENDS Naturals, Sequences, FiniteSets

CONSTANTS
    Conns,              \* the connections that clients may open
    Workers,            \* the workers of the listener (ListenerConfig::workers)
    RemoteAddr(_),      \* the remote address of a QUIC connection
    None                \* "no connection", "no worker"

ASSUME UdpAssumption ==
    /\ IsFiniteSet(Workers)
    /\ Workers # {}
    /\ None \notin Conns \cup Workers

VARIABLES
    owner,      \* where the owner of the UdpListener value stands
    task,       \* the program counter of the dispatcher's task
    queue,      \* the bounded channel from the dispatcher to the workers
    worker,     \* the program counter of each worker
    hand,       \* the connection whose task a worker spawned last
    handles,    \* UdpWorker::connections, as the connections it has handles of
    conn,       \* where each connection stands
    by,         \* the worker that took it from the queue
    aborted     \* the connections whose task was aborted

workerVars == <<worker, hand, handles>>
connVars   == <<conn, by, aborted>>
vars       == <<owner, task, queue, workerVars, connVars>>

-----------------------------------------------------------------------------

Capacity == Cardinality(Workers)

OwnerStates  == {"created", "reserved", "listening", "stopping", "stopped", "dropped"}
TaskStates   == {"none", "spawned", "accepting", "shaking", "sending",
                 "draining", "done", "collapsed"}
WorkerStates == {"none", "spawned", "recv", "insert", "closing", "ended"}

Waiting == {"incoming", "shaking", "pending", "queued"}
Live    == {"idle", "busy"}
Over    == {"served", "closed", "cut", "panicked"}
(* dropped by a shutdown or a collapse, refused by a failed handshake, or *)
(* gone with a socket that was reserved and never listened                *)
Lost    == {"dropped", "refused", "unheard"}
ConnStates == {"absent"} \cup Waiting \cup Live \cup Over \cup Lost

Running == {"accepting", "shaking", "sending"}

ShutSignal == owner \in {"stopping", "stopped", "dropped"}
(* sent by the dispatcher's stop(), or gone with the dispatcher *)
WorkerSignal == task \in {"draining", "done", "collapsed"}
ConnSignal(w) == worker[w] \in {"closing", "ended"}

(* MUTANT: no join_next() loop *)
Joined_Unawaited == TRUE

Joined == \A w \in Workers : worker[w] \in {"none", "ended"}

(* Somebody has the endpoint, or the reserved socket, so that what arrives   *)
(* there waits to be accepted.  The socket itself lasts longer: a dropped    *)
(* endpoint leaves it to its driver until the last connection has drained    *)
(* (VetisServer, "lingering"), but nobody hears a client that comes then.    *)
EndpointOpen == owner = "reserved" \/ task \in {"spawned", "draining"} \cup Running

Dropping(S) == [c \in Conns |-> IF conn[c] \in S THEN "dropped" ELSE conn[c]]

Init ==
    /\ owner = "created"
    /\ task = "none"
    /\ queue = <<>>
    /\ worker = [w \in Workers |-> "none"]
    /\ hand = [w \in Workers |-> None]
    /\ handles = [w \in Workers |-> {}]
    /\ conn = [c \in Conns |-> "absent"]
    /\ by = [c \in Conns |-> None]
    /\ aborted = {}

-----------------------------------------------------------------------------
(* The owner.                                                              *)

ReservePort ==
    /\ owner = "created"
    /\ owner' = "reserved"
    /\ UNCHANGED <<task, queue, workerVars, connVars>>

Listen ==
    /\ owner \in {"created", "reserved"}
    /\ owner' = "listening"
    /\ task' = "spawned"
    /\ UNCHANGED <<queue, workerVars, connVars>>

(* the TLS configuration is built after the reserved socket was taken: an *)
(* error returns, and the socket is gone                                  *)
ListenFails ==
    /\ owner = "reserved"
    /\ owner' = "created"
    /\ conn' = [c \in Conns |-> IF conn[c] = "incoming" THEN "unheard" ELSE conn[c]]
    /\ UNCHANGED <<task, queue, workerVars, by, aborted>>

StopUnused ==
    /\ owner \in {"created", "reserved"}
    /\ owner' = "stopped"
    /\ conn' = Dropping({"incoming"})
    /\ UNCHANGED <<task, queue, workerVars, by, aborted>>

Stop ==
    /\ owner = "listening"
    /\ owner' = "stopping"
    /\ UNCHANGED <<task, queue, workerVars, connVars>>

(* MUTANT: stop() waits for the end of the dispatcher's own stop() *)
StopReturns_WhenDone ==
    /\ owner = "stopping"
    /\ task = "done"
    /\ owner' = "stopped"
    /\ UNCHANGED <<task, queue, workerVars, connVars>>

(* handle.await: at once when the dispatcher has collapsed, whose error is *)
(* inside the Ok of the JoinHandle and is not looked at                    *)
StopReturns ==
    /\ owner = "stopping"
    /\ task \in {"done", "collapsed"}
    /\ owner' = "stopped"
    /\ UNCHANGED <<task, queue, workerVars, connVars>>

Drop ==
    /\ owner \notin {"stopped", "dropped"}
    /\ owner' = "dropped"
    /\ conn' = IF task = "none" THEN Dropping({"incoming"}) ELSE conn
    /\ UNCHANGED <<task, queue, workerVars, by, aborted>>

-----------------------------------------------------------------------------
(* The dispatcher.                                                         *)

DispatcherRun ==
    /\ task = "spawned"
    /\ task' = "accepting"
    /\ worker' = [w \in Workers |-> "spawned"]
    /\ UNCHANGED <<owner, queue, hand, handles, connVars>>

(* accept() gives nothing only when the endpoint was closed, which nobody   *)
(* does, or its driver has failed                                           *)
Accept(c) ==
    /\ task = "accepting"
    /\ conn[c] = "incoming"
    /\ task' = "shaking"
    /\ conn' = [conn EXCEPT ![c] = "shaking"]
    /\ UNCHANGED <<owner, queue, workerVars, by, aborted>>

HandshakeDone(c) ==
    /\ task = "shaking"
    /\ conn[c] = "shaking"
    /\ task' = "sending"
    /\ conn' = [conn EXCEPT ![c] = "pending"]
    /\ UNCHANGED <<owner, queue, workerVars, by, aborted>>

(* The error leaves run(), and the dispatcher is dropped: the endpoint with *)
(* all it had not accepted, and the JoinSet, which aborts the workers.      *)
HandshakeFails(c) ==
    /\ task = "shaking"
    /\ conn[c] = "shaking"
    /\ task' = "collapsed"
    /\ conn' = [Dropping({"incoming"}) EXCEPT ![c] = "refused"]
    /\ UNCHANGED <<owner, queue, workerVars, by, aborted>>

(* MUTANT: an unbounded channel *)
Room_Unbounded == TRUE

Room == Len(queue) < Capacity

Send(c) ==
    /\ task = "sending"
    /\ conn[c] = "pending"
    /\ Room
    /\ task' = "accepting"
    /\ queue' = Append(queue, c)
    /\ conn' = [conn EXCEPT ![c] = "queued"]
    /\ UNCHANGED <<owner, workerVars, by, aborted>>

ShutDispatcher ==
    /\ task \in {"spawned"} \cup Running
    /\ ShutSignal
    /\ task' = "draining"
    /\ conn' = Dropping({"shaking", "pending"})
    /\ UNCHANGED <<owner, queue, workerVars, by, aborted>>

Drained ==
    /\ task = "draining"
    /\ Joined
    /\ task' = "done"
    /\ queue' = <<>>
    /\ conn' = Dropping({"incoming", "queued"})
    /\ UNCHANGED <<owner, workerVars, by, aborted>>

-----------------------------------------------------------------------------
(* A worker.                                                               *)

WorkerRun(w) ==
    /\ worker[w] = "spawned"
    /\ worker' = [worker EXCEPT ![w] = "recv"]
    /\ UNCHANGED <<owner, task, queue, hand, handles, connVars>>

(* the task is spawned and runs from here on; its handle is not yet stored *)
WorkerRecv(w) ==
    /\ worker[w] = "recv"
    /\ queue # <<>>
    /\ queue' = Tail(queue)
    /\ worker' = [worker EXCEPT ![w] = "insert"]
    /\ hand' = [hand EXCEPT ![w] = Head(queue)]
    /\ conn' = [conn EXCEPT ![Head(queue)] = "idle"]
    /\ by' = [by EXCEPT ![Head(queue)] = w]
    /\ UNCHANGED <<owner, task, handles, aborted>>

(* the map has one entry per address, and QUIC connections may share one *)
WithoutAddr(H, c) == {h \in H : RemoteAddr(h) # RemoteAddr(c)}

WorkerInsert(w) ==
    /\ worker[w] = "insert"
    /\ worker' = [worker EXCEPT ![w] = "recv"]
    /\ handles' = [handles EXCEPT ![w] = WithoutAddr(@, hand[w]) \cup {hand[w]}]
    /\ hand' = [hand EXCEPT ![w] = None]
    /\ UNCHANGED <<owner, task, queue, connVars>>

WorkerShut(w) ==
    /\ worker[w] \in {"spawned", "recv"}
    /\ WorkerSignal
    /\ worker' = [worker EXCEPT ![w] = "closing"]
    /\ UNCHANGED <<owner, task, queue, hand, handles, connVars>>

(* MUTANT: somebody else holds the receiving end of the channel too *)
LastReceiver_Never(w) == FALSE

(* w is the last to hold the channel of a collapsed dispatcher: what is *)
(* queued goes with it                                                  *)
LastReceiver(w) ==
    task = "collapsed" /\ \A v \in Workers \ {w} : worker[v] = "ended"

WorkerGone(w) ==
    /\ worker' = [worker EXCEPT ![w] = "ended"]
    /\ handles' = [handles EXCEPT ![w] = {}]
    /\ queue' = IF LastReceiver(w) THEN <<>> ELSE queue
    /\ conn' = IF LastReceiver(w) THEN Dropping({"queued"}) ELSE conn
    /\ UNCHANGED <<owner, task, hand, by>>

WorkerAbort(w) ==
    /\ worker[w] = "closing"
    /\ aborted' = aborted \cup {c \in handles[w] : conn[c] \in Live}
    /\ WorkerGone(w)

(* dropping the JoinSet aborts the worker between two polls: its signal is *)
(* dropped with it, its handles are detached                               *)
WorkerCancelled(w) ==
    /\ task = "collapsed"
    /\ worker[w] \in {"spawned", "recv"}
    /\ UNCHANGED aborted
    /\ WorkerGone(w)

-----------------------------------------------------------------------------
(* The task of a connection.  Requests are served one after the other.     *)

Moves(c, from, to) ==
    /\ conn[c] = from
    /\ conn' = [conn EXCEPT ![c] = to]
    /\ UNCHANGED <<owner, task, queue, workerVars, by, aborted>>

RequestStart(c) == Moves(c, "idle", "busy")

(* answered, or failed: an error of one request does not end the loop *)
RequestDone(c) == Moves(c, "busy", "idle")

(* the handler is polled in the task: a panic unwinds it, past the line that *)
(* removes its entry                                                         *)
HandlerPanics(c) == Moves(c, "busy", "panicked")

ServeEnd(c) ==
    /\ conn[c] = "idle"
    /\ conn' = [conn EXCEPT ![c] = "served"]
    /\ handles' = [handles EXCEPT ![by[c]] = WithoutAddr(@, c)]
    /\ UNCHANGED <<owner, task, queue, worker, hand, by, aborted>>

(* MUTANT: one watch channel for the tasks of all workers *)
ShutConn_AnyWorker(c) ==
    /\ \E w \in Workers : ConnSignal(w)
    /\ Moves(c, "idle", "closed") \/ Moves(c, "busy", "cut")

(* MUTANT: the signal is looked at between two requests only *)
ShutConn_WhenIdle(c) ==
    /\ by[c] \in Workers
    /\ ConnSignal(by[c])
    /\ Moves(c, "idle", "closed")

ShutConn(c) ==
    /\ by[c] \in Workers
    /\ ConnSignal(by[c])
    /\ Moves(c, "idle", "closed") \/ Moves(c, "busy", "cut")

CancelConn(c) ==
    /\ c \in aborted
    /\ Moves(c, "idle", "closed") \/ Moves(c, "busy", "cut")

Connect(c) ==
    /\ conn[c] = "absent"
    /\ EndpointOpen
    /\ conn' = [conn EXCEPT ![c] = "incoming"]
    /\ UNCHANGED <<owner, task, queue, workerVars, by, aborted>>

-----------------------------------------------------------------------------

OwnerNext == ReservePort \/ Listen \/ ListenFails \/ StopUnused \/ Stop \/ StopReturns \/ Drop

Dispatch ==
    \/ DispatcherRun
    \/ Drained
    \/ \E c \in Conns : Accept(c) \/ HandshakeDone(c) \/ HandshakeFails(c) \/ Send(c)

WorkerNext(w) ==
    \/ WorkerRun(w)
    \/ WorkerRecv(w)
    \/ WorkerInsert(w)
    \/ WorkerShut(w)
    \/ WorkerAbort(w)
    \/ WorkerCancelled(w)

ConnNext(c) ==
    \/ RequestStart(c)
    \/ RequestDone(c)
    \/ HandlerPanics(c)
    \/ ServeEnd(c)
    \/ ShutConn(c)
    \/ CancelConn(c)

Next ==
    \/ OwnerNext
    \/ Dispatch
    \/ ShutDispatcher
    \/ \E w \in Workers : WorkerNext(w)
    \/ \E c \in Conns : ConnNext(c) \/ Connect(c)

(* The tasks of the server are fair; a handshake ends one way or the other, *)
(* by the idle timeout of the QUIC connection at the latest.  Nothing       *)
(* forces the owner to stop, a client to connect, or a request to be made   *)
(* or answered.                                                             *)
Fairness ==
    /\ WF_vars(StopReturns)
    /\ WF_vars(Dispatch)
    /\ WF_vars(ShutDispatcher)
    /\ \A w \in Workers : WF_vars(WorkerNext(w))
    /\ \A c \in Conns : WF_vars(ShutConn(c) \/ CancelConn(c))

Spec == Init /\ [][Next]_vars

FairSpec == Spec /\ Fairness

-----------------------------------------------------------------------------
(* Properties.                                                             *)

(* Every variable stays within its type. *)
TypeOK ==
    /\ owner \in OwnerStates
    /\ task \in TaskStates
    /\ queue \in Seq(Conns)
    /\ Len(queue) <= Capacity
    /\ worker \in [Workers -> WorkerStates]
    /\ hand \in [Workers -> Conns \cup {None}]
    /\ handles \in [Workers -> SUBSET Conns]
    /\ conn \in [Conns -> ConnStates]
    /\ by \in [Conns -> Workers \cup {None}]
    /\ aborted \in SUBSET Conns

(* When stop() has returned (listener/udp.rs 210-223) nothing can give a     *)
(* connection a task and no connection waits, unless the dispatcher had      *)
(* collapsed: then the workers were aborted and nobody waits for them.       *)
StopLeavesNoWork ==
    owner = "stopped" =>
        /\ task \in {"none", "done", "collapsed"}
        /\ task # "collapsed" => Joined
        /\ Joined => \A c \in Conns : conn[c] \notin Waiting

SomeRefused == \E d \in Conns : conn[d] = "refused"

(* The server loses a connection only for a cause: a shutdown, or the        *)
(* failure of somebody's handshake (listener/udp.rs 311-313), and a served   *)
(* one only after its own worker is over.                                    *)
LossHasCause ==
    \A c \in Conns :
        /\ conn[c] = "dropped" => ShutSignal \/ SomeRefused
        /\ conn[c] \in {"closed", "cut"} =>
            /\ by[c] \in Workers /\ ConnSignal(by[c])
            /\ ShutSignal \/ SomeRefused

(* stop() returns, whatever the clients do and wherever the dispatcher is *)
(* (listener/udp.rs 210-223).                                             *)
StopCompletes == owner = "stopping" ~> owner \in {"stopped", "dropped"}

(* A connection that arrives at a listener with a task is taken by a worker, *)
(* refused or dropped: workers do not fail, and none waits for a client      *)
(* (listener/udp.rs 306-322, worker/udp.rs 60-92).                           *)
ArrivalsAreHandled ==
    \A c \in Conns : conn[c] \in Waiting /\ task # "none" ~> conn[c] \notin Waiting

(* When a worker is over, however that came, its connections end: the signal *)
(* reaches those whose handle was replaced by one of the same address, or    *)
(* detached by the abort of the worker (worker/udp.rs 78-87 and 97-113).     *)
TasksEnd ==
    \A c \in Conns : conn[c] \in Live /\ ConnSignal(by[c]) ~> conn[c] \notin Live

(* "Starts the server and runs until interrupted." (rt.rs 274): the listener *)
(* does not end before it is told to.                                        *)
RunsUntilInterrupted == task = "collapsed" => ShutSignal

-----------------------------------------------------------------------------
(* The inductive invariant that the proofs of UdpListenerProofs rest on.   *)

OwnerInv ==
    /\ owner \in {"created", "reserved"} => task = "none"
    /\ owner \in {"listening", "stopping"} => task # "none"
    /\ owner = "stopped" => task \in {"none", "done", "collapsed"}
    /\ task \in {"draining", "done"} => ShutSignal
    /\ task = "collapsed" => SomeRefused

WorkersInv ==
    /\ task \in {"none", "spawned"} => \A w \in Workers : worker[w] = "none"
    /\ task \in Running \cup {"collapsed"} => \A w \in Workers : worker[w] # "none"
    /\ task = "done" => Joined
    /\ \A w \in Workers : worker[w] \in {"closing", "ended"} => WorkerSignal

(* a worker holds a connection exactly while its handle is not yet stored *)
HandInv ==
    \A w \in Workers :
        /\ hand[w] \in Conns <=> worker[w] = "insert"
        /\ hand[w] \in Conns => by[hand[w]] = w /\ conn[hand[w]] \in Live \cup Over

(* the queue holds the queued connections, each once *)
QueueInv ==
    /\ \A i \in 1..Len(queue) : conn[queue[i]] = "queued"
    /\ \A i, j \in 1..Len(queue) : queue[i] = queue[j] => i = j

QueuedInv == \A c \in Conns : conn[c] = "queued" => \E i \in 1..Len(queue) : queue[i] = c

(* who answers for a connection, state by state *)
ConnInv ==
    \A c \in Conns :
        /\ conn[c] \in {"absent"} \cup Waiting => by[c] = None
        /\ conn[c] = "incoming" => EndpointOpen
        /\ conn[c] = "shaking" => task = "shaking"
        /\ conn[c] = "pending" => task = "sending"
        /\ \A d \in Conns : {conn[c], conn[d]} \subseteq {"shaking", "pending"} => c = d
        /\ conn[c] = "queued" =>
             task \in Running \cup {"draining"} \/ (task = "collapsed" /\ ~Joined)
        /\ conn[c] \in Live \cup Over => by[c] \in Workers
        /\ c \in aborted => by[c] \in Workers /\ ConnSignal(by[c]) /\ conn[c] \in Live \cup Over
        /\ \A w \in Workers : c \in handles[w] => by[c] = w /\ conn[c] \in Live \cup Over

IndInv ==
    /\ TypeOK
    /\ OwnerInv
    /\ WorkersInv
    /\ HandInv
    /\ QueueInv
    /\ QueuedInv
    /\ ConnInv
    /\ LossHasCause

-----------------------------------------------------------------------------
(* The listener implements the contract, with a collapse, and its tasks    *)
(* implement the task of a connection.                                     *)

phaseBar ==
    IF owner \in {"created", "reserved"} THEN "idle"
    ELSE IF task \in {"none", "done"} \/ (task = "collapsed" /\ Joined) THEN "closed"
    ELSE IF owner = "listening" THEN "open"
    ELSE "closing"

Contract == INSTANCE ListenerContract WITH
    MayCollapse <- TRUE,
    phase <- phaseBar,
    begun <- {c \in Conns : conn[c] \in Live \cup Over},
    over  <- {c \in Conns : conn[c] \in Over}

(* Connections begin only while a worker is left, once each, and end once;   *)
(* a requested shutdown completes (listener/udp.rs 154-223 and 291-351).     *)
ImplementsContract == Contract!Spec

Task(c) == INSTANCE ConnectionTask WITH
    state <- IF conn[c] \in Live \cup Over THEN conn[c] ELSE "none",
    told  <- by[c] # None /\ ConnSignal(by[c])

(* Seen from the listener, each connection is a ConnectionTask, as seen from *)
(* inside a session is (Http3Session): the signal it is told by is that of   *)
(* its own worker (worker/udp.rs 60-113).  TasksEnd is its fairness.         *)
RunsConnectionTasks ==
    /\ \A c \in Conns : Task(c)!Init
    /\ [][\A c \in Conns : [Task(c)!Next]_(Task(c)!vars)]_vars

=============================================================================
