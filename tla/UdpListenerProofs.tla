------------------------- MODULE UdpListenerProofs -------------------------
(***************************************************************************)
(* Proofs about UdpListener, for every finite set of workers and every set *)
(* of connections and addresses.                                           *)
(***************************************************************************)
EXTENDS UdpListener, FiniteSetTheorems, TLAPS

(* What closing the connections in some states does to each connection. *)
LEMMA DroppingFact ==
    ASSUME NEW S, TypeOK
    PROVE  /\ Dropping(S) \in [Conns -> ConnStates]
           /\ \A c \in Conns : Dropping(S)[c] = IF conn[c] \in S THEN "dropped" ELSE conn[c]
BY DEF Dropping, TypeOK, ConnStates, Waiting, Live, Over, Lost

LEMMA CapacityType ==
    ASSUME UdpAssumption
    PROVE  Capacity \in Nat
BY FS_CardinalityType DEF UdpAssumption, Capacity

LEMMA EmptyQueue ==
    ASSUME UdpAssumption, NEW q, q = <<>>
    PROVE  q \in Seq(Conns) /\ Len(q) <= Capacity
<1>1. q \in Seq(Conns)
  OBVIOUS
<1>2. Len(q) = 0
  OBVIOUS
<1> QED
  BY <1>1, <1>2, CapacityType

-----------------------------------------------------------------------------
(* Frames: what the steps of one actor may do to the state of the others.   *)

(* The owner touches its own state, the task it spawns, and what has arrived *)
(* at a socket that has no task.                                             *)
LEMMA OwnerMoves ==
    ASSUME TypeOK, OwnerInv, OwnerNext
    PROVE  /\ UNCHANGED <<queue, worker, hand, handles, by, aborted>>
           /\ owner' \in OwnerStates
           /\ conn' \in [Conns -> ConnStates]
           /\ \A c \in Conns :
                \/ conn'[c] = conn[c]
                \/ conn[c] = "incoming" /\ conn'[c] = "unheard"
                \/ conn[c] = "incoming" /\ conn'[c] = "dropped" /\ ShutSignal'
           /\ task' = task \/ (task = "none" /\ task' = "spawned" /\ ~ShutSignal)
           /\ ShutSignal => ShutSignal'
           /\ (EndpointOpen /\ ~EndpointOpen') => \A c \in Conns : conn'[c] # "incoming"
<1> USE DEF TypeOK, OwnerStates, workerVars, connVars, ShutSignal, EndpointOpen, OwnerInv
<1>1. CASE ReservePort \/ Listen \/ Stop \/ StopReturns
  BY <1>1 DEF ReservePort, Listen, Stop, StopReturns
<1>2. CASE StopUnused \/ Drop
  BY <1>2, DroppingFact DEF StopUnused, Drop
<1>3. CASE ListenFails
  <2>1. /\ conn' \in [Conns -> ConnStates]
        /\ \A c \in Conns : conn'[c] = IF conn[c] = "incoming" THEN "unheard" ELSE conn[c]
    BY <1>3 DEF ListenFails, ConnStates, Lost
  <2> QED
    BY <1>3, <2>1 DEF ListenFails
<1> QED
  BY <1>1, <1>2, <1>3 DEF OwnerNext

(* A worker that ends takes its handles with it, and the queue of a collapsed *)
(* dispatcher when no other worker is left to hold it.                        *)
LEMMA GoneMoves ==
    ASSUME TypeOK, WorkersInv, NEW w \in Workers, WorkerAbort(w) \/ WorkerCancelled(w)
    PROVE  /\ UNCHANGED <<owner, task, hand, by>>
           /\ worker[w] \in {"closing", "spawned", "recv"}
           /\ WorkerSignal
           /\ worker' = [worker EXCEPT ![w] = "ended"]
           /\ handles' = [handles EXCEPT ![w] = {}]
           /\ aborted \subseteq aborted'
           /\ \A c \in aborted' \ aborted : c \in handles[w] /\ conn[c] \in Live
           /\ \/ ~LastReceiver(w) /\ queue' = queue /\ conn' = conn
              \/ /\ LastReceiver(w) /\ queue' = <<>>
                 /\ conn' \in [Conns -> ConnStates]
                 /\ \A c \in Conns : conn'[c] = IF conn[c] = "queued" THEN "dropped" ELSE conn[c]
<1> USE DEF WorkerGone
<1>1. CASE WorkerAbort(w)
  BY <1>1, DroppingFact DEF WorkerAbort, WorkersInv
<1>2. CASE WorkerCancelled(w)
  BY <1>2, DroppingFact DEF WorkerCancelled, WorkerSignal
<1> QED
  BY <1>1, <1>2

(* The task of a connection moves a live connection only, closes it only for *)
(* a cause, and removes handles from the map of its own worker only.         *)
LEMMA ConnMoves ==
    ASSUME TypeOK, NEW c \in Conns, ConnNext(c)
    PROVE  /\ UNCHANGED <<owner, task, queue, worker, hand, by, aborted>>
           /\ conn[c] \in Live
           /\ conn'[c] \in Live \cup Over
           /\ conn' = [conn EXCEPT ![c] = conn'[c]]
           /\ handles' \in [Workers -> SUBSET Conns]
           /\ \A w \in Workers : handles'[w] \subseteq handles[w]
           /\ conn'[c] \in {"closed", "cut"} =>
                c \in aborted \/ (by[c] \in Workers /\ ConnSignal(by[c]))
<1> USE DEF TypeOK, workerVars, Live, Over
<1>1. CASE ServeEnd(c)
  BY <1>1 DEF ServeEnd, WithoutAddr
<1>2. CASE RequestStart(c) \/ RequestDone(c) \/ HandlerPanics(c)
  BY <1>2 DEF RequestStart, RequestDone, HandlerPanics, Moves
<1>3. CASE ShutConn(c)
  BY <1>3 DEF ShutConn, Moves
<1>4. CASE CancelConn(c)
  BY <1>4 DEF CancelConn, Moves
<1> QED
  BY <1>1, <1>2, <1>3, <1>4 DEF ConnNext

(* What the dispatcher does to the connections, and what it leaves alone. *)
LEMMA DispatchMoves ==
    ASSUME TypeOK, Dispatch \/ ShutDispatcher
    PROVE  /\ UNCHANGED <<owner, hand, handles, by, aborted>>
           /\ DispatcherRun \/ UNCHANGED worker
           /\ task' \in TaskStates
           /\ conn' \in [Conns -> ConnStates]
           /\ \A c \in Conns :
                \/ conn'[c] = conn[c]
                \/ conn[c] \in Waiting /\ conn'[c] \in Waiting \cup Lost
<1> USE DEF TypeOK, workerVars, connVars, TaskStates, Waiting, Lost
<1>1. CASE DispatcherRun \/ Drained \/ ShutDispatcher
  <2>1. CASE DispatcherRun
    BY <2>1 DEF DispatcherRun
  <2>2. CASE Drained \/ ShutDispatcher
    BY <2>2, DroppingFact DEF Drained, ShutDispatcher
  <2> QED
    BY <1>1, <2>1, <2>2
<1>2. ASSUME NEW c \in Conns, Accept(c) \/ HandshakeDone(c) \/ Send(c)
      PROVE  /\ UNCHANGED <<owner, hand, handles, by, aborted, worker>>
             /\ task' \in TaskStates
             /\ conn' \in [Conns -> ConnStates]
             /\ \A d \in Conns :
                  \/ conn'[d] = conn[d]
                  \/ conn[d] \in Waiting /\ conn'[d] \in Waiting \cup Lost
  BY <1>2 DEF Accept, HandshakeDone, Send, ConnStates
<1>3. ASSUME NEW c \in Conns, HandshakeFails(c)
      PROVE  /\ UNCHANGED <<owner, hand, handles, by, aborted, worker>>
             /\ task' \in TaskStates
             /\ conn' \in [Conns -> ConnStates]
             /\ \A d \in Conns :
                  \/ conn'[d] = conn[d]
                  \/ conn[d] \in Waiting /\ conn'[d] \in Waiting \cup Lost
  BY <1>3, DroppingFact DEF HandshakeFails, ConnStates
<1> QED
  BY <1>1, <1>2, <1>3 DEF Dispatch

(* A handshake that fails ends the dispatcher: its connection is refused,    *)
(* and what has not been accepted is dropped.                                *)
LEMMA FailMoves ==
    ASSUME TypeOK, NEW c \in Conns, HandshakeFails(c)
    PROVE  /\ UNCHANGED <<owner, queue, worker, hand, handles, by, aborted>>
           /\ task = "shaking" /\ task' = "collapsed"
           /\ conn[c] = "shaking" /\ conn'[c] = "refused"
           /\ \A d \in Conns \ {c} : conn'[d] = IF conn[d] = "incoming" THEN "dropped" ELSE conn[d]
BY DroppingFact DEF HandshakeFails, workerVars, TypeOK

(* A handshake ends, a connection is accepted or sent: one connection, one   *)
(* step of the dispatcher.                                                   *)
LEMMA PassMoves ==
    ASSUME TypeOK, NEW c \in Conns, Accept(c) \/ HandshakeDone(c) \/ Send(c)
    PROVE  /\ UNCHANGED <<owner, worker, hand, handles, by, aborted>>
           /\ conn' = [conn EXCEPT ![c] = conn'[c]]
           /\ \/ task = "accepting" /\ task' = "shaking" /\ conn[c] = "incoming" /\ conn'[c] = "shaking"
              \/ task = "shaking" /\ task' = "sending" /\ conn[c] = "shaking" /\ conn'[c] = "pending"
              \/ task = "sending" /\ task' = "accepting" /\ conn[c] = "pending" /\ conn'[c] = "queued"
BY DEF Accept, HandshakeDone, Send, workerVars, TypeOK

(* A shutdown begins, or has been carried out. *)
LEMMA ShutMoves ==
    ASSUME TypeOK, OwnerInv, ShutDispatcher \/ Drained
    PROVE  /\ UNCHANGED <<owner, worker, hand, handles, by, aborted>>
           /\ ShutSignal
           /\ \/ /\ task \in {"spawned"} \cup Running /\ task' = "draining"
                 /\ queue' = queue
                 /\ \A c \in Conns : conn'[c] =
                      IF conn[c] \in {"shaking", "pending"} THEN "dropped" ELSE conn[c]
              \/ /\ task = "draining" /\ task' = "done" /\ Joined
                 /\ queue' = <<>>
                 /\ \A c \in Conns : conn'[c] =
                      IF conn[c] \in {"incoming", "queued"} THEN "dropped" ELSE conn[c]
BY DroppingFact DEF ShutDispatcher, Drained, workerVars, OwnerInv

(* A worker takes the first of the queue, which is a queued connection. *)
LEMMA RecvMoves ==
    ASSUME TypeOK, QueueInv, NEW w \in Workers, WorkerRecv(w)
    PROVE  /\ UNCHANGED <<owner, task, handles, aborted>>
           /\ worker[w] = "recv" /\ worker' = [worker EXCEPT ![w] = "insert"]
           /\ Head(queue) \in Conns /\ conn[Head(queue)] = "queued"
           /\ hand' = [hand EXCEPT ![w] = Head(queue)]
           /\ by' = [by EXCEPT ![Head(queue)] = w]
           /\ conn' = [conn EXCEPT ![Head(queue)] = "idle"]
BY DEF WorkerRecv, QueueInv, TypeOK

-----------------------------------------------------------------------------
(* The parts of the inductive invariant, one at a time.                    *)

(* The variables stay within their types: what a worker stores in its map   *)
(* is the connection in its hand, and the queue never overflows.            *)
LEMMA TypeStep ==
    ASSUME UdpAssumption, TypeOK, OwnerInv, WorkersInv, HandInv, QueueInv, [Next]_vars
    PROVE  TypeOK'
<1>0. Capacity \in Nat /\ Capacity' = Capacity
  BY CapacityType DEF Capacity
<1> USE DEF TypeOK
<1>1. CASE OwnerNext
  <2>1. task' \in TaskStates
    BY <1>1, OwnerMoves DEF TaskStates
  <2> QED
    BY <1>0, <1>1, <2>1, OwnerMoves
<1>2. CASE Dispatch \/ ShutDispatcher
  <2>1. worker' \in [Workers -> WorkerStates]
    BY <1>2, DispatchMoves DEF DispatcherRun, WorkerStates
  <2>2. queue' \in Seq(Conns) /\ Len(queue') <= Capacity
    <3>1. CASE \E c \in Conns : Send(c)
      BY <1>0, <3>1 DEF Send, Room
    <3>2. CASE ~\E c \in Conns : Send(c)
      <4>1. queue' = queue \/ queue' = <<>>
        BY <1>2, <3>2 DEF Dispatch, DispatcherRun, Drained, ShutDispatcher, Accept, HandshakeDone,
                          HandshakeFails
      <4>2. CASE queue' = queue
        BY <4>2
      <4>3. CASE queue' = <<>>
        BY <4>3, EmptyQueue
      <4> QED
        BY <4>1, <4>2, <4>3
    <3> QED
      BY <3>1, <3>2
  <2> QED
    BY <1>0, <1>2, <2>1, <2>2, DispatchMoves
<1>3. ASSUME NEW w \in Workers, WorkerNext(w)
      PROVE  TypeOK'
  <2>1. CASE WorkerRun(w) \/ WorkerShut(w)
    BY <1>0, <2>1 DEF WorkerRun, WorkerShut, WorkerStates, connVars
  <2>2. CASE WorkerRecv(w)
    <3>1. queue' \in Seq(Conns) /\ Len(queue') <= Len(queue)
      BY <2>2 DEF WorkerRecv
    <3> QED
      BY <1>0, <2>2, <3>1, RecvMoves DEF WorkerStates, ConnStates, Live
  <2>3. CASE WorkerInsert(w)
    BY <1>0, <2>3 DEF WorkerInsert, WithoutAddr, HandInv, WorkerStates, connVars
  <2>4. CASE WorkerAbort(w) \/ WorkerCancelled(w)
    <3>1. queue' \in Seq(Conns) /\ Len(queue') <= Capacity
      <4>1. CASE queue' = queue
        BY <4>1
      <4>2. CASE queue' = <<>>
        BY <4>2, EmptyQueue
      <4> QED
        BY <2>4, <4>1, <4>2, GoneMoves
    <3>2. aborted' \subseteq Conns
      BY <2>4, GoneMoves
    <3>3. worker' \in [Workers -> WorkerStates]
      BY <2>4, GoneMoves DEF WorkerStates
    <3>4. handles' \in [Workers -> SUBSET Conns]
      BY <2>4, GoneMoves
    <3> QED
      BY <1>0, <2>4, <3>1, <3>2, <3>3, <3>4, GoneMoves
  <2> QED
    BY <1>3, <2>1, <2>2, <2>3, <2>4 DEF WorkerNext
<1>4. ASSUME NEW c \in Conns, ConnNext(c)
      PROVE  TypeOK'
  BY <1>0, <1>4, ConnMoves DEF ConnStates
<1>5. ASSUME NEW c \in Conns, Connect(c)
      PROVE  TypeOK'
  BY <1>0, <1>5 DEF Connect, workerVars, ConnStates, Waiting
<1>6. CASE UNCHANGED vars
  BY <1>0, <1>6 DEF vars, workerVars, connVars
<1> QED
  BY <1>1, <1>2, <1>3, <1>4, <1>5, <1>6 DEF Next

(* Owner and dispatcher agree: it drains only after it was told to, and      *)
(* collapses only when a handshake has failed.                               *)
LEMMA OwnerStep ==
    ASSUME TypeOK, OwnerInv, WorkersInv, QueueInv, [Next]_vars
    PROVE  OwnerInv'
<1> USE DEF TypeOK, OwnerInv, ShutSignal, SomeRefused
<1>1. CASE OwnerNext
  <2>1. \A c \in Conns : conn[c] = "refused" => conn'[c] = "refused"
    BY <1>1, OwnerMoves
  <2> QED
    BY <1>1, <2>1 DEF OwnerNext, ReservePort, Listen, ListenFails, StopUnused, Stop, StopReturns, Drop,
                      OwnerStates
<1>2. CASE DispatcherRun
  BY <1>2 DEF DispatcherRun
<1>3. CASE ShutDispatcher \/ Drained
  BY <1>3, ShutMoves DEF Running
<1>4. ASSUME NEW c \in Conns, Accept(c) \/ HandshakeDone(c) \/ Send(c)
      PROVE  OwnerInv'
  BY <1>4, PassMoves
<1>5. ASSUME NEW c \in Conns, HandshakeFails(c)
      PROVE  OwnerInv'
  BY <1>5, FailMoves
<1>6. ASSUME NEW w \in Workers, WorkerNext(w)
      PROVE  OwnerInv'
  <2>1. UNCHANGED <<owner, task>> /\ \A c \in Conns : conn[c] = "refused" => conn'[c] = "refused"
    <3>1. CASE WorkerRun(w) \/ WorkerInsert(w) \/ WorkerShut(w)
      BY <3>1 DEF WorkerRun, WorkerInsert, WorkerShut, connVars
    <3>2. CASE WorkerRecv(w)
      BY <3>2, RecvMoves
    <3>3. CASE WorkerAbort(w) \/ WorkerCancelled(w)
      BY <3>3, GoneMoves
    <3> QED
      BY <1>6, <3>1, <3>2, <3>3 DEF WorkerNext
  <2> QED
    BY <2>1
<1>7. ASSUME NEW c \in Conns, ConnNext(c)
      PROVE  OwnerInv'
  BY <1>7, ConnMoves DEF Live
<1>8. ASSUME NEW c \in Conns, Connect(c)
      PROVE  OwnerInv'
  BY <1>8 DEF Connect
<1>9. CASE UNCHANGED vars
  BY <1>9 DEF vars, connVars
<1> QED
  BY <1>1, <1>2, <1>3, <1>4, <1>5, <1>6, <1>7, <1>8, <1>9 DEF Next, Dispatch

(* Workers exist from the dispatcher's run() on, end only when it drains or  *)
(* has collapsed, and are all over when it is done.                          *)
LEMMA WorkersStep ==
    ASSUME TypeOK, OwnerInv, WorkersInv, QueueInv, [Next]_vars
    PROVE  WorkersInv'
<1> USE DEF TypeOK, WorkersInv, WorkerSignal, Joined, Running
<1>1. CASE OwnerNext
  BY <1>1, OwnerMoves
<1>2. CASE DispatcherRun
  <2>1. task = "spawned" /\ task' = "accepting" /\ \A w \in Workers : worker'[w] = "spawned"
    BY <1>2 DEF DispatcherRun
  <2> QED
    BY <2>1
<1>3. CASE ShutDispatcher \/ Drained
  BY <1>3, ShutMoves
<1>4. ASSUME NEW c \in Conns, Accept(c) \/ HandshakeDone(c) \/ Send(c)
      PROVE  WorkersInv'
  BY <1>4, PassMoves
<1>5. ASSUME NEW c \in Conns, HandshakeFails(c)
      PROVE  WorkersInv'
  BY <1>5, FailMoves
<1>6. ASSUME NEW w \in Workers, WorkerNext(w)
      PROVE  WorkersInv'
  <2>1. /\ task' = task
        /\ worker[w] \notin {"none", "ended"}
        /\ worker'[w] # "none"
        /\ worker'[w] \in {"closing", "ended"} => WorkerSignal
        /\ \A v \in Workers \ {w} : worker'[v] = worker[v]
    <3>1. CASE WorkerRun(w) \/ WorkerInsert(w) \/ WorkerShut(w)
      BY <3>1 DEF WorkerRun, WorkerInsert, WorkerShut
    <3>2. CASE WorkerRecv(w)
      BY <3>2, RecvMoves
    <3>3. CASE WorkerAbort(w) \/ WorkerCancelled(w)
      BY <3>3, GoneMoves
    <3> QED
      BY <1>6, <3>1, <3>2, <3>3 DEF WorkerNext
  <2> QED
    BY <2>1
<1>7. ASSUME NEW c \in Conns, ConnNext(c)
      PROVE  WorkersInv'
  BY <1>7, ConnMoves
<1>8. ASSUME NEW c \in Conns, Connect(c)
      PROVE  WorkersInv'
  BY <1>8 DEF Connect, workerVars
<1>9. CASE UNCHANGED vars
  BY <1>9 DEF vars, workerVars
<1> QED
  BY <1>1, <1>2, <1>3, <1>4, <1>5, <1>6, <1>7, <1>8, <1>9 DEF Next, Dispatch

(* A worker keeps hold of its own connection until its handle is stored: the *)
(* one it takes is queued, so no other worker has it in hand.                *)
LEMMA HandStep ==
    ASSUME UdpAssumption, TypeOK, OwnerInv, WorkersInv, HandInv, QueueInv, [Next]_vars
    PROVE  HandInv'
<1> USE DEF TypeOK, HandInv, Waiting, Live, Over, Lost
<1>1. CASE OwnerNext
  BY <1>1, OwnerMoves
<1>2. CASE DispatcherRun
  BY <1>2, UdpAssumption DEF DispatcherRun, connVars, WorkersInv
<1>3. CASE (Dispatch \/ ShutDispatcher) /\ UNCHANGED worker
  BY <1>3, DispatchMoves
<1>4. ASSUME NEW w \in Workers, WorkerNext(w)
      PROVE  HandInv'
  <2>1. CASE WorkerRun(w) \/ WorkerShut(w) \/ WorkerInsert(w)
    BY <2>1, UdpAssumption DEF WorkerRun, WorkerShut, WorkerInsert, UdpAssumption, connVars
  <2>2. CASE WorkerRecv(w)
    BY <2>2, RecvMoves
  <2>3. CASE WorkerAbort(w) \/ WorkerCancelled(w)
    BY <2>3, GoneMoves
  <2> QED
    BY <1>4, <2>1, <2>2, <2>3 DEF WorkerNext
<1>5. ASSUME NEW c \in Conns, ConnNext(c)
      PROVE  HandInv'
  BY <1>5, ConnMoves
<1>6. ASSUME NEW c \in Conns, Connect(c)
      PROVE  HandInv'
  BY <1>6 DEF Connect, workerVars
<1>7. CASE UNCHANGED vars
  BY <1>7 DEF vars, workerVars, connVars
<1> QED
  BY <1>1, <1>2, <1>3, <1>4, <1>5, <1>6, <1>7, DispatchMoves DEF Next

(* The queue holds queued connections, each once: the dispatcher sends a     *)
(* pending one, and a worker takes the first.                                *)
LEMMA QueueStep ==
    ASSUME UdpAssumption, TypeOK, OwnerInv, WorkersInv, HandInv, QueueInv, [Next]_vars
    PROVE  QueueInv'
<1> USE DEF TypeOK, QueueInv
<1>1. ASSUME queue' = queue, \A c \in Conns : conn[c] = "queued" => conn'[c] = "queued"
      PROVE  QueueInv'
  <2>1. \A i \in 1..Len(queue) : queue[i] \in Conns
    OBVIOUS
  <2> QED
    BY <1>1, <2>1
<1>2. ASSUME queue' = <<>>
      PROVE  QueueInv'
  <2>1. 1..Len(queue') = {}
    BY <1>2
  <2> QED
    BY <2>1
<1>3. CASE OwnerNext
  BY <1>1, <1>3, OwnerMoves
<1>4. CASE DispatcherRun
  BY <1>1, <1>4 DEF DispatcherRun, connVars
<1>5. CASE ShutDispatcher \/ Drained
  BY <1>1, <1>2, <1>5, ShutMoves
<1>6. ASSUME NEW c \in Conns, Accept(c) \/ HandshakeDone(c)
      PROVE  QueueInv'
  BY <1>1, <1>6 DEF Accept, HandshakeDone
<1>7. ASSUME NEW c \in Conns, Send(c)
      PROVE  QueueInv'
  <2>1. /\ Len(queue) \in Nat
        /\ Len(queue') = Len(queue) + 1
        /\ \A i \in 1..Len(queue) : queue'[i] = queue[i]
        /\ queue'[Len(queue) + 1] = c
    BY <1>7 DEF Send
  <2>2. /\ conn[c] = "pending" /\ conn'[c] = "queued"
        /\ \A d \in Conns \ {c} : conn'[d] = conn[d]
    BY <1>7 DEF Send
  <2>3. \A i \in 1..Len(queue) : queue[i] \in Conns \ {c}
    BY <2>2
  <2>4. \A i \in 1..Len(queue') : i \in 1..Len(queue) \/ i = Len(queue) + 1
    BY <2>1
  <2>5. \A i \in 1..Len(queue') : conn'[queue'[i]] = "queued"
    BY <2>1, <2>2, <2>3, <2>4
  <2>6. \A i, j \in 1..Len(queue') : queue'[i] = queue'[j] => i = j
    BY <2>1, <2>3, <2>4
  <2> QED
    BY <2>5, <2>6
<1>8. ASSUME NEW c \in Conns, HandshakeFails(c)
      PROVE  QueueInv'
  BY <1>1, <1>8, FailMoves
<1>9. ASSUME NEW w \in Workers, WorkerRecv(w)
      PROVE  QueueInv'
  <2>1. queue # <<>> /\ queue' = Tail(queue)
    BY <1>9 DEF WorkerRecv
  <2>2. /\ Len(queue') = Len(queue) - 1
        /\ Len(queue) \in Nat \ {0}
        /\ \A i \in 1..Len(queue') : queue'[i] = queue[i + 1]
        /\ Head(queue) = queue[1]
    BY <2>1
  <2>3. \A i \in 1..Len(queue') :
           i + 1 \in 1..Len(queue) /\ queue'[i] \in Conns /\ queue'[i] # Head(queue)
    <3> TAKE i \in 1..Len(queue')
    <3>1. i + 1 \in 1..Len(queue) /\ 1 \in 1..Len(queue) /\ i + 1 # 1
      BY <2>2
    <3>2. queue[i + 1] \in Conns /\ queue[i + 1] # queue[1]
      BY <3>1
    <3> QED
      BY <2>2, <3>1, <3>2
  <2>4. \A i \in 1..Len(queue') : conn'[queue'[i]] = "queued"
    <3> TAKE i \in 1..Len(queue')
    <3>1. i + 1 \in 1..Len(queue) /\ queue'[i] \in Conns /\ queue'[i] # Head(queue)
      BY <2>3
    <3>2. conn[queue'[i]] = "queued"
      BY <2>2, <3>1
    <3>3. conn'[queue'[i]] = conn[queue'[i]]
      BY <1>9, <3>1, RecvMoves
    <3> QED
      BY <3>2, <3>3
  <2>5. \A i, j \in 1..Len(queue') : queue'[i] = queue'[j] => i = j
    <3> TAKE i, j \in 1..Len(queue')
    <3>1. i + 1 \in 1..Len(queue) /\ j + 1 \in 1..Len(queue)
      BY <2>3
    <3>2. queue[i + 1] = queue[j + 1] => i + 1 = j + 1
      BY <3>1
    <3> QED
      BY <2>2, <3>2
  <2> QED
    BY <2>4, <2>5
<1>10. ASSUME NEW w \in Workers, WorkerRun(w) \/ WorkerInsert(w) \/ WorkerShut(w)
      PROVE  QueueInv'
  BY <1>1, <1>10 DEF WorkerRun, WorkerInsert, WorkerShut, connVars
<1>11. ASSUME NEW w \in Workers, WorkerAbort(w) \/ WorkerCancelled(w)
      PROVE  QueueInv'
  BY <1>1, <1>2, <1>11, GoneMoves
<1>12. ASSUME NEW c \in Conns, ConnNext(c)
      PROVE  QueueInv'
  BY <1>1, <1>12, ConnMoves DEF Live
<1>13. ASSUME NEW c \in Conns, Connect(c)
      PROVE  QueueInv'
  BY <1>1, <1>13 DEF Connect
<1>14. CASE UNCHANGED vars
  BY <1>1, <1>14 DEF vars, connVars
<1> QED
  BY <1>3, <1>4, <1>5, <1>6, <1>7, <1>8, <1>9, <1>10, <1>11, <1>12, <1>13, <1>14
  DEF Next, Dispatch, WorkerNext

(* Every queued connection is in the queue: when the queue goes, with the    *)
(* dispatcher or with the last worker, so do they.                           *)
LEMMA QueuedStep ==
    ASSUME TypeOK, OwnerInv, WorkersInv, HandInv, QueueInv, QueuedInv, [Next]_vars
    PROVE  QueuedInv'
<1> USE DEF TypeOK, QueuedInv
<1>1. ASSUME queue' = queue, \A c \in Conns : conn'[c] = "queued" => conn[c] = "queued"
      PROVE  QueuedInv'
  BY <1>1
<1>2. ASSUME \A c \in Conns : conn'[c] # "queued"
      PROVE  QueuedInv'
  BY <1>2
<1>3. CASE OwnerNext
  BY <1>1, <1>3, OwnerMoves
<1>4. CASE DispatcherRun
  BY <1>1, <1>4 DEF DispatcherRun, connVars
<1>5. CASE ShutDispatcher
  <2>1. queue' = queue /\ \A c \in Conns : conn'[c] = "queued" => conn[c] = "queued"
    BY <1>5, DroppingFact DEF ShutDispatcher
  <2> QED
    BY <1>1, <2>1
<1>6. CASE Drained
  <2>1. \A c \in Conns : conn'[c] # "queued"
    BY <1>6, DroppingFact DEF Drained
  <2> QED
    BY <1>2, <2>1
<1>7. ASSUME NEW c \in Conns, Accept(c) \/ HandshakeDone(c)
      PROVE  QueuedInv'
  BY <1>1, <1>7 DEF Accept, HandshakeDone
<1>8. ASSUME NEW c \in Conns, Send(c)
      PROVE  QueuedInv'
  <2>1. /\ Len(queue) \in Nat
        /\ Len(queue') = Len(queue) + 1
        /\ \A i \in 1..Len(queue) : queue'[i] = queue[i]
        /\ queue'[Len(queue) + 1] = c
        /\ \A d \in Conns \ {c} : conn'[d] = conn[d]
    BY <1>8 DEF Send
  <2>2. Len(queue) + 1 \in 1..Len(queue') /\ 1..Len(queue) \subseteq 1..Len(queue')
    BY <2>1
  <2> QED
    BY <2>1, <2>2
<1>9. ASSUME NEW c \in Conns, HandshakeFails(c)
      PROVE  QueuedInv'
  BY <1>1, <1>9, FailMoves
<1>10. ASSUME NEW w \in Workers, WorkerRecv(w)
      PROVE  QueuedInv'
  <2>1. /\ Len(queue) \in Nat \ {0}
        /\ Len(queue') = Len(queue) - 1
        /\ \A i \in 1..Len(queue') : queue'[i] = queue[i + 1]
        /\ Head(queue) = queue[1]
    BY <1>10 DEF WorkerRecv
  <2>2. SUFFICES ASSUME NEW c \in Conns, conn'[c] = "queued"
                 PROVE  \E i \in 1..Len(queue') : queue'[i] = c
    OBVIOUS
  <2>3. c # queue[1] /\ conn[c] = "queued"
    BY <1>10, <2>1, <2>2, RecvMoves
  <2>4. PICK i \in 1..Len(queue) : queue[i] = c
    BY <2>3
  <2>5. i - 1 \in 1..Len(queue') /\ queue'[i - 1] = c
    BY <2>1, <2>3, <2>4
  <2> QED
    BY <2>5
<1>11. ASSUME NEW w \in Workers, WorkerRun(w) \/ WorkerInsert(w) \/ WorkerShut(w)
      PROVE  QueuedInv'
  BY <1>1, <1>11 DEF WorkerRun, WorkerInsert, WorkerShut, connVars
<1>12. ASSUME NEW w \in Workers, WorkerAbort(w) \/ WorkerCancelled(w)
      PROVE  QueuedInv'
  BY <1>1, <1>2, <1>12, GoneMoves
<1>13. ASSUME NEW c \in Conns, ConnNext(c)
      PROVE  QueuedInv'
  BY <1>1, <1>13, ConnMoves DEF Live, Over
<1>14. ASSUME NEW c \in Conns, Connect(c)
      PROVE  QueuedInv'
  BY <1>1, <1>14 DEF Connect
<1>15. CASE UNCHANGED vars
  BY <1>1, <1>15 DEF vars, connVars
<1> QED
  BY <1>3, <1>4, <1>5, <1>6, <1>7, <1>8, <1>9, <1>10, <1>11, <1>12, <1>13, <1>14, <1>15
  DEF Next, Dispatch, WorkerNext

(* A connection keeps to its state: it waits only where somebody will take   *)
(* or drop it, and from then on belongs to one worker.                       *)
LEMMA ConnStep ==
    ASSUME UdpAssumption, TypeOK, OwnerInv, WorkersInv, HandInv, QueueInv, QueuedInv, ConnInv,
           [Next]_vars
    PROVE  ConnInv'
<1> USE DEF TypeOK, ConnInv, Waiting, Live, Over, Lost, Running
<1>1. CASE OwnerNext
  <2>1. EndpointOpen' \/ \A c \in Conns : conn'[c] # "incoming"
    BY <1>1, OwnerMoves
  <2>2. UNCHANGED <<worker, handles, by, aborted, Joined>>
    BY <1>1, OwnerMoves DEF Joined
  <2>3. \A w \in Workers : ConnSignal(w)' = ConnSignal(w)
    BY <2>2 DEF ConnSignal
  <2> QED
    BY <1>1, <2>1, <2>2, <2>3, OwnerMoves
<1>2. CASE DispatcherRun
  <2>1. /\ task = "spawned" /\ task' = "accepting"
        /\ UNCHANGED <<owner, handles, conn, by, aborted>>
        /\ \A w \in Workers : worker'[w] = "spawned" /\ worker[w] = "none"
    BY <1>2 DEF DispatcherRun, connVars, WorkersInv
  <2>2. \A w \in Workers : ~ConnSignal(w)
    BY <2>1 DEF ConnSignal
  <2> QED
    BY <2>1, <2>2 DEF EndpointOpen
<1>3. CASE ShutDispatcher \/ Drained
  <2>1. UNCHANGED <<owner, worker, handles, by, aborted>>
    BY <1>3, ShutMoves
  <2>2. \A w \in Workers : ConnSignal(w)' = ConnSignal(w)
    BY <2>1 DEF ConnSignal
  <2> QED
    BY <1>3, <2>1, <2>2, ShutMoves DEF EndpointOpen
<1>4. ASSUME NEW c \in Conns, Accept(c) \/ HandshakeDone(c) \/ Send(c)
      PROVE  ConnInv'
  <2>1. UNCHANGED <<owner, worker, handles, by, aborted>>
    BY <1>4, PassMoves
  <2>2. \A w \in Workers : ConnSignal(w)' = ConnSignal(w)
    BY <2>1 DEF ConnSignal
  <2> QED
    <3>1. c \notin aborted /\ \A w \in Workers : c \notin handles[w]
      BY <1>4, PassMoves
    <3>2. \A d \in Conns \ {c} : conn'[d] = conn[d]
      BY <1>4, PassMoves
    <3>3. conn'[c] = "shaking" => task' = "shaking"
      BY <1>4, PassMoves
    <3>4. conn'[c] = "pending" => task' = "sending"
      BY <1>4, PassMoves
    <3>5. /\ conn'[c] \in {"shaking", "pending", "queued"}
          /\ by[c] = None
          /\ task \in Running /\ task' \in Running
      BY <1>4, PassMoves
    <3>6. \A d \in Conns \ {c} : conn[d] \notin {"shaking", "pending"}
      BY <1>4, PassMoves
    <3> QED
      BY <2>1, <2>2, <3>1, <3>2, <3>3, <3>4, <3>5, <3>6 DEF EndpointOpen
<1>5. ASSUME NEW c \in Conns, HandshakeFails(c)
      PROVE  ConnInv'
  <2>1. UNCHANGED <<owner, worker, handles, by, aborted>>
    BY <1>5, FailMoves
  <2>2. ~Joined'
    <3>1. \A w \in Workers : worker[w] \notin {"none", "ended"}
      BY <1>5, FailMoves DEF WorkersInv, WorkerSignal
    <3>2. Workers # {}
      BY UdpAssumption DEF UdpAssumption
    <3> QED
      BY <2>1, <3>1, <3>2 DEF Joined
  <2>3. \A w \in Workers : ConnSignal(w)' = ConnSignal(w)
    BY <2>1 DEF ConnSignal
  <2> QED
    BY <1>5, <2>1, <2>2, <2>3, FailMoves
<1>6. ASSUME NEW w \in Workers, WorkerNext(w)
      PROVE  ConnInv'
  <2>1. CASE WorkerRun(w) \/ WorkerShut(w)
    <3>1. /\ UNCHANGED <<owner, task, handles, conn, by, aborted, EndpointOpen>>
          /\ worker[w] \notin {"none", "ended"} /\ worker'[w] \notin {"none", "ended"}
          /\ \A v \in Workers \ {w} : worker'[v] = worker[v]
      BY <2>1 DEF WorkerRun, WorkerShut, connVars, EndpointOpen
    <3>2. ~Joined' /\ TypeOK
      BY <3>1 DEF Joined
    <3>3. \A v \in Workers : ConnSignal(v) => ConnSignal(v)'
      BY <2>1, <3>1 DEF ConnSignal, WorkerRun, WorkerShut
    <3> QED
      BY <3>1, <3>2, <3>3
  <2>2. CASE WorkerInsert(w)
    <3>1. /\ UNCHANGED <<owner, task, conn, by, aborted, EndpointOpen>>
          /\ worker[w] = "insert" /\ worker'[w] = "recv"
          /\ \A v \in Workers \ {w} : worker'[v] = worker[v] /\ handles'[v] = handles[v]
          /\ \A c \in handles'[w] : c \in handles[w] \/ c = hand[w]
      BY <2>2 DEF WorkerInsert, connVars, EndpointOpen, WithoutAddr
    <3>2. ~Joined' /\ \A v \in Workers : ConnSignal(v) => ConnSignal(v)'
      BY <3>1 DEF Joined, ConnSignal
    <3>3. hand[w] \in Conns /\ by[hand[w]] = w /\ conn[hand[w]] \in Live \cup Over
      BY <3>1 DEF HandInv
    <3> QED
      BY <3>1, <3>2, <3>3
  <2>3. CASE WorkerRecv(w)
    <3> DEFINE h == Head(queue)
    <3>1. /\ UNCHANGED <<owner, task, handles, aborted, EndpointOpen>>
          /\ h \in Conns /\ conn[h] = "queued" /\ by[h] = None
          /\ conn'[h] = "idle" /\ by'[h] = w
          /\ \A c \in Conns \ {h} : conn'[c] = conn[c] /\ by'[c] = by[c]
          /\ worker[w] = "recv" /\ worker'[w] = "insert"
          /\ \A v \in Workers \ {w} : worker'[v] = worker[v]
      BY <2>3, RecvMoves DEF EndpointOpen
    <3>2. ~Joined' /\ \A v \in Workers : ConnSignal(v) => ConnSignal(v)'
      BY <3>1 DEF Joined, ConnSignal
    <3>3. h \notin aborted /\ \A v \in Workers : h \notin handles[v]
      BY <3>1
    <3> HIDE DEF h
    <3> QED
      BY <3>1, <3>2, <3>3
  <2>4. CASE WorkerAbort(w) \/ WorkerCancelled(w)
    <3>1. /\ UNCHANGED <<owner, task, by, EndpointOpen>>
          /\ worker'[w] = "ended"
          /\ \A v \in Workers \ {w} : worker'[v] = worker[v]
          /\ \A v \in Workers : handles'[v] \subseteq handles[v]
      BY <2>4, GoneMoves DEF EndpointOpen
    <3>2. \A v \in Workers : ConnSignal(v) => ConnSignal(v)'
      BY <3>1 DEF ConnSignal
    <3>3. /\ aborted \subseteq aborted'
          /\ \A c \in aborted' \ aborted : c \in handles[w] /\ conn[c] \in Live /\ ConnSignal(w)'
      BY <2>4, <3>1, GoneMoves DEF ConnSignal
    <3>4. \A c \in Conns : conn'[c] = conn[c] \/ (conn[c] = "queued" /\ conn'[c] = "dropped")
      BY <2>4, GoneMoves
    <3>5. ASSUME NEW c \in Conns, conn'[c] = "queued"
          PROVE  task' \in Running \cup {"draining"} \/ (task' = "collapsed" /\ ~Joined')
      <4>1. conn[c] = "queued" /\ ~LastReceiver(w)
        BY <2>4, <3>5, GoneMoves
      <4>2. CASE task = "collapsed"
        <5>1. PICK v \in Workers \ {w} : worker[v] # "ended"
          BY <4>1, <4>2 DEF LastReceiver
        <5>2. worker'[v] \notin {"none", "ended"}
          BY <3>1, <4>2, <5>1 DEF WorkersInv
        <5> QED
          BY <3>1, <4>2, <5>2 DEF Joined
      <4> QED
        BY <3>1, <4>1, <4>2
    <3>6. \A c \in aborted' : c \in Conns
      BY <3>3
    <3> QED
      BY <3>1, <3>2, <3>3, <3>4, <3>5, <3>6
  <2> QED
    BY <1>6, <2>1, <2>2, <2>3, <2>4 DEF WorkerNext
<1>7. ASSUME NEW c \in Conns, ConnNext(c)
      PROVE  ConnInv'
  <2>1. UNCHANGED <<owner, task, worker, by, aborted, Joined, EndpointOpen>>
    BY <1>7, ConnMoves DEF Joined, EndpointOpen
  <2>2. \A w \in Workers : ConnSignal(w)' = ConnSignal(w)
    BY <2>1 DEF ConnSignal
  <2> QED
    BY <1>7, <2>1, <2>2, ConnMoves
<1>8. ASSUME NEW c \in Conns, Connect(c)
      PROVE  ConnInv'
  <2>1. UNCHANGED <<owner, task, worker, handles, by, aborted>>
    BY <1>8 DEF Connect, workerVars
  <2>2. EndpointOpen' /\ \A w \in Workers : ConnSignal(w)' = ConnSignal(w)
    BY <1>8, <2>1 DEF Connect, EndpointOpen, ConnSignal
  <2> QED
    BY <1>8, <2>1, <2>2 DEF Connect, Joined
<1>9. CASE UNCHANGED vars
  BY <1>9 DEF vars, workerVars, connVars, EndpointOpen, Joined, ConnSignal
<1> QED
  BY <1>1, <1>2, <1>3, <1>4, <1>5, <1>6, <1>7, <1>8, <1>9 DEF Next, Dispatch

(* A shutdown, a refusal and the end of a worker are for good. *)
LEMMA CausesStay ==
    ASSUME TypeOK, OwnerInv, WorkersInv, QueueInv, [Next]_vars
    PROVE  /\ ShutSignal => ShutSignal'
           /\ SomeRefused => SomeRefused'
           /\ \A w \in Workers : ConnSignal(w) => ConnSignal(w)'
<1> USE DEF TypeOK, ShutSignal, SomeRefused, ConnSignal
<1>1. CASE OwnerNext
  BY <1>1, OwnerMoves
<1>2. CASE DispatcherRun
  BY <1>2 DEF DispatcherRun, connVars, WorkersInv
<1>3. CASE ShutDispatcher \/ Drained
  BY <1>3, ShutMoves
<1>4. ASSUME NEW c \in Conns, Accept(c) \/ HandshakeDone(c) \/ Send(c) \/ HandshakeFails(c)
      PROVE  /\ UNCHANGED <<owner, worker>>
             /\ SomeRefused => SomeRefused'
  BY <1>4, PassMoves, FailMoves
<1>5. ASSUME NEW w \in Workers, WorkerNext(w)
      PROVE  /\ owner' = owner
             /\ SomeRefused => SomeRefused'
             /\ \A v \in Workers : ConnSignal(v) => ConnSignal(v)'
  <2>1. CASE WorkerRun(w) \/ WorkerInsert(w) \/ WorkerShut(w)
    BY <2>1 DEF WorkerRun, WorkerInsert, WorkerShut, connVars
  <2>2. CASE WorkerRecv(w)
    BY <2>2, RecvMoves
  <2>3. CASE WorkerAbort(w) \/ WorkerCancelled(w)
    BY <2>3, GoneMoves
  <2> QED
    BY <1>5, <2>1, <2>2, <2>3 DEF WorkerNext
<1>6. ASSUME NEW c \in Conns, ConnNext(c) \/ Connect(c)
      PROVE  /\ UNCHANGED <<owner, worker>>
             /\ SomeRefused => SomeRefused'
  BY <1>6, ConnMoves DEF Connect, workerVars, Live
<1>7. CASE UNCHANGED vars
  BY <1>7 DEF vars, workerVars, connVars
<1> QED
  BY <1>1, <1>2, <1>3, <1>4, <1>5, <1>6, <1>7 DEF Next, Dispatch

(* A connection is lost by a step that has a cause: the drop of a socket, of *)
(* a dispatcher or of a queue, or the end of its own worker.                 *)
LEMMA LossStep ==
    ASSUME TypeOK, OwnerInv, WorkersInv, HandInv, QueueInv, ConnInv, LossHasCause, [Next]_vars,
           OwnerInv', WorkersInv'
    PROVE  LossHasCause'
<1> DEFINE Cause == ShutSignal \/ SomeRefused
<1> USE DEF ConnSignal
<1>1. /\ Cause => Cause'
      /\ \A w \in Workers : ConnSignal(w) => ConnSignal(w)'
      /\ \A w \in Workers : ConnSignal(w)' => Cause'
      /\ WorkerSignal => Cause
  BY CausesStay DEF WorkersInv, OwnerInv, WorkerSignal
<1>2. SUFFICES ASSUME NEW c \in Conns
               PROVE  /\ conn'[c] = "dropped" => conn[c] = "dropped" \/ Cause'
                      /\ conn'[c] \in {"closed", "cut"} =>
                           by'[c] \in Workers /\ worker'[by'[c]] \in {"closing", "ended"}
  BY <1>1, <1>2 DEF LossHasCause
<1>3. conn[c] \in {"closed", "cut"} => by[c] \in Workers /\ worker'[by[c]] \in {"closing", "ended"}
  BY <1>1 DEF LossHasCause
<1> HIDE DEF Cause
<1> USE DEF TypeOK
<1>4. CASE OwnerNext
  BY <1>3, <1>4, OwnerMoves DEF Cause
<1>5. CASE Dispatch \/ ShutDispatcher
  <2>1. conn'[c] = "dropped" => conn[c] = "dropped" \/ Cause'
    <3>1. CASE ShutDispatcher \/ Drained
      BY <3>1, <1>1, ShutMoves DEF Cause
    <3>2. CASE DispatcherRun
      BY <3>2 DEF DispatcherRun, connVars
    <3>3. ASSUME NEW d \in Conns, Accept(d) \/ HandshakeDone(d) \/ Send(d)
          PROVE  conn'[c] = "dropped" => conn[c] = "dropped"
      BY <3>3, PassMoves
    <3>4. ASSUME NEW d \in Conns, HandshakeFails(d)
          PROVE  Cause'
      BY <3>4, FailMoves DEF Cause, SomeRefused
    <3> QED
      BY <1>5, <3>1, <3>2, <3>3, <3>4 DEF Dispatch
  <2> QED
    BY <1>3, <1>5, <2>1, DispatchMoves DEF Waiting, Lost
<1>6. ASSUME NEW w \in Workers, WorkerNext(w)
      PROVE  /\ conn'[c] = "dropped" => conn[c] = "dropped" \/ Cause'
             /\ conn'[c] \in {"closed", "cut"} => by'[c] \in Workers /\ worker'[by'[c]] \in {"closing", "ended"}
  <2>1. CASE WorkerRun(w) \/ WorkerInsert(w) \/ WorkerShut(w)
    BY <1>3, <2>1 DEF WorkerRun, WorkerInsert, WorkerShut, connVars
  <2>2. CASE WorkerRecv(w)
    BY <1>3, <2>2, RecvMoves
  <2>3. CASE WorkerAbort(w) \/ WorkerCancelled(w)
    BY <1>1, <1>3, <2>3, GoneMoves
  <2> QED
    BY <1>6, <2>1, <2>2, <2>3 DEF WorkerNext
<1>7. ASSUME NEW d \in Conns, ConnNext(d)
      PROVE  /\ conn'[c] = "dropped" => conn[c] = "dropped"
             /\ conn'[c] \in {"closed", "cut"} => by'[c] \in Workers /\ worker'[by'[c]] \in {"closing", "ended"}
  <2>1. by' = by /\ (c # d => conn'[c] = conn[c]) /\ conn'[d] # "dropped"
    BY <1>7, ConnMoves DEF Live, Over
  <2>2. conn'[d] \in {"closed", "cut"} => by[d] \in Workers /\ worker[by[d]] \in {"closing", "ended"}
    BY <1>7, ConnMoves DEF ConnInv
  <2> QED
    BY <1>1, <1>3, <2>1, <2>2
<1>8. ASSUME NEW d \in Conns, Connect(d)
      PROVE  /\ conn'[c] = "dropped" => conn[c] = "dropped"
             /\ conn'[c] \in {"closed", "cut"} => by'[c] \in Workers /\ worker'[by'[c]] \in {"closing", "ended"}
  BY <1>3, <1>8 DEF Connect
<1>9. CASE UNCHANGED vars
  BY <1>3, <1>9 DEF vars, connVars
<1> QED
  BY <1>4, <1>5, <1>6, <1>7, <1>8, <1>9 DEF Next

-----------------------------------------------------------------------------
(* The theorems.                                                           *)

(* The inductive invariant: types, and who answers for which connection, in  *)
(* every reachable state of the listener (listener/udp.rs 154-351,           *)
(* worker/udp.rs 55-113).                                                    *)
THEOREM InductiveInvariant == Spec => []IndInv
<1>1. Init => IndInv
  <2> SUFFICES ASSUME Init PROVE IndInv
    OBVIOUS
  <2> USE DEF Init
  <2>1. TypeOK
    <3>1. queue \in Seq(Conns) /\ Len(queue) <= Capacity
      BY EmptyQueue, UdpAssumption
    <3> QED
      BY <3>1 DEF TypeOK, OwnerStates, TaskStates, WorkerStates, ConnStates
  <2>2. OwnerInv /\ WorkersInv
    BY DEF OwnerInv, WorkersInv, Running
  <2>3. HandInv /\ ConnInv
    BY UdpAssumption DEF UdpAssumption, HandInv, ConnInv, Live, Over, Waiting
  <2>4. QueueInv /\ QueuedInv
    <3>1. 1..Len(queue) = {}
      OBVIOUS
    <3> QED
      BY <3>1 DEF QueueInv, QueuedInv
  <2>5. LossHasCause
    BY DEF LossHasCause
  <2> QED
    BY <2>1, <2>2, <2>3, <2>4, <2>5 DEF IndInv
<1>2. IndInv /\ [Next]_vars => IndInv'
  BY UdpAssumption, TypeStep, OwnerStep, WorkersStep, HandStep, QueueStep, QueuedStep, ConnStep, LossStep
  DEF IndInv
<1> QED
  BY <1>1, <1>2, PTL DEF Spec

(* The variables stay within their types; the queue holds as many            *)
(* connections as there are workers, at most.                                *)
THEOREM TypeCorrect == Spec => []TypeOK
<1>1. IndInv => TypeOK
  BY DEF IndInv
<1> QED
  BY <1>1, InductiveInvariant, PTL

(* When stop() has returned (listener/udp.rs 210-223) the dispatcher is over *)
(* and, unless it had collapsed and its workers still end, nobody waits.     *)
THEOREM StopIsClean == Spec => []StopLeavesNoWork
<1>1. IndInv => StopLeavesNoWork
  <2> SUFFICES ASSUME IndInv, owner = "stopped"
               PROVE  /\ task \in {"none", "done", "collapsed"}
                      /\ task # "collapsed" => Joined
                      /\ Joined => \A c \in Conns : conn[c] \notin Waiting
    BY DEF StopLeavesNoWork
  <2>1. task \in {"none", "done", "collapsed"}
    BY DEF IndInv, OwnerInv
  <2>2. task # "collapsed" => Joined
    BY <2>1 DEF IndInv, WorkersInv, Joined
  <2>3. ASSUME NEW c \in Conns, Joined
        PROVE  conn[c] \notin Waiting
    BY <2>1, <2>3 DEF IndInv, ConnInv, Waiting, EndpointOpen, Running
  <2> QED
    BY <2>1, <2>2, <2>3
<1> QED
  BY <1>1, InductiveInvariant, PTL

(* Connections are dropped or closed by a shutdown or after somebody's       *)
(* handshake failed, served ones only with their own worker                  *)
(* (listener/udp.rs 311-313, worker/udp.rs 60-113).                          *)
THEOREM LossIsCaused == Spec => []LossHasCause
<1>1. IndInv => LossHasCause
  BY DEF IndInv
<1> QED
  BY <1>1, InductiveInvariant, PTL

-----------------------------------------------------------------------------
(* The refinement of ListenerContract.                                     *)

begunBar == {c \in Conns : conn[c] \in Live \cup Over}
overBar  == {c \in Conns : conn[c] \in Over}

(* The owner opens, shuts or discards the listener, or changes nothing that  *)
(* the contract sees.                                                        *)
LEMMA OwnerContract ==
    ASSUME UdpAssumption, IndInv, OwnerNext
    PROVE  [Contract!Next]_(Contract!vars)
<1> USE DEF IndInv, TypeOK
<1>1. begunBar' = begunBar /\ overBar' = overBar
  BY OwnerMoves DEF begunBar, overBar, Live, Over
<1>2. ASSUME phaseBar' = phaseBar
      PROVE  [Contract!Next]_(Contract!vars)
  BY <1>1, <1>2 DEF Contract!vars, begunBar, overBar
<1>3. CASE ReservePort \/ ListenFails
  <2>1. phaseBar' = phaseBar
    BY <1>3 DEF ReservePort, ListenFails, phaseBar
  <2> QED
    BY <1>2, <2>1
<1>4. CASE StopReturns
  <2>1. phaseBar' = phaseBar
    BY <1>4 DEF StopReturns, phaseBar, Joined, workerVars
  <2> QED
    BY <1>2, <2>1
<1>5. CASE Listen
  <2>1. phaseBar = "idle" /\ phaseBar' = "open"
    BY <1>5 DEF Listen, phaseBar
  <2> QED
    BY <1>1, <2>1 DEF Contract!Next, Contract!Open, begunBar, overBar
<1>6. CASE (StopUnused \/ Drop) /\ owner \in {"created", "reserved"}
  <2>1. phaseBar = "idle" /\ phaseBar' = "closed"
    BY <1>6 DEF StopUnused, Drop, phaseBar, OwnerInv
  <2> QED
    BY <1>1, <2>1 DEF Contract!Next, Contract!Discard, begunBar, overBar
<1>7. CASE (Stop \/ Drop) /\ owner \in {"listening", "stopping"}
  <2>1. UNCHANGED <<task, Joined>> /\ owner' \in {"stopping", "dropped"}
    BY <1>7 DEF Stop, Drop, Joined, workerVars
  <2>2. CASE phaseBar = "open"
    <3>1. phaseBar' = "closing"
      BY <2>1, <2>2 DEF phaseBar
    <3> QED
      BY <1>1, <2>2, <3>1 DEF Contract!Next, Contract!Shut, begunBar, overBar
  <2>3. CASE phaseBar # "open"
    <3>1. phaseBar' = phaseBar
      BY <1>7, <2>1, <2>3 DEF phaseBar
    <3> QED
      BY <1>2, <3>1
  <2> QED
    BY <2>2, <2>3
<1> QED
  BY <1>3, <1>4, <1>5, <1>6, <1>7 DEF OwnerNext, Stop, StopUnused, Drop, OwnerStates

(* The dispatcher ends the shutdown when all its workers are over; its       *)
(* collapse closes nothing yet, for they are not.                            *)
LEMMA DispatchContract ==
    ASSUME UdpAssumption, IndInv, Dispatch \/ ShutDispatcher
    PROVE  [Contract!Next]_(Contract!vars)
<1> USE DEF IndInv, TypeOK
<1>1. begunBar' = begunBar /\ overBar' = overBar
  BY DispatchMoves DEF begunBar, overBar, Live, Over, Waiting, Lost
<1>2. CASE Drained
  <2>1. phaseBar = "closing" /\ phaseBar' = "closed"
    BY <1>2 DEF Drained, phaseBar, OwnerInv, ShutSignal
  <2> QED
    BY <1>1, <2>1 DEF Contract!Next, Contract!Finish, begunBar, overBar
<1>3. ASSUME owner' = owner,
             task \notin {"none", "done", "collapsed"}, task' \notin {"none", "done"},
             task' = "collapsed" => ~Joined'
      PROVE  [Contract!Next]_(Contract!vars)
  <2>1. phaseBar' = phaseBar
    BY <1>3 DEF phaseBar
  <2> QED
    BY <1>1, <2>1 DEF Contract!vars, begunBar, overBar
<1>4. CASE DispatcherRun \/ ShutDispatcher
  BY <1>3, <1>4 DEF DispatcherRun, ShutDispatcher, Running
<1>5. ASSUME NEW c \in Conns, Accept(c) \/ HandshakeDone(c) \/ Send(c)
      PROVE  [Contract!Next]_(Contract!vars)
  BY <1>3, <1>5, PassMoves
<1>6. ASSUME NEW c \in Conns, HandshakeFails(c)
      PROVE  [Contract!Next]_(Contract!vars)
  <2>1. task = "shaking" /\ UNCHANGED <<owner, worker>> /\ task' = "collapsed"
    BY <1>6, FailMoves
  <2>2. \A w \in Workers : worker[w] \notin {"none", "ended"}
    BY <2>1 DEF WorkersInv, WorkerSignal, Running
  <2>3. ~Joined'
    BY <2>1, <2>2, UdpAssumption DEF Joined, UdpAssumption
  <2> QED
    BY <1>3, <2>1, <2>3
<1> QED
  BY <1>2, <1>4, <1>5, <1>6 DEF Dispatch

(* A worker begins the connections it takes; the last one of a collapsed     *)
(* dispatcher closes the listener.                                           *)
LEMMA WorkerContract ==
    ASSUME UdpAssumption, IndInv, NEW w \in Workers, WorkerNext(w)
    PROVE  [Contract!Next]_(Contract!vars)
<1> USE DEF IndInv, TypeOK
<1>1. worker[w] \notin {"none", "ended"} /\ ~Joined
  BY GoneMoves, RecvMoves DEF WorkerNext, WorkerRun, WorkerInsert, WorkerShut, Joined
<1>2. UNCHANGED <<owner, task>>
  BY GoneMoves, RecvMoves DEF WorkerNext, WorkerRun, WorkerInsert, WorkerShut
<1>3. task \notin {"none", "spawned", "done"} /\ owner \notin {"created", "reserved"}
  BY <1>1 DEF WorkersInv, OwnerInv, Joined
<1>4. phaseBar = IF owner = "listening" THEN "open" ELSE "closing"
  BY <1>1, <1>3 DEF phaseBar
<1>5. CASE WorkerRun(w) \/ WorkerInsert(w) \/ WorkerShut(w)
  <2>1. worker'[w] \notin {"none", "ended"} /\ conn' = conn
    BY <1>5 DEF WorkerRun, WorkerInsert, WorkerShut, connVars
  <2>2. ~Joined'
    BY <2>1 DEF Joined
  <2> QED
    BY <1>2, <1>3, <1>4, <2>1, <2>2 DEF phaseBar, Contract!vars
<1>6. CASE WorkerRecv(w)
  <2> DEFINE h == Head(queue)
  <2>1. /\ h \in Conns /\ conn[h] = "queued" /\ conn'[h] = "idle"
        /\ \A c \in Conns \ {h} : conn'[c] = conn[c]
        /\ worker'[w] = "insert"
    BY <1>6, RecvMoves
  <2>2. phaseBar' = phaseBar
    <3>1. ~Joined'
      BY <2>1 DEF Joined
    <3> QED
      BY <1>2, <1>3, <1>4, <3>1 DEF phaseBar
  <2> HIDE DEF h
  <2>3. h \in Conns \ begunBar /\ begunBar' = begunBar \cup {h} /\ overBar' = overBar
    BY <2>1 DEF begunBar, overBar, Live, Over
  <2> QED
    BY <1>4, <2>1, <2>2, <2>3 DEF Contract!Next, Contract!Begin, begunBar, overBar
<1>7. CASE WorkerAbort(w) \/ WorkerCancelled(w)
  <2>1. begunBar' = begunBar /\ overBar' = overBar
    BY <1>7, GoneMoves DEF begunBar, overBar, Live, Over
  <2>2. CASE task = "collapsed" /\ Joined'
    <3>1. phaseBar' = "closed"
      BY <1>2, <1>3, <2>2 DEF phaseBar
    <3> QED
      BY <1>4, <2>1, <3>1 DEF Contract!Next, Contract!Collapse, Contract!Finish, begunBar, overBar
  <2>3. CASE ~(task = "collapsed" /\ Joined')
    <3>1. phaseBar' = phaseBar
      BY <1>2, <1>3, <1>4, <2>3 DEF phaseBar
    <3> QED
      BY <2>1, <3>1 DEF Contract!vars, begunBar, overBar
  <2> QED
    BY <2>2, <2>3
<1> QED
  BY <1>5, <1>6, <1>7 DEF WorkerNext

(* Every step of the listener is a step of the contract or leaves it alone.  *)
LEMMA ContractStep ==
    ASSUME UdpAssumption, IndInv, [Next]_vars
    PROVE  [Contract!Next]_(Contract!vars)
<1> USE DEF IndInv, TypeOK
<1>1. ASSUME NEW c \in Conns, ConnNext(c)
      PROVE  [Contract!Next]_(Contract!vars)
  <2>1. phaseBar' = phaseBar
    BY <1>1, ConnMoves DEF phaseBar, Joined
  <2>2. begunBar' = begunBar
    BY <1>1, ConnMoves DEF begunBar
  <2>3. CASE conn'[c] \in Live
    <3>1. overBar' = overBar
      BY <1>1, <2>3, ConnMoves DEF overBar, Live, Over
    <3> QED
      BY <2>1, <2>2, <3>1 DEF Contract!vars, begunBar, overBar
  <2>4. CASE conn'[c] \in Over
    <3>1. c \in begunBar \ overBar /\ overBar' = overBar \cup {c}
      BY <1>1, <2>4, ConnMoves DEF begunBar, overBar, Live, Over
    <3> QED
      BY <2>1, <2>2, <3>1 DEF Contract!Next, Contract!End, begunBar, overBar
  <2> QED
    BY <1>1, <2>3, <2>4, ConnMoves
<1>2. ASSUME NEW c \in Conns, Connect(c)
      PROVE  [Contract!Next]_(Contract!vars)
  <2>1. phaseBar' = phaseBar
    BY <1>2 DEF Connect, phaseBar, Joined, workerVars
  <2>2. begunBar' = begunBar /\ overBar' = overBar
    BY <1>2 DEF Connect, begunBar, overBar, Live, Over
  <2> QED
    BY <2>1, <2>2 DEF Contract!vars, begunBar, overBar
<1>3. CASE UNCHANGED vars
  BY <1>3 DEF vars, workerVars, connVars, phaseBar, Joined, Contract!vars
<1> QED
  BY <1>1, <1>2, <1>3, OwnerContract, DispatchContract, WorkerContract DEF Next

(* The listener keeps the safety half of its contract: connections begin     *)
(* only while a worker is left, once, and end once; it closes when it was    *)
(* asked to, or by a collapse (listener/udp.rs 154-223 and 291-351,          *)
(* worker/udp.rs 60-113).                                                    *)
THEOREM KeepsContract == Spec => Contract!Init /\ [][Contract!Next]_(Contract!vars)
<1>1. Init => Contract!Init
  BY DEF Init, Contract!Init, phaseBar, Live, Over
<1>2. IndInv /\ [Next]_vars => [Contract!Next]_(Contract!vars)
  BY UdpAssumption, ContractStep
<1> QED
  BY <1>1, <1>2, InductiveInvariant, PTL DEF Spec

-----------------------------------------------------------------------------
(* The refinement of ConnectionTask, once for every connection.            *)

stateBar(c) == IF conn[c] \in Live \cup Over THEN conn[c] ELSE "none"
toldBar(c)  == by[c] # None /\ ConnSignal(by[c])

(* Every step of the listener is a step of the task of each connection or    *)
(* leaves it alone.                                                          *)
LEMMA TaskStep ==
    ASSUME UdpAssumption, IndInv, [Next]_vars, NEW c \in Conns
    PROVE  [Task(c)!Next]_(Task(c)!vars)
<1> USE DEF IndInv, TypeOK, Live, Over
<1> DEFINE Step == [Task(c)!Next]_(Task(c)!vars)
<1>1. ASSUME stateBar(c)' = stateBar(c), toldBar(c)' = toldBar(c)
      PROVE  Step
  BY <1>1 DEF Task!vars, stateBar, toldBar
<1>2. CASE OwnerNext \/ Dispatch \/ ShutDispatcher \/ (\E d \in Conns : Connect(d)) \/ UNCHANGED vars
  <2>1. conn'[c] = conn[c] \/ (conn[c] \notin Live \cup Over /\ conn'[c] \notin Live \cup Over)
    BY <1>2, OwnerMoves, DispatchMoves DEF Waiting, Lost, Connect, vars, connVars
  <2>2. by' = by
    BY <1>2, OwnerMoves, DispatchMoves DEF Connect, vars, connVars
  <2>3. \A w \in Workers : ConnSignal(w)' = ConnSignal(w)
    BY <1>2, OwnerMoves, DispatchMoves DEF DispatcherRun, WorkersInv, ConnSignal, Connect, vars, workerVars
  <2>4. stateBar(c)' = stateBar(c) /\ toldBar(c)' = toldBar(c)
    BY <2>1, <2>2, <2>3 DEF stateBar, toldBar, ConnSignal
  <2> QED
    BY <1>1, <2>4
<1>3. ASSUME NEW w \in Workers, WorkerNext(w)
      PROVE  Step
  <2>1. CASE WorkerRecv(w)
    <3> DEFINE h == Head(queue)
    <3>1. /\ h \in Conns /\ conn[h] = "queued" /\ conn'[h] = "idle" /\ by[h] = None /\ by'[h] = w
          /\ \A d \in Conns \ {h} : conn'[d] = conn[d] /\ by'[d] = by[d]
          /\ worker[w] = "recv" /\ worker'[w] = "insert"
          /\ \A v \in Workers \ {w} : worker'[v] = worker[v]
      BY <2>1, RecvMoves DEF ConnInv, Waiting
    <3> HIDE DEF h
    <3>2. toldBar(c)' = toldBar(c)
      BY <3>1 DEF toldBar, ConnSignal
    <3>3. CASE c = h
      <4>1. stateBar(c) = "none" /\ stateBar(c)' = "idle"
        BY <3>1, <3>3 DEF stateBar
      <4> QED
        BY <3>2, <4>1 DEF Task!Next, Task!Begin, stateBar, toldBar
    <3>4. CASE c # h
      <4>1. stateBar(c)' = stateBar(c)
        BY <3>1, <3>4 DEF stateBar
      <4> QED
        BY <1>1, <3>2, <4>1
    <3> QED
      BY <3>3, <3>4
  <2>2. CASE ~WorkerRecv(w)
    <3>1. /\ by' = by
          /\ conn'[c] = conn[c] \/ (conn[c] = "queued" /\ conn'[c] = "dropped")
          /\ \A v \in Workers : ConnSignal(v) => ConnSignal(v)'
      <4>1. CASE WorkerRun(w) \/ WorkerInsert(w) \/ WorkerShut(w)
        BY <4>1 DEF WorkerRun, WorkerInsert, WorkerShut, connVars, ConnSignal
      <4>2. CASE WorkerAbort(w) \/ WorkerCancelled(w)
        BY <4>2, GoneMoves DEF ConnSignal
      <4> QED
        BY <1>3, <2>2, <4>1, <4>2 DEF WorkerNext
    <3>2. stateBar(c)' = stateBar(c) /\ (toldBar(c) => toldBar(c)')
      BY <3>1 DEF stateBar, toldBar, ConnSignal
    <3>3. CASE toldBar(c)' /\ ~toldBar(c)
      BY <3>2, <3>3 DEF Task!Next, Task!Tell, stateBar, toldBar
    <3>4. CASE ~(toldBar(c)' /\ ~toldBar(c))
      <4>1. toldBar(c)' = toldBar(c)
        BY <3>2, <3>4 DEF toldBar
      <4> QED
        BY <1>1, <3>2, <4>1
    <3> QED
      BY <3>3, <3>4
  <2> QED
    BY <2>1, <2>2
<1>4. ASSUME NEW d \in Conns, ConnNext(d)
      PROVE  Step
  <2>1. toldBar(c)' = toldBar(c)
    BY <1>4, ConnMoves DEF toldBar, ConnSignal
  <2>2. CASE c # d
    <3>1. stateBar(c)' = stateBar(c)
      BY <1>4, <2>2, ConnMoves DEF stateBar
    <3> QED
      BY <1>1, <2>1, <3>1
  <2>3. CASE c = d
    <3>1. stateBar(c) = conn[c] /\ stateBar(c)' = conn'[c]
      BY <1>4, <2>3, ConnMoves DEF stateBar
    <3>2. CASE RequestStart(c) \/ RequestDone(c) \/ HandlerPanics(c) \/ ServeEnd(c)
      BY <2>1, <3>1, <3>2 DEF RequestStart, RequestDone, HandlerPanics, ServeEnd, Moves,
         Task!Next, Task!Start, Task!Done, Task!Panic, Task!End, stateBar, toldBar
    <3>3. CASE ShutConn(c) \/ CancelConn(c)
      <4>1. toldBar(c)
        BY <3>3, UdpAssumption DEF ShutConn, CancelConn, ConnInv, toldBar, UdpAssumption
      <4> QED
        BY <2>1, <3>1, <3>3, <4>1 DEF ShutConn, CancelConn, Moves, Task!Next, Task!Shut, stateBar, toldBar
    <3> QED
      BY <1>4, <2>3, <3>2, <3>3 DEF ConnNext
  <2> QED
    BY <2>2, <2>3
<1> QED
  BY <1>2, <1>3, <1>4 DEF Next

(* Whatever the workers and the owner do, each connection goes through the   *)
(* life of a ConnectionTask (worker/udp.rs 60-113 and 264-309).              *)
THEOREM TasksAreConnectionTasks == Spec => RunsConnectionTasks
<1>1. Init => \A c \in Conns : Task(c)!Init
  BY DEF Init, Task!Init, Live, Over
<1>2. IndInv /\ [Next]_vars => [\A c \in Conns : [Task(c)!Next]_(Task(c)!vars)]_vars
  BY UdpAssumption, TaskStep
<1> QED
  BY <1>1, <1>2, InductiveInvariant, PTL DEF Spec, RunsConnectionTasks


-----------------------------------------------------------------------------
(* What a step of the listener may never do.                               *)

(* how far a connection has come *)
Progress(s) ==
    CASE s = "absent"           -> 0
      [] s = "incoming"         -> 1
      [] s = "shaking"          -> 2
      [] s = "pending"          -> 3
      [] s = "queued"           -> 4
      [] s \in {"idle", "busy"} -> 5
      [] OTHER                  -> 6

(* A connection only goes forward, but for the alternation of its requests:  *)
(* it is accepted, shakes hands, is queued and given a task at most once     *)
(* each, its worker is chosen for good, and one that is over or lost stays.  *)
GoesForward(c) ==
    /\ \/ conn'[c] = conn[c]
       \/ {conn[c], conn'[c]} \subseteq {"idle", "busy"}
       \/ Progress(conn[c]) < Progress(conn'[c])
    /\ by[c] # None => by'[c] = by[c]
    /\ c \in aborted => c \in aborted'

ConnectionsGoForward == \A c \in Conns : GoesForward(c)

LEMMA ForwardStep ==
    ASSUME UdpAssumption, IndInv, [Next]_vars
    PROVE  ConnectionsGoForward
<1> SUFFICES ASSUME NEW c \in Conns
             PROVE  GoesForward(c)
  BY DEF ConnectionsGoForward
<1> USE DEF IndInv, TypeOK
<1>0. ASSUME by' = by, aborted \subseteq aborted',
             conn'[c] = conn[c] \/ Progress(conn[c]) < Progress(conn'[c])
      PROVE  GoesForward(c)
  BY <1>0 DEF GoesForward
<1>1. CASE OwnerNext
  <2>1. conn'[c] = conn[c] \/ (conn[c] = "incoming" /\ conn'[c] \in {"unheard", "dropped"})
    BY <1>1, OwnerMoves
  <2> QED
    BY <1>0, <1>1, <2>1, OwnerMoves DEF Progress
<1>2. CASE DispatcherRun
  BY <1>2 DEF DispatcherRun, connVars, GoesForward
<1>3. CASE ShutDispatcher \/ Drained
  <2>1. conn'[c] = conn[c] \/ (conn[c] \in Waiting /\ conn'[c] = "dropped")
    BY <1>3, ShutMoves DEF Waiting
  <2>2. conn'[c] = conn[c] \/ Progress(conn[c]) < Progress(conn'[c])
    BY <2>1 DEF Progress, Waiting
  <2> QED
    BY <1>0, <1>3, <2>2, ShutMoves
<1>4. ASSUME NEW d \in Conns, HandshakeFails(d)
      PROVE  GoesForward(c)
  <2>1. conn'[c] = conn[c] \/ (conn[c] \in {"shaking", "incoming"} /\ conn'[c] \in {"refused", "dropped"})
    BY <1>4, FailMoves
  <2> QED
    BY <1>0, <1>4, <2>1, FailMoves DEF Progress
<1>5. ASSUME NEW d \in Conns, Accept(d) \/ HandshakeDone(d) \/ Send(d)
      PROVE  GoesForward(c)
  <2>1. \/ conn'[c] = conn[c]
        \/ conn[c] = "incoming" /\ conn'[c] = "shaking"
        \/ conn[c] = "shaking" /\ conn'[c] = "pending"
        \/ conn[c] = "pending" /\ conn'[c] = "queued"
    BY <1>5, PassMoves
  <2> QED
    BY <1>0, <1>5, <2>1, PassMoves DEF Progress
<1>6. ASSUME NEW w \in Workers, WorkerRecv(w)
      PROVE  GoesForward(c)
  <2>1. by[Head(queue)] = None
    BY <1>6, RecvMoves DEF ConnInv, Waiting
  <2>2. CASE c = Head(queue)
    <3>1. Progress(conn[c]) = 4 /\ Progress(conn'[c]) = 5
      BY <1>6, <2>2, RecvMoves DEF Progress
    <3> QED
      BY <1>6, <2>1, <2>2, <3>1, RecvMoves DEF GoesForward
  <2>3. CASE c # Head(queue)
    BY <1>6, <2>3, RecvMoves DEF GoesForward
  <2> QED
    BY <2>2, <2>3
<1>7. ASSUME NEW w \in Workers, WorkerAbort(w) \/ WorkerCancelled(w)
      PROVE  GoesForward(c)
  <2>1. conn'[c] = conn[c] \/ (conn[c] = "queued" /\ conn'[c] = "dropped")
    BY <1>7, GoneMoves
  <2>2. by' = by /\ aborted \subseteq aborted'
    BY <1>7, GoneMoves
  <2> QED
    BY <1>0, <2>1, <2>2 DEF Progress
<1>8. ASSUME NEW w \in Workers, WorkerRun(w) \/ WorkerInsert(w) \/ WorkerShut(w)
      PROVE  GoesForward(c)
  BY <1>8 DEF WorkerRun, WorkerInsert, WorkerShut, connVars, GoesForward
<1>9. ASSUME NEW d \in Conns, ConnNext(d)
      PROVE  GoesForward(c)
  <2>1. \/ conn'[c] = conn[c]
        \/ {conn[c], conn'[c]} \subseteq {"idle", "busy"}
        \/ conn[c] \in {"idle", "busy"} /\ conn'[c] \in Over
    BY <1>9, ConnMoves DEF Live
  <2>2. CASE {conn[c], conn'[c]} \subseteq {"idle", "busy"}
    BY <1>9, <2>2, ConnMoves DEF GoesForward
  <2> QED
    BY <1>0, <1>9, <2>1, <2>2, ConnMoves DEF Progress, Over
<1>10. ASSUME NEW d \in Conns, Connect(d)
       PROVE  GoesForward(c)
  <2>1. UNCHANGED <<by, aborted>> /\ (conn'[c] = conn[c] \/ (conn[c] = "absent" /\ conn'[c] = "incoming"))
    BY <1>10 DEF Connect
  <2> QED
    BY <1>0, <2>1 DEF Progress
<1>11. CASE UNCHANGED vars
  BY <1>11 DEF vars, connVars, GoesForward
<1> QED
  BY <1>1, <1>2, <1>3, <1>4, <1>5, <1>6, <1>7, <1>8, <1>9, <1>10, <1>11 DEF Next, Dispatch, WorkerNext

(* A connection moves through accept(), its handshake, the channel and the   *)
(* task that is spawned for it, and never comes back (listener/udp.rs        *)
(* 306-322, worker/udp.rs 60-92): none is served twice, or by two workers.   *)
THEOREM ConnectionsAreServedOnce == Spec => [][ConnectionsGoForward]_vars
<1>1. IndInv /\ [Next]_vars => [ConnectionsGoForward]_vars
  BY UdpAssumption, ForwardStep
<1> QED
  BY <1>1, InductiveInvariant, PTL DEF Spec

(* stop(), the drop of the value, or the collapse has had its whole effect: *)
(* the collapsed dispatcher's workers are over too                          *)
Ended ==
    /\ owner \in {"stopped", "dropped"}
    /\ task \in {"none", "done"} \/ (task = "collapsed" /\ Joined)

(* The end is final: nothing is accepted, queued or given a task any more,   *)
(* and of the connections only those with a task still change.               *)
EndIsFinal ==
    Ended =>
        /\ Ended'
        /\ UNCHANGED <<queue, worker, hand, aborted>>
        /\ \A c \in Conns : conn'[c] # conn[c] => conn[c] \in Live

LEMMA FinalStep ==
    ASSUME IndInv, [Next]_vars
    PROVE  EndIsFinal
<1> SUFFICES ASSUME Ended
             PROVE  /\ Ended'
                    /\ UNCHANGED <<queue, worker, hand, aborted>>
                    /\ \A c \in Conns : conn'[c] # conn[c] => conn[c] \in Live
  BY DEF EndIsFinal
<1> USE DEF IndInv, TypeOK, Ended
<1>0. ~EndpointOpen /\ Joined /\ \A w \in Workers : worker[w] \in {"none", "ended"}
  BY DEF EndpointOpen, WorkersInv, Joined, Running
<1>1. CASE OwnerNext
  BY <1>1 DEF OwnerNext, ReservePort, Listen, ListenFails, StopUnused, Stop, StopReturns, Drop,
              workerVars, connVars
<1>2. CASE Dispatch \/ ShutDispatcher
  BY <1>2 DEF Dispatch, DispatcherRun, Drained, Accept, HandshakeDone, HandshakeFails, Send,
              ShutDispatcher, Running
<1>3. ASSUME NEW w \in Workers, WorkerNext(w)
      PROVE  FALSE
  BY <1>0, <1>3 DEF WorkerNext, WorkerRun, WorkerRecv, WorkerInsert, WorkerShut, WorkerAbort, WorkerCancelled
<1>4. ASSUME NEW c \in Conns, ConnNext(c)
      PROVE  /\ UNCHANGED <<owner, task, queue, worker, hand, aborted>>
             /\ \A d \in Conns : conn'[d] # conn[d] => conn[d] \in Live
  BY <1>4, ConnMoves
<1>5. ASSUME NEW c \in Conns, Connect(c)
      PROVE  FALSE
  BY <1>0, <1>5 DEF Connect
<1>6. CASE UNCHANGED vars
  BY <1>6 DEF vars, workerVars, connVars, Joined
<1>7. UNCHANGED <<worker, queue, hand, aborted>> /\ \A c \in Conns : conn'[c] # conn[c] => conn[c] \in Live
  BY <1>1, <1>2, <1>3, <1>4, <1>5, <1>6 DEF Next
<1>8. Joined'
  BY <1>0, <1>7 DEF Joined
<1> QED
  BY <1>1, <1>2, <1>3, <1>4, <1>5, <1>6, <1>7, <1>8 DEF Next

(* What stop() has reached once the workers are over lasts: no task that it  *)
(* left behind can bring a connection in (listener/udp.rs 210-223).          *)
THEOREM StoppedForGood == Spec => [][EndIsFinal]_vars
<1>1. IndInv /\ [Next]_vars => [EndIsFinal]_vars
  BY FinalStep
<1> QED
  BY <1>1, InductiveInvariant, PTL DEF Spec

(* how far a worker is from its end, once it has been told to stop *)
Stage(s) ==
    CASE s \in {"spawned", "insert"}  -> 0
      [] s = "recv"                   -> 1
      [] s = "closing"                -> 2
      [] OTHER                        -> 3

(* Once the workers are told to stop, by a drain or by a collapse, nobody    *)
(* lengthens the queue and nobody holds a worker back: every step of a       *)
(* worker takes it nearer to its end, or takes a connection off the queue,   *)
(* and a drain ends only when all of them are over.                          *)
EndingAdvances ==
    WorkerSignal =>
        \/ task = "draining" /\ task' = "done" /\ Joined /\ UNCHANGED worker
        \/ UNCHANGED <<task, queue, worker>>
        \/ /\ UNCHANGED task
           /\ \E w \in Workers :
                /\ \A v \in Workers \ {w} : worker'[v] = worker[v]
                /\ \/ queue # <<>> /\ queue' = Tail(queue)
                   \/ queue' \in {queue, <<>>} /\ Stage(worker[w]) < Stage(worker'[w])

LEMMA EndingStep ==
    ASSUME TypeOK, OwnerInv, WorkersInv, [Next]_vars
    PROVE  EndingAdvances
<1> SUFFICES ASSUME WorkerSignal
             PROVE  \/ task = "draining" /\ task' = "done" /\ Joined /\ UNCHANGED worker
                    \/ UNCHANGED <<task, queue, worker>>
                    \/ /\ UNCHANGED task
                       /\ \E w \in Workers :
                            /\ \A v \in Workers \ {w} : worker'[v] = worker[v]
                            /\ \/ queue # <<>> /\ queue' = Tail(queue)
                               \/ queue' \in {queue, <<>>} /\ Stage(worker[w]) < Stage(worker'[w])
  BY DEF EndingAdvances
<1> USE DEF WorkerSignal
<1>1. CASE OwnerNext
  BY <1>1, OwnerMoves
<1>2. CASE Dispatch \/ ShutDispatcher
  BY <1>2 DEF Dispatch, DispatcherRun, Drained, Accept, HandshakeDone, HandshakeFails, Send,
              ShutDispatcher, Running, workerVars
<1>3. ASSUME NEW w \in Workers, WorkerRecv(w)
      PROVE  /\ task' = task
             /\ \A v \in Workers \ {w} : worker'[v] = worker[v]
             /\ queue # <<>> /\ queue' = Tail(queue)
  BY <1>3 DEF WorkerRecv, TypeOK
<1>4. ASSUME NEW w \in Workers, WorkerNext(w), ~WorkerRecv(w)
      PROVE  /\ task' = task
             /\ \A v \in Workers \ {w} : worker'[v] = worker[v]
             /\ queue' \in {queue, <<>>} /\ Stage(worker[w]) < Stage(worker'[w])
  <2>1. /\ task' = task
        /\ \A v \in Workers \ {w} : worker'[v] = worker[v]
        /\ queue' \in {queue, <<>>}
    BY <1>4, GoneMoves DEF WorkerNext, WorkerRun, WorkerInsert, WorkerShut, TypeOK
  <2>2. \/ worker[w] = "spawned" /\ worker'[w] \in {"recv", "closing", "ended"}
        \/ worker[w] = "insert" /\ worker'[w] = "recv"
        \/ worker[w] = "recv" /\ worker'[w] \in {"closing", "ended"}
        \/ worker[w] = "closing" /\ worker'[w] = "ended"
    BY <1>4, GoneMoves DEF WorkerNext, WorkerRun, WorkerInsert, WorkerShut, TypeOK
  <2>3. Stage(worker[w]) < Stage(worker'[w])
    BY <2>2 DEF Stage
  <2> QED
    BY <2>1, <2>3
<1>5. ASSUME NEW c \in Conns, ConnNext(c) \/ Connect(c)
      PROVE  UNCHANGED <<task, queue, worker>>
  BY <1>5, ConnMoves DEF Connect, workerVars
<1>6. CASE UNCHANGED vars
  BY <1>6 DEF vars, workerVars
<1> QED
  BY <1>1, <1>2, <1>3, <1>4, <1>5, <1>6 DEF Next

(* The safety core of StopCompletes, and of the way the workers of a         *)
(* collapsed dispatcher end: boundedly many steps of theirs, whatever the    *)
(* clients and the connections do (listener/udp.rs 326-351, worker/udp.rs    *)
(* 60-113).  That the steps are taken is the fairness of the runtime.        *)
THEOREM EndingIsBounded == Spec => [][EndingAdvances]_vars
<1>1. IndInv /\ [Next]_vars => [EndingAdvances]_vars
  BY EndingStep DEF IndInv
<1> QED
  BY <1>1, InductiveInvariant, PTL DEF Spec


(* Back-pressure: at most one connection more than the queue holds is        *)
(* between accept() and a worker, one that shakes hands included: handshakes *)
(* are carried out one after the other (listener/udp.rs 306-322).            *)
Backpressure ==
    Cardinality({c \in Conns : conn[c] \in {"shaking", "pending", "queued"}}) <= Capacity + 1

(* The dispatcher never holds more than the queue and one more connection,   *)
(* whatever the workers and the peers do (listener/udp.rs 291-322).          *)
THEOREM BackpressureHolds == Spec => []Backpressure
<1>1. ASSUME IndInv
      PROVE  Backpressure
  <2> DEFINE Q == {c \in Conns : conn[c] = "queued"}
             P == {c \in Conns : conn[c] \in {"shaking", "pending"}}
             W == {c \in Conns : conn[c] \in {"shaking", "pending", "queued"}}
             Slots == 1..Len(queue)
  <2>1. Capacity \in Nat /\ Len(queue) \in Nat /\ Len(queue) <= Capacity
    BY <1>1, UdpAssumption, CapacityType DEF IndInv, TypeOK
  <2>2. IsFiniteSet(Slots) /\ Cardinality(Slots) = Len(queue)
    <3>1. 1 \in Int /\ Len(queue) \in Int
      BY <2>1
    <3>2. /\ IsFiniteSet(1..Len(queue))
          /\ Cardinality(1..Len(queue)) = IF 1 > Len(queue) THEN 0 ELSE Len(queue) - 1 + 1
      BY <3>1, FS_Interval, Zenon
    <3> QED
      BY <2>1, <3>2
  <2>3. IsFiniteSet(Q) /\ Cardinality(Q) <= Len(queue)
    <3> DEFINE f == [i \in Slots |-> queue[i]]
    <3>1. f \in Surjection(Slots, Q)
      <4>1. \A i \in Slots : queue[i] \in Q
        BY <1>1 DEF IndInv, TypeOK, QueueInv
      <4>2. \A c \in Q : \E i \in Slots : f[i] = c
        BY <1>1 DEF IndInv, QueuedInv
      <4> QED
        BY <4>1, <4>2 DEF Surjection
    <3> HIDE DEF f, Q, Slots
    <3> QED
      BY <2>2, <3>1, FS_Surjection
  <2>4. \E x : W \subseteq Q \cup {x}
    <3>1. CASE P = {}
      BY <3>1
    <3>2. CASE P # {}
      <4>1. PICK x \in Conns : conn[x] \in {"shaking", "pending"}
        BY <3>2
      <4>2. \A d \in P : d = x
        BY <1>1, <4>1 DEF IndInv, ConnInv
      <4> QED
        BY <4>2
    <3> QED
      BY <3>1, <3>2
  <2> HIDE DEF Q, W
  <2>5. PICK x : W \subseteq Q \cup {x}
    BY <2>4
  <2>6. IsFiniteSet(Q \cup {x}) /\ Cardinality(Q \cup {x}) <= Len(queue) + 1
    <3>1. /\ IsFiniteSet(Q \cup {x})
          /\ Cardinality(Q \cup {x}) = IF x \in Q THEN Cardinality(Q) ELSE Cardinality(Q) + 1
      BY <2>3, FS_AddElement
    <3>2. Cardinality(Q) \in Nat
      BY <2>3, FS_CardinalityType
    <3> QED
      BY <2>1, <2>3, <3>1, <3>2
  <2>7. IsFiniteSet(W) /\ Cardinality(W) <= Cardinality(Q \cup {x})
    BY <2>5, <2>6, FS_Subset
  <2>8. Cardinality(W) \in Nat /\ Cardinality(Q \cup {x}) \in Nat
    BY <2>6, <2>7, FS_CardinalityType
  <2>9. Cardinality(W) <= Capacity + 1
    BY <2>1, <2>6, <2>7, <2>8
  <2> QED
    BY <2>9 DEF W, Backpressure
<1> QED
  BY <1>1, InductiveInvariant, PTL

=============================================================================
