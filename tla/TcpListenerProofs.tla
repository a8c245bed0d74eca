------------------------- MODULE TcpListenerProofs -------------------------
(***************************************************************************)
(* Proofs about TcpListener, for every finite set of workers and every set *)
(* of connections and addresses.                                           *)
(***************************************************************************)
EXTENDS TcpListener, FiniteSetTheorems, TLAPS

(* What closing the connections in some states does to each connection. *)
LEMMA DroppingFact ==
    ASSUME NEW S, TypeOK
    PROVE  /\ Dropping(S) \in [Conns -> ConnStates]
           /\ \A c \in Conns : Dropping(S)[c] = IF conn[c] \in S THEN "dropped" ELSE conn[c]
BY DEF Dropping, TypeOK, ConnStates, Waiting, Live, Over, Lost

(* The variables stay within their types: what a worker stores in its map   *)
(* is the connection in its hand, which HandInv says there is.              *)
LEMMA TypeStep ==
    ASSUME TypeOK, HandInv, [Next]_vars
    PROVE  TypeOK'
<1> USE DEF TypeOK, OwnerStates, TaskStates, WorkerStates, PeerStates, ConnStates,
            Waiting, Live, Over, Lost, workerVars, connVars
<1>1. CASE OwnerNext
  BY <1>1, DroppingFact DEF OwnerNext, ReservePort, Listen, StopUnused, Stop, StopReturns, Drop
<1>2. CASE DispatcherRun \/ AcceptError \/ AcceptInLog \/ ShutDispatcher \/ Drained
  <2>1. CASE DispatcherRun
    <3>1. [w \in Workers |-> "spawned"] \in [Workers -> WorkerStates]
      OBVIOUS
    <3> QED
      BY <2>1, <3>1 DEF DispatcherRun
  <2>2. CASE AcceptError \/ AcceptInLog
    BY <2>2 DEF AcceptError, AcceptInLog
  <2>3. CASE ShutDispatcher
    BY <2>3, DroppingFact DEF ShutDispatcher
  <2>4. CASE Drained
    <3>1. <<>> \in Seq(Conns)
      OBVIOUS
    <3> QED
      BY <2>4, <3>1, DroppingFact DEF Drained
  <2> QED
    BY <1>2, <2>1, <2>2, <2>3, <2>4
<1>3. ASSUME NEW c \in Conns, Accept(c) \/ Send(c)
      PROVE  TypeOK'
  <2>1. CASE Accept(c)
    BY <2>1 DEF Accept
  <2>2. CASE Send(c)
    BY <2>2 DEF Send
  <2> QED
    BY <1>3, <2>1, <2>2
<1>4. ASSUME NEW w \in Workers, WorkerRun(w) \/ WorkerSpawn(w) \/ WorkerFail(w) \/ WorkerAbort(w)
      PROVE  TypeOK'
  BY <1>4 DEF WorkerRun, WorkerSpawn, WorkerFail, WorkerAbort, Classes
<1>5. ASSUME NEW w \in Workers, WorkerRecv(w)
      PROVE  TypeOK'
  BY <1>5 DEF WorkerRecv
<1>6. ASSUME NEW w \in Workers, WorkerInsert(w)
      PROVE  TypeOK'
  BY <1>6 DEF WorkerInsert, WithoutAddr, HandInv
<1>7. ASSUME NEW w \in Workers, WorkerShut(w)
      PROVE  TypeOK'
  BY <1>7 DEF WorkerShut
<1>8. ASSUME NEW c \in Conns, ConnNext(c)
      PROVE  TypeOK'
  <2>1. CASE ServeEnd(c)
    BY <2>1 DEF ServeEnd, WithoutAddr
  <2>2. CASE ~ServeEnd(c)
    BY <1>8, <2>2 DEF ConnNext, TlsAccept, TlsFail, RequestStart, RequestDone, HandlerPanics, ShutConn, CancelConn, Moves
  <2> QED
    BY <2>1, <2>2
<1>9. ASSUME NEW c \in Conns, ClientNext(c)
      PROVE  TypeOK'
  BY <1>9 DEF ClientNext, Connect, PeerSends, PeerLeaves, PeerMoves
<1>10. CASE UNCHANGED vars
  BY <1>10 DEF vars
<1> QED
  BY <1>1, <1>2, <1>3, <1>4, <1>5, <1>6, <1>7, <1>8, <1>9, <1>10
  DEF Next, DispatcherNext, WorkerNext

-----------------------------------------------------------------------------
(* Frames: what the step of a connection's task, and of a client, leaves    *)
(* alone, and what it may do to the connection and to the maps of handles.  *)

(* A task moves a live connection only, and closes it only for a cause.     *)
LEMMA ConnMoves ==
    ASSUME TypeOK, NEW c \in Conns, ConnNext(c)
    PROVE  /\ UNCHANGED <<owner, task, queue, worker, hand, peer, by, aborted>>
           /\ conn[c] \in Live
           /\ conn'[c] \in Live \cup Over
           /\ \A d \in Conns \ {c} : conn'[d] = conn[d]
           /\ conn'[c] \in {"closed", "cut"} =>
                c \in aborted \/ (by[c] \in Workers /\ ConnSignal(by[c]))
<1> USE DEF TypeOK, workerVars, Live, Over
<1>1. CASE ServeEnd(c)
  BY <1>1 DEF ServeEnd
<1>2. CASE TlsAccept(c) \/ TlsFail(c)
  BY <1>2 DEF TlsAccept, TlsFail, Moves
<1>3. CASE RequestStart(c) \/ RequestDone(c) \/ HandlerPanics(c)
  BY <1>3 DEF RequestStart, RequestDone, HandlerPanics, Moves
<1>4. CASE ShutConn(c)
  BY <1>4 DEF ShutConn, Moves
<1>5. CASE CancelConn(c)
  BY <1>5 DEF CancelConn, Moves
<1> QED
  BY <1>1, <1>2, <1>3, <1>4, <1>5 DEF ConnNext

(* It removes handles of its own address from its own worker's map, and     *)
(* only when it has served.                                                 *)
LEMMA ConnHandles ==
    ASSUME TypeOK, NEW c \in Conns, ConnNext(c), NEW w \in Workers
    PROVE  /\ handles'[w] \subseteq handles[w]
           /\ \A h \in handles[w] \ handles'[w] :
                w = by[c] /\ ClientAddr(h) = ClientAddr(c) /\ conn'[c] = "served"
<1> USE DEF TypeOK, workerVars
<1>1. CASE ServeEnd(c)
  BY <1>1 DEF ServeEnd, WithoutAddr
<1>2. CASE ~ServeEnd(c)
  BY <1>2 DEF ConnNext, TlsAccept, TlsFail, RequestStart, RequestDone, HandlerPanics, ShutConn, CancelConn, Moves
<1> QED
  BY <1>1, <1>2

(* A client touches nothing but its connection, which it may only open. *)
LEMMA ClientMoves ==
    ASSUME TypeOK, NEW c \in Conns, ClientNext(c)
    PROVE  /\ UNCHANGED <<owner, task, queue, worker, hand, handles, by, aborted>>
           /\ \A d \in Conns : conn'[d] = conn[d] \/ (conn[d] = "absent" /\ conn'[d] = "backlog" /\ SocketOpen)
BY DEF TypeOK, workerVars, ClientNext, Connect, PeerSends, PeerLeaves, PeerMoves

(* The owner touches its own state, the task it spawns, and the backlog of  *)
(* a socket that has no task.                                               *)
LEMMA OwnerMoves ==
    ASSUME TypeOK, OwnerInv, OwnerNext
    PROVE  /\ UNCHANGED <<queue, worker, hand, handles, by, aborted>>
           /\ \A c \in Conns : conn'[c] = conn[c] \/ (conn[c] = "backlog" /\ conn'[c] = "dropped")
           /\ task' = task \/ (task = "none" /\ task' = "spawned" /\ ~ShutSignal)
           /\ ShutSignal => ShutSignal'
           /\ \A c \in Conns : conn'[c] # conn[c] => ShutSignal'
           /\ (SocketOpen /\ ~SocketOpen') => \A c \in Conns : conn'[c] # "backlog"
<1> USE DEF TypeOK, OwnerStates, workerVars, connVars, ShutSignal, SocketOpen, OwnerInv
<1>1. CASE ReservePort \/ Listen \/ Stop \/ StopReturns
  BY <1>1 DEF ReservePort, Listen, Stop, StopReturns
<1>2. CASE StopUnused \/ Drop
  BY <1>2, DroppingFact DEF StopUnused, Drop
<1> QED
  BY <1>1, <1>2 DEF OwnerNext

-----------------------------------------------------------------------------
(* The parts of the inductive invariant, one at a time.                    *)

(* Owner and dispatcher agree: a task exists from listen() on, and it drains *)
(* only after it was told to.                                                *)
LEMMA OwnerStep ==
    ASSUME TypeOK, OwnerInv, [Next]_vars
    PROVE  OwnerInv'
<1> USE DEF TypeOK, OwnerInv, WorkerSignal, ShutSignal
<1>1. CASE OwnerNext
  BY <1>1 DEF OwnerNext, ReservePort, Listen, StopUnused, Stop, StopReturns, Drop, OwnerStates
<1>2. CASE DispatcherNext
  BY <1>2 DEF DispatcherNext, DispatcherRun, AcceptError, AcceptInLog, ShutDispatcher, Drained,
              Accept, Send, Running
<1>3. ASSUME NEW w \in Workers, WorkerNext(w)
      PROVE  OwnerInv'
  BY <1>3 DEF WorkerNext, WorkerRun, WorkerRecv, WorkerSpawn, WorkerInsert, WorkerFail, WorkerShut, WorkerAbort
<1>4. ASSUME NEW c \in Conns, ConnNext(c) \/ ClientNext(c)
      PROVE  OwnerInv'
  BY <1>4, ConnMoves, ClientMoves
<1>5. CASE UNCHANGED vars
  BY <1>5 DEF vars
<1> QED
  BY <1>1, <1>2, <1>3, <1>4, <1>5 DEF Next

(* Workers exist only under a running dispatcher, stop only when it drains,  *)
(* and are all over when it is done.                                         *)
LEMMA WorkersStep ==
    ASSUME TypeOK, OwnerInv, WorkersInv, [Next]_vars
    PROVE  WorkersInv'
<1> USE DEF TypeOK, WorkersInv, WorkerSignal, Joined
<1>1. CASE OwnerNext
  BY <1>1, OwnerMoves
<1>2. CASE DispatcherRun
  <2>1. task = "spawned" /\ task' = "accepting" /\ \A w \in Workers : worker'[w] \in {"none", "spawned"}
    BY <1>2 DEF DispatcherRun
  <2> QED
    BY <2>1
<1>3. CASE AcceptError \/ AcceptInLog \/ ShutDispatcher \/ Drained
  BY <1>3 DEF AcceptError, AcceptInLog, ShutDispatcher, Drained, workerVars, Running
<1>4. ASSUME NEW c \in Conns, Accept(c) \/ Send(c)
      PROVE  WorkersInv'
  BY <1>4 DEF Accept, Send, workerVars
<1>5. ASSUME NEW w \in Workers, WorkerNext(w)
      PROVE  WorkersInv'
  <2>1. /\ task' = task
        /\ worker[w] \notin {"none", "ended", "failed"}
        /\ worker'[w] \in {"closing", "ended"} => WorkerSignal
        /\ \A v \in Workers \ {w} : worker'[v] = worker[v]
    BY <1>5 DEF WorkerNext, WorkerRun, WorkerRecv, WorkerSpawn, WorkerInsert, WorkerFail, WorkerShut, WorkerAbort
  <2> QED
    BY <2>1
<1>6. ASSUME NEW c \in Conns, ConnNext(c) \/ ClientNext(c)
      PROVE  WorkersInv'
  BY <1>6, ConnMoves, ClientMoves
<1>7. CASE UNCHANGED vars
  BY <1>7 DEF vars, workerVars
<1> QED
  BY <1>1, <1>2, <1>3, <1>4, <1>5, <1>6, <1>7 DEF Next, DispatcherNext

(* A worker keeps hold of its own connection from recv() to insert(): the    *)
(* connection it takes is queued, so no other worker has it in hand.         *)
LEMMA HandStep ==
    ASSUME TcpAssumption, TypeOK, OwnerInv, WorkersInv, HandInv, QueueInv, ConnInv, [Next]_vars
    PROVE  HandInv'
<1> USE DEF TypeOK, HandInv, Waiting, Live, Over
<1>1. CASE OwnerNext
  BY <1>1, OwnerMoves
<1>2. CASE DispatcherNext
  <2>1. CASE DispatcherRun
    BY <2>1, TcpAssumption DEF DispatcherRun, connVars, WorkersInv
  <2>2. CASE AcceptError \/ AcceptInLog
    BY <2>2 DEF AcceptError, AcceptInLog, workerVars, connVars
  <2>3. CASE ShutDispatcher \/ Drained
    BY <2>3, DroppingFact DEF ShutDispatcher, Drained, workerVars
  <2>4. ASSUME NEW c \in Conns, Accept(c) \/ Send(c)
        PROVE  HandInv'
    BY <2>4 DEF Accept, Send, workerVars
  <2> QED
    BY <1>2, <2>1, <2>2, <2>3, <2>4 DEF DispatcherNext
<1>3. ASSUME NEW w \in Workers, WorkerRun(w) \/ WorkerSpawn(w) \/ WorkerFail(w)
      PROVE  HandInv'
  <2>1. CASE WorkerRun(w) \/ WorkerFail(w)
    BY <2>1, TcpAssumption DEF WorkerRun, WorkerFail, connVars
  <2>2. CASE WorkerSpawn(w)
    <3>1. /\ UNCHANGED <<hand, by>>
          /\ hand[w] \in Conns
          /\ by[hand[w]] = w
          /\ conn'[hand[w]] \in {"tls", "idle"}
          /\ \A d \in Conns \ {hand[w]} : conn'[d] = conn[d]
          /\ worker[w] = "peek" /\ worker' = [worker EXCEPT ![w] = "insert"]
      BY <2>2 DEF WorkerSpawn, Classes
    <3> QED
      BY <3>1
  <2> QED
    BY <1>3, <2>1, <2>2
<1>4. ASSUME NEW w \in Workers, WorkerInsert(w) \/ WorkerShut(w) \/ WorkerAbort(w)
      PROVE  HandInv'
  BY <1>4, TcpAssumption DEF WorkerInsert, WorkerShut, WorkerAbort, connVars
<1>5. ASSUME NEW w \in Workers, WorkerRecv(w)
      PROVE  HandInv'
  <2>1. Head(queue) \in Conns /\ conn[Head(queue)] = "queued"
    BY <1>5 DEF WorkerRecv, QueueInv
  <2> QED
    BY <1>5, <2>1 DEF WorkerRecv
<1>6. ASSUME NEW c \in Conns, ConnNext(c) \/ ClientNext(c)
      PROVE  HandInv'
  BY <1>6, ConnMoves, ClientMoves
<1>7. CASE UNCHANGED vars
  BY <1>7 DEF vars, workerVars, connVars
<1> QED
  BY <1>1, <1>2, <1>3, <1>4, <1>5, <1>6, <1>7 DEF Next, WorkerNext

(* The queue holds each queued connection once and never overflows: the      *)
(* dispatcher sends a pending connection, and only when there is room.       *)
LEMMA QueueStep ==
    ASSUME TcpAssumption, TypeOK, HandInv, QueueInv, ConnInv, [Next]_vars, OwnerInv
    PROVE  QueueInv'
<1> USE DEF TypeOK, QueueInv
<1>0. Capacity' = Capacity
  BY DEF Capacity
<1>1. CASE OwnerNext
  <2>1. queue' = queue
    BY <1>1, OwnerMoves
  <2>2. \A i \in 1..Len(queue) : queue[i] \in Conns /\ conn'[queue[i]] = conn[queue[i]]
    BY <1>1, OwnerMoves
  <2> QED
    BY <1>0, <2>1, <2>2
<1>2. CASE DispatcherNext
  <2>1. CASE DispatcherRun \/ AcceptError
    BY <1>0, <2>1 DEF DispatcherRun, AcceptError, connVars
  <2>2. CASE AcceptInLog
    BY <1>0, <2>2 DEF AcceptInLog
  <2>3. CASE ShutDispatcher
    BY <1>0, <2>3, DroppingFact DEF ShutDispatcher
  <2>4. CASE Drained
    <3>1. Capacity \in Nat
      BY TcpAssumption, FS_CardinalityType DEF TcpAssumption, Capacity
    <3>2. queue' = <<>>
      BY <2>4 DEF Drained
    <3> QED
      BY <1>0, <3>1, <3>2
  <2>5. ASSUME NEW c \in Conns, Accept(c)
        PROVE  QueueInv'
    BY <1>0, <2>5 DEF Accept
  <2>6. ASSUME NEW c \in Conns, Send(c)
        PROVE  QueueInv'
    <3>1. /\ Len(queue') = Len(queue) + 1
          /\ \A i \in 1..Len(queue) : queue'[i] = queue[i]
          /\ queue'[Len(queue) + 1] = c
      BY <2>6 DEF Send
    <3>2. Len(queue) < Capacity
      BY <2>6 DEF Send, Room
    <3>3. /\ conn[c] = "pending"
          /\ conn'[c] = "queued"
          /\ \A d \in Conns \ {c} : conn'[d] = conn[d]
      BY <2>6 DEF Send
    <3>4. Len(queue) \in Nat /\ \A i \in 1..Len(queue) : queue[i] \in Conns \ {c}
      BY <3>3
    <3>5. Capacity \in Nat
      BY TcpAssumption, FS_CardinalityType DEF TcpAssumption, Capacity
    <3>6. \A i \in 1..Len(queue') : i \in 1..Len(queue) \/ i = Len(queue) + 1
      BY <3>1, <3>4
    <3>7. \A i \in 1..Len(queue') : conn'[queue'[i]] = "queued"
      BY <3>1, <3>3, <3>4, <3>6
    <3>8. \A i, j \in 1..Len(queue') : queue'[i] = queue'[j] => i = j
      BY <3>1, <3>4, <3>6
    <3>9. Len(queue') <= Capacity
      BY <3>1, <3>2, <3>4, <3>5
    <3> QED
      BY <1>0, <3>7, <3>8, <3>9
  <2> QED
    BY <1>2, <2>1, <2>2, <2>3, <2>4, <2>5, <2>6 DEF DispatcherNext
<1>3. ASSUME NEW w \in Workers, WorkerRecv(w)
      PROVE  QueueInv'
  <2>1. /\ queue # <<>>
        /\ queue' = Tail(queue)
        /\ conn' = [conn EXCEPT ![Head(queue)] = "peeked"]
    BY <1>3 DEF WorkerRecv
  <2>2. /\ Len(queue') = Len(queue) - 1
        /\ Len(queue) \in Nat \ {0}
        /\ \A i \in 1..Len(queue') : queue'[i] = queue[i + 1]
        /\ Head(queue) = queue[1]
    BY <2>1
  <2>3. Capacity \in Nat
    BY TcpAssumption, FS_CardinalityType DEF TcpAssumption, Capacity
  <2>4. \A i \in 1..Len(queue') : queue'[i] \in Conns /\ queue'[i] # Head(queue)
    <3> TAKE i \in 1..Len(queue')
    <3>1. i + 1 \in 1..Len(queue) /\ 1 \in 1..Len(queue) /\ i + 1 # 1
      BY <2>2
    <3>2. queue[i + 1] \in Conns /\ queue[i + 1] # queue[1]
      BY <3>1
    <3> QED
      BY <2>2, <3>2
  <2> QED
    BY <1>0, <2>1, <2>2, <2>3, <2>4
<1>4. ASSUME NEW w \in Workers, WorkerRun(w) \/ WorkerInsert(w) \/ WorkerAbort(w)
      PROVE  QueueInv'
  BY <1>0, <1>4 DEF WorkerRun, WorkerInsert, WorkerAbort, connVars
<1>5. ASSUME NEW w \in Workers, WorkerSpawn(w) \/ WorkerFail(w) \/ WorkerShut(w)
      PROVE  QueueInv'
  BY <1>0, <1>5 DEF WorkerSpawn, WorkerFail, WorkerShut, HandInv
<1>6. ASSUME NEW c \in Conns, ConnNext(c) \/ ClientNext(c)
      PROVE  QueueInv'
  BY <1>0, <1>6, ConnMoves, ClientMoves DEF Live
<1>7. CASE UNCHANGED vars
  BY <1>0, <1>7 DEF vars, connVars
<1> QED
  BY <1>1, <1>2, <1>3, <1>4, <1>5, <1>6, <1>7 DEF Next, WorkerNext

(* Every queued connection is in the queue. *)
LEMMA QueuedStep ==
    ASSUME TypeOK, OwnerInv, HandInv, QueueInv, QueuedInv, [Next]_vars
    PROVE  QueuedInv'
<1> USE DEF TypeOK, QueuedInv
<1>1. ASSUME UNCHANGED queue, \A c \in Conns : conn'[c] = "queued" => conn[c] = "queued"
      PROVE  QueuedInv'
  BY <1>1
<1>2. CASE OwnerNext
  <2>1. UNCHANGED queue /\ \A c \in Conns : conn'[c] = "queued" => conn[c] = "queued"
    BY <1>2, OwnerMoves
  <2> QED
    BY <1>1, <2>1
<1>3. CASE DispatcherNext
  <2>1. CASE DispatcherRun \/ AcceptError
    BY <1>1, <2>1 DEF DispatcherRun, AcceptError, connVars
  <2>2. CASE AcceptInLog
    BY <1>1, <2>2 DEF AcceptInLog
  <2>3. CASE ShutDispatcher
    BY <1>1, <2>3, DroppingFact DEF ShutDispatcher
  <2>4. CASE Drained
    <3>1. \A c \in Conns : conn'[c] # "queued"
      BY <2>4, DroppingFact DEF Drained
    <3> QED
      BY <3>1
  <2>5. ASSUME NEW c \in Conns, Accept(c)
        PROVE  QueuedInv'
    BY <1>1, <2>5 DEF Accept
  <2>6. ASSUME NEW c \in Conns, Send(c)
        PROVE  QueuedInv'
    <3>1. /\ Len(queue) \in Nat
          /\ Len(queue') = Len(queue) + 1
          /\ \A i \in 1..Len(queue) : queue'[i] = queue[i]
          /\ queue'[Len(queue) + 1] = c
          /\ \A d \in Conns \ {c} : conn'[d] = conn[d]
      BY <2>6 DEF Send
    <3>2. Len(queue) + 1 \in 1..Len(queue') /\ 1..Len(queue) \subseteq 1..Len(queue')
      BY <3>1
    <3> QED
      BY <3>1, <3>2
  <2> QED
    BY <1>3, <2>1, <2>2, <2>3, <2>4, <2>5, <2>6 DEF DispatcherNext
<1>4. ASSUME NEW w \in Workers, WorkerRecv(w)
      PROVE  QueuedInv'
  <2>1. /\ Len(queue) \in Nat \ {0}
        /\ Len(queue') = Len(queue) - 1
        /\ \A i \in 1..Len(queue') : queue'[i] = queue[i + 1]
        /\ Head(queue) = queue[1] /\ Head(queue) \in Conns
    BY <1>4 DEF WorkerRecv
  <2>2. conn' = [conn EXCEPT ![Head(queue)] = "peeked"]
    BY <1>4 DEF WorkerRecv
  <2>3. SUFFICES ASSUME NEW c \in Conns, conn'[c] = "queued"
                 PROVE  \E i \in 1..Len(queue') : queue'[i] = c
    OBVIOUS
  <2>4. c # queue[1] /\ conn[c] = "queued"
    BY <2>1, <2>2, <2>3
  <2>5. PICK i \in 1..Len(queue) : queue[i] = c
    BY <2>4
  <2>6. i - 1 \in 1..Len(queue') /\ queue'[i - 1] = c
    BY <2>1, <2>4, <2>5
  <2> QED
    BY <2>6
<1>5. ASSUME NEW w \in Workers, WorkerNext(w), ~WorkerRecv(w)
      PROVE  QueuedInv'
  <2>1. CASE WorkerRun(w) \/ WorkerInsert(w) \/ WorkerAbort(w)
    BY <1>1, <2>1 DEF WorkerRun, WorkerInsert, WorkerAbort, connVars
  <2>2. CASE WorkerSpawn(w) \/ WorkerFail(w) \/ WorkerShut(w)
    <3>1. UNCHANGED queue /\ \A c \in Conns : conn'[c] = "queued" => conn[c] = "queued"
      BY <2>2 DEF WorkerSpawn, WorkerFail, WorkerShut, Classes
    <3> QED
      BY <1>1, <3>1
  <2> QED
    BY <1>5, <2>1, <2>2 DEF WorkerNext
<1>6. ASSUME NEW c \in Conns, ConnNext(c) \/ ClientNext(c)
      PROVE  QueuedInv'
  <2>1. UNCHANGED queue /\ \A d \in Conns : conn'[d] = "queued" => conn[d] = "queued"
    BY <1>6, ConnMoves, ClientMoves DEF Live, Over
  <2> QED
    BY <1>1, <2>1
<1>7. CASE UNCHANGED vars
  BY <1>1, <1>7 DEF vars, connVars
<1> QED
  BY <1>2, <1>3, <1>4, <1>5, <1>6, <1>7 DEF Next

(* Whatever its state, a connection has one place that answers for it.      *)
LEMMA ConnStep ==
    ASSUME TcpAssumption, TypeOK, OwnerInv, WorkersInv, HandInv, QueueInv, ConnInv, [Next]_vars
    PROVE  ConnInv'
<1> USE DEF TypeOK, ConnInv, Waiting, Live, Over, ConnSignal, Running
<1>1. CASE OwnerNext
  BY <1>1, OwnerMoves DEF OwnerNext, ReservePort, Listen, StopUnused, Stop, StopReturns, Drop, OwnerInv, SocketOpen
<1>2. CASE DispatcherNext
  <2>1. CASE DispatcherRun
    <3>1. /\ task = "spawned" /\ task' = "accepting"
          /\ UNCHANGED <<owner, hand, handles, conn, by, aborted>>
          /\ \A w \in Workers : worker[w] = "none"
      BY <2>1 DEF DispatcherRun, connVars, WorkersInv
    <3> QED
      BY <3>1 DEF SocketOpen
  <2>2. CASE AcceptError \/ AcceptInLog
    BY <2>2 DEF AcceptError, AcceptInLog, workerVars, connVars, SocketOpen
  <2>3. CASE ShutDispatcher
    BY <2>3, DroppingFact DEF ShutDispatcher, workerVars, SocketOpen
  <2>4. CASE Drained
    BY <2>4, DroppingFact DEF Drained, workerVars, SocketOpen, Joined
  <2>5. ASSUME NEW c \in Conns, Accept(c) \/ Send(c)
        PROVE  ConnInv'
    <3>1. CASE Accept(c)
      <4>1. /\ UNCHANGED <<owner, worker, hand, handles, by, aborted>>
            /\ task = "accepting" /\ task' = "sending"
            /\ conn[c] = "backlog" /\ conn'[c] = "pending"
            /\ \A d \in Conns \ {c} : conn'[d] = conn[d]
        BY <3>1 DEF Accept, workerVars
      <4>2. \A d \in Conns \ {c} : conn[d] # "pending"
        BY <4>1
      <4> QED
        BY <4>1, <4>2 DEF SocketOpen
    <3>2. CASE Send(c)
      <4>1. /\ UNCHANGED <<owner, worker, hand, handles, by, aborted>>
            /\ task = "sending" /\ task' = "accepting"
            /\ conn[c] = "pending" /\ conn'[c] = "queued"
            /\ \A d \in Conns \ {c} : conn'[d] = conn[d]
        BY <3>2 DEF Send, workerVars
      <4>2. \A d \in Conns \ {c} : conn[d] # "pending"
        BY <4>1
      <4> QED
        BY <4>1, <4>2 DEF SocketOpen
    <3> QED
      BY <2>5, <3>1, <3>2
  <2> QED
    BY <1>2, <2>1, <2>2, <2>3, <2>4, <2>5 DEF DispatcherNext
<1>3. ASSUME NEW w \in Workers, WorkerRun(w) \/ WorkerAbort(w)
      PROVE  ConnInv'
  BY <1>3 DEF WorkerRun, WorkerAbort, connVars, SocketOpen, HandInv
<1>4. ASSUME NEW w \in Workers, WorkerRecv(w)
      PROVE  ConnInv'
  <2>1. Head(queue) \in Conns /\ conn[Head(queue)] = "queued"
    BY <1>4 DEF WorkerRecv, QueueInv
  <2> QED
    BY <1>4, <2>1 DEF WorkerRecv, SocketOpen, HandInv
<1>5. ASSUME NEW w \in Workers, WorkerSpawn(w)
      PROVE  ConnInv'
  BY <1>5 DEF WorkerSpawn, Classes, SocketOpen, HandInv
<1>6. ASSUME NEW w \in Workers, WorkerInsert(w)
      PROVE  ConnInv'
  BY <1>6 DEF WorkerInsert, WithoutAddr, connVars, SocketOpen, HandInv
<1>7. ASSUME NEW w \in Workers, WorkerFail(w)
      PROVE  ConnInv'
  BY <1>7 DEF WorkerFail, SocketOpen, HandInv
<1>8. ASSUME NEW w \in Workers, WorkerShut(w)
      PROVE  ConnInv'
  BY <1>8 DEF WorkerShut, SocketOpen, HandInv
<1>9. ASSUME NEW c \in Conns, ConnNext(c)
      PROVE  ConnInv'
  <2>1. \A w \in Workers : handles'[w] \subseteq handles[w]
    BY <1>9, ConnHandles
  <2> QED
    BY <1>9, <2>1, ConnMoves DEF SocketOpen
<1>10. ASSUME NEW c \in Conns, ClientNext(c)
      PROVE  ConnInv'
  BY <1>10, ClientMoves DEF SocketOpen
<1>11. CASE UNCHANGED vars
  BY <1>11 DEF vars, workerVars, connVars, SocketOpen
<1> QED
  BY <1>1, <1>2, <1>3, <1>4, <1>5, <1>6, <1>7, <1>8, <1>9, <1>10, <1>11 DEF Next, WorkerNext

(* Nobody drops a waiting connection before the shutdown, and nobody closes  *)
(* a served one before its worker is over.                                   *)
LEMMA LossStep ==
    ASSUME TcpAssumption, TypeOK, OwnerInv, WorkersInv, HandInv, QueueInv, ConnInv, LossHasCause, [Next]_vars
    PROVE  LossHasCause'
<1> USE DEF TypeOK, LossHasCause, ConnSignal
<1>1. CASE OwnerNext
  BY <1>1, OwnerMoves
<1>2. CASE DispatcherNext
  <2>1. CASE DispatcherRun
    <3>1. /\ UNCHANGED <<owner, conn, by>>
          /\ \A w \in Workers : worker[w] = "none"
      BY <2>1 DEF DispatcherRun, connVars, WorkersInv
    <3> QED
      BY <3>1 DEF ShutSignal
  <2>2. CASE AcceptError \/ AcceptInLog
    BY <2>2 DEF AcceptError, AcceptInLog, workerVars, connVars, ShutSignal
  <2>3. CASE ShutDispatcher
    BY <2>3, DroppingFact DEF ShutDispatcher, workerVars, ShutSignal
  <2>4. CASE Drained
    BY <2>4, DroppingFact DEF Drained, workerVars, ShutSignal, OwnerInv, WorkerSignal
  <2>5. ASSUME NEW c \in Conns, Accept(c) \/ Send(c)
        PROVE  LossHasCause'
    BY <2>5 DEF Accept, Send, workerVars, ShutSignal
  <2> QED
    BY <1>2, <2>1, <2>2, <2>3, <2>4, <2>5 DEF DispatcherNext
<1>3. ASSUME NEW w \in Workers, WorkerRun(w) \/ WorkerInsert(w) \/ WorkerAbort(w)
      PROVE  LossHasCause'
  BY <1>3 DEF WorkerRun, WorkerInsert, WorkerAbort, connVars, ShutSignal
<1>4. ASSUME NEW w \in Workers, WorkerRecv(w)
      PROVE  LossHasCause'
  <2>1. Head(queue) \in Conns /\ conn[Head(queue)] = "queued"
    BY <1>4 DEF WorkerRecv, QueueInv
  <2> QED
    BY <1>4, <2>1 DEF WorkerRecv, ShutSignal
<1>5. ASSUME NEW w \in Workers, WorkerSpawn(w) \/ WorkerFail(w)
      PROVE  LossHasCause'
  BY <1>5 DEF WorkerSpawn, WorkerFail, Classes, ShutSignal, HandInv
<1>6. ASSUME NEW w \in Workers, WorkerShut(w)
      PROVE  LossHasCause'
  BY <1>6 DEF WorkerShut, ShutSignal, OwnerInv, HandInv
<1>7. ASSUME NEW c \in Conns, ConnNext(c)
      PROVE  LossHasCause'
  <2>1. conn'[c] # "dropped"
    BY <1>7, ConnMoves DEF Live, Over
  <2> QED
    BY <1>7, <2>1, ConnMoves DEF ShutSignal, ConnInv
<1>8. ASSUME NEW c \in Conns, ClientNext(c)
      PROVE  LossHasCause'
  BY <1>8, ClientMoves DEF ShutSignal
<1>9. CASE UNCHANGED vars
  BY <1>9 DEF vars, workerVars, connVars, ShutSignal
<1> QED
  BY <1>1, <1>2, <1>3, <1>4, <1>5, <1>6, <1>7, <1>8, <1>9 DEF Next, WorkerNext

(* A connection that a worker took stays with that worker, and once it is no *)
(* longer waiting it never waits again.                                      *)
LEMMA TakenForGood ==
    ASSUME TcpAssumption, TypeOK, OwnerInv, HandInv, QueueInv, ConnInv, [Next]_vars,
           NEW d \in Conns, by[d] \in Workers
    PROVE  by'[d] = by[d] /\ (conn[d] \notin Waiting => conn'[d] \notin Waiting)
<1> USE DEF TypeOK, Waiting
<1>1. CASE OwnerNext
  BY <1>1, OwnerMoves
<1>2. CASE DispatcherNext
  <2>1. CASE DispatcherRun \/ AcceptError \/ AcceptInLog
    BY <2>1 DEF DispatcherRun, AcceptError, AcceptInLog, connVars
  <2>2. CASE ShutDispatcher \/ Drained
    BY <2>2, DroppingFact DEF ShutDispatcher, Drained
  <2>3. ASSUME NEW c \in Conns, Accept(c) \/ Send(c)
        PROVE  by'[d] = by[d] /\ (conn[d] \notin Waiting => conn'[d] \notin Waiting)
    BY <2>3 DEF Accept, Send
  <2> QED
    BY <1>2, <2>1, <2>2, <2>3 DEF DispatcherNext
<1>3. ASSUME NEW w \in Workers, WorkerRecv(w)
      PROVE  by'[d] = by[d] /\ (conn[d] \notin Waiting => conn'[d] \notin Waiting)
  <2>1. Head(queue) \in Conns /\ conn[Head(queue)] = "queued"
    BY <1>3 DEF WorkerRecv, QueueInv
  <2>2. Head(queue) # d
    BY <2>1, TcpAssumption DEF ConnInv
  <2> QED
    BY <1>3, <2>1, <2>2 DEF WorkerRecv
<1>4. ASSUME NEW w \in Workers, WorkerNext(w), ~WorkerRecv(w)
      PROVE  by'[d] = by[d] /\ (conn[d] \notin Waiting => conn'[d] \notin Waiting)
  BY <1>4 DEF WorkerNext, WorkerRun, WorkerSpawn, WorkerInsert, WorkerFail, WorkerShut, WorkerAbort,
              Classes, connVars
<1>5. ASSUME NEW c \in Conns, ConnNext(c)
      PROVE  by'[d] = by[d] /\ (conn[d] \notin Waiting => conn'[d] \notin Waiting)
  BY <1>5, ConnMoves DEF Live, Over
<1>6. ASSUME NEW c \in Conns, ClientNext(c)
      PROVE  by'[d] = by[d] /\ (conn[d] \notin Waiting => conn'[d] \notin Waiting)
  BY <1>6, ClientMoves, TcpAssumption DEF ConnInv
<1>7. CASE UNCHANGED vars
  BY <1>7 DEF vars, connVars
<1> QED
  BY <1>1, <1>2, <1>3, <1>4, <1>5, <1>6, <1>7 DEF Next

(* A live connection is in its worker's hand, then in its map, and leaves the *)
(* map only with its task or because of another connection of its address.    *)
LEMMA TrackStep ==
    ASSUME TcpAssumption, TypeOK, OwnerInv, WorkersInv, HandInv, QueueInv, ConnInv, LiveIsTracked, [Next]_vars
    PROVE  LiveIsTracked'
<1>1. SUFFICES ASSUME NEW c \in Conns, conn'[c] \in Live,
                      ~ConnSignal(by[c])', ~AddrReused(c)'
               PROVE  hand'[by'[c]] = c \/ c \in handles'[by'[c]]
  BY DEF LiveIsTracked
<1> DEFINE Tracked == hand[by[c]] = c \/ c \in handles[by[c]]
<1> DEFINE TrackedNow == hand'[by'[c]] = c \/ c \in handles'[by'[c]]
<1>2. AddrReused(c) /\ by[c] \in Workers => AddrReused(c)'
  BY TakenForGood DEF AddrReused
<1>3. conn[c] \in Live /\ ~ConnSignal(by[c]) => by[c] \in Workers /\ Tracked
  BY <1>1, <1>2 DEF LiveIsTracked, ConnInv
<1> HIDE DEF Tracked
<1> USE DEF TypeOK, Live
<1>4. CASE OwnerNext
  BY <1>1, <1>3, <1>4, OwnerMoves DEF Tracked, ConnSignal
<1>5. CASE DispatcherNext
  <2>1. CASE DispatcherRun
    <3>1. UNCHANGED <<hand, handles, conn, by>> /\ \A w \in Workers : worker[w] = "none"
      BY <2>1 DEF DispatcherRun, connVars, WorkersInv
    <3>2. ~ConnSignal(by[c])
      BY <1>1, <3>1 DEF ConnSignal, ConnInv, Over
    <3> QED
      BY <1>1, <1>3, <3>1, <3>2 DEF Tracked
  <2>2. CASE AcceptError \/ AcceptInLog
    BY <1>1, <1>3, <2>2 DEF AcceptError, AcceptInLog, workerVars, connVars, ConnSignal, Tracked
  <2>3. CASE ShutDispatcher \/ Drained
    BY <1>1, <1>3, <2>3, DroppingFact DEF ShutDispatcher, Drained, workerVars, ConnSignal, Tracked
  <2>4. ASSUME NEW d \in Conns, Accept(d) \/ Send(d)
        PROVE  TrackedNow
    BY <1>1, <1>3, <2>4 DEF Accept, Send, workerVars, ConnSignal, Tracked
  <2> QED
    BY <1>5, <2>1, <2>2, <2>3, <2>4 DEF DispatcherNext
<1>6. ASSUME NEW w \in Workers, WorkerRun(w) \/ WorkerAbort(w)
      PROVE  TrackedNow
  <2>1. CASE WorkerRun(w)
    BY <1>1, <1>3, <2>1 DEF WorkerRun, connVars, ConnSignal, Tracked
  <2>2. CASE WorkerAbort(w)
    <3>1. /\ UNCHANGED <<hand, conn, by>>
          /\ worker'[w] = "ended" /\ worker[w] = "closing"
          /\ \A v \in Workers \ {w} : worker'[v] = worker[v] /\ handles'[v] = handles[v]
      BY <2>2 DEF WorkerAbort
    <3>2. by[c] # w
      BY <1>1, <3>1 DEF ConnSignal
    <3>3. ~ConnSignal(by[c])
      BY <1>1, <3>1, <3>2 DEF ConnSignal, ConnInv
    <3> QED
      BY <1>1, <1>3, <3>1, <3>2, <3>3 DEF Tracked
  <2> QED
    BY <1>6, <2>1, <2>2
<1>7. ASSUME NEW w \in Workers, WorkerRecv(w)
      PROVE  TrackedNow
  <2>1. Head(queue) \in Conns /\ conn[Head(queue)] = "queued"
    BY <1>7 DEF WorkerRecv, QueueInv
  <2>2. hand[w] \notin Conns
    BY <1>7 DEF WorkerRecv, HandInv
  <2> QED
    BY <1>1, <1>3, <1>7, <2>1, <2>2 DEF WorkerRecv, ConnSignal, Tracked
<1>8. ASSUME NEW w \in Workers, WorkerSpawn(w)
      PROVE  TrackedNow
  <2>1. CASE c = hand[w]
    BY <1>8, <2>1 DEF WorkerSpawn, HandInv
  <2>2. CASE c # hand[w]
    BY <1>1, <1>3, <1>8, <2>2 DEF WorkerSpawn, HandInv, ConnSignal, Tracked
  <2> QED
    BY <2>1, <2>2
<1>9. ASSUME NEW w \in Workers, WorkerInsert(w)
      PROVE  TrackedNow
  <2>1. by[c] \in Workers /\ Tracked
    BY <1>1, <1>3, <1>9 DEF WorkerInsert, connVars, ConnSignal
  <2>2. CASE c = hand[w] \/ by[c] # w
    BY <1>9, <2>1, <2>2 DEF WorkerInsert, HandInv, connVars, Tracked
  <2>3. CASE c # hand[w] /\ by[c] = w
    <3>1. hand[w] \in Conns /\ by[hand[w]] = w /\ conn[hand[w]] \in Live \cup Over
      BY <1>9 DEF WorkerInsert, HandInv
    <3>2. conn'[hand[w]] \notin Waiting /\ by'[hand[w]] = w /\ by'[c] = w
      BY <1>9, <2>3, <3>1 DEF WorkerInsert, connVars, Waiting, Over
    <3>3. ClientAddr(hand[w]) # ClientAddr(c)
      BY <1>1, <2>3, <3>1, <3>2 DEF AddrReused
    <3> QED
      BY <1>9, <2>1, <2>3, <3>2, <3>3 DEF WorkerInsert, WithoutAddr, Tracked
  <2> QED
    BY <2>2, <2>3
<1>10. ASSUME NEW w \in Workers, WorkerFail(w) \/ WorkerShut(w)
       PROVE  TrackedNow
  <2>1. /\ UNCHANGED by
        /\ worker'[w] \in {"failed", "closing"} /\ worker[w] \in {"spawned", "recv", "peek"}
        /\ \A v \in Workers \ {w} :
              worker'[v] = worker[v] /\ handles'[v] = handles[v] /\ hand'[v] = hand[v]
    BY <1>10 DEF WorkerFail, WorkerShut
  <2>2. conn[c] \in Live
    <3>1. CASE WorkerFail(w)
      BY <1>1, <3>1 DEF WorkerFail, HandInv
    <3>2. CASE WorkerShut(w)
      BY <1>1, <3>2 DEF WorkerShut, HandInv
    <3> QED
      BY <1>10, <3>1, <3>2
  <2>3. by[c] # w
    BY <1>1, <2>1 DEF ConnSignal
  <2>4. ~ConnSignal(by[c])
    BY <1>1, <2>1, <2>2, <2>3 DEF ConnSignal, ConnInv
  <2> QED
    BY <1>3, <2>1, <2>2, <2>3, <2>4 DEF Tracked
<1>11. ASSUME NEW d \in Conns, ConnNext(d)
       PROVE  TrackedNow
  <2>1. conn[c] \in Live /\ ~ConnSignal(by[c]) /\ by' = by /\ hand' = hand
    BY <1>1, <1>11, ConnMoves DEF ConnSignal
  <2>2. CASE c \in handles[by[c]] /\ c \notin handles'[by[c]]
    <3>1. by[c] = by[d] /\ ClientAddr(c) = ClientAddr(d) /\ conn'[d] = "served"
      BY <1>3, <1>11, <2>1, <2>2, ConnHandles
    <3>2. c # d
      BY <1>1, <3>1
    <3> QED
      BY <1>1, <2>1, <3>1, <3>2 DEF AddrReused, Waiting
  <2>3. CASE ~(c \in handles[by[c]] /\ c \notin handles'[by[c]])
    BY <1>3, <2>1, <2>3 DEF Tracked
  <2> QED
    BY <2>2, <2>3
<1>12. ASSUME NEW d \in Conns, ClientNext(d)
       PROVE  TrackedNow
  BY <1>1, <1>3, <1>12, ClientMoves DEF ConnSignal, Tracked
<1>13. CASE UNCHANGED vars
  BY <1>1, <1>3, <1>13 DEF vars, workerVars, connVars, ConnSignal, Tracked
<1> QED
  BY <1>4, <1>5, <1>6, <1>7, <1>8, <1>9, <1>10, <1>11, <1>12, <1>13 DEF Next, WorkerNext

-----------------------------------------------------------------------------
(* The theorems.                                                           *)

(* The inductive invariant: types, and who answers for what, in every        *)
(* reachable state of the listener (listener/tcp.rs 154-348, worker/tcp.rs). *)
THEOREM InductiveInvariant == Spec => []IndInv
<1>1. Init => IndInv
  <2> SUFFICES ASSUME Init PROVE IndInv
    OBVIOUS
  <2> USE DEF Init
  <2>1. TypeOK
    <3>1. <<>> \in Seq(Conns)
      OBVIOUS
    <3> QED
      BY <3>1 DEF TypeOK, OwnerStates, TaskStates, WorkerStates, PeerStates, ConnStates
  <2>2. OwnerInv /\ WorkersInv
    BY DEF OwnerInv, WorkersInv, WorkerSignal
  <2>3. HandInv /\ ConnInv
    BY TcpAssumption DEF HandInv, ConnInv, Live, Over
  <2>4. QueueInv
    <3>1. Capacity \in Nat
      BY TcpAssumption, FS_CardinalityType DEF TcpAssumption, Capacity
    <3> QED
      BY <3>1 DEF QueueInv
  <2>6. QueuedInv
    BY DEF QueuedInv
  <2>5. LossHasCause /\ LiveIsTracked
    BY DEF LossHasCause, LiveIsTracked, Live
  <2> QED
    BY <2>1, <2>2, <2>3, <2>4, <2>5, <2>6 DEF IndInv
<1>2. IndInv /\ [Next]_vars => IndInv'
  BY TcpAssumption, TypeStep, OwnerStep, WorkersStep, HandStep, QueueStep, QueuedStep, ConnStep, LossStep, TrackStep
  DEF IndInv
<1> QED
  BY <1>1, <1>2, PTL DEF Spec

(* The variables stay within their types. *)
THEOREM TypeCorrect == Spec => []TypeOK
<1>1. IndInv => TypeOK
  BY DEF IndInv
<1> QED
  BY <1>1, InductiveInvariant, PTL

(* When stop() has returned (listener/tcp.rs 196-209) no dispatcher, no      *)
(* worker and no waiting connection is left.                                 *)
THEOREM StopIsClean == Spec => []StopLeavesNoWork
<1>1. IndInv => StopLeavesNoWork
  <2> SUFFICES ASSUME IndInv, owner = "stopped"
               PROVE  task \in {"none", "done"} /\ Joined /\ \A c \in Conns : conn[c] \notin Waiting
    BY DEF StopLeavesNoWork
  <2>1. task \in {"none", "done"}
    BY DEF IndInv, OwnerInv
  <2>2. Joined
    BY <2>1 DEF IndInv, WorkersInv, Joined
  <2>3. ASSUME NEW c \in Conns
        PROVE  conn[c] \notin Waiting
    BY <2>1, <2>2, <2>3 DEF IndInv, ConnInv, Waiting, SocketOpen, Running, Joined
  <2> QED
    BY <2>1, <2>2, <2>3
<1> QED
  BY <1>1, InductiveInvariant, PTL

(* No waiting connection is dropped before a shutdown, and no served one is  *)
(* closed by the failure of a worker that is not its own (worker/tcp.rs      *)
(* 72-80 and 97-107).                                                        *)
THEOREM LossIsCaused == Spec => []LossHasCause
<1>1. IndInv => LossHasCause
  BY DEF IndInv
<1> QED
  BY <1>1, InductiveInvariant, PTL

(* stop() of a worker can abort every task it spawned, except where an       *)
(* address was used twice (worker/tcp.rs 104, 123, 129-131 and 141-147).     *)
THEOREM LiveAreTracked == Spec => []LiveIsTracked
<1>1. IndInv => LiveIsTracked
  BY DEF IndInv
<1> QED
  BY <1>1, InductiveInvariant, PTL

(* The dispatcher never holds more than the queue and one more connection    *)
(* (listener/tcp.rs 284-287 and 316-319), whatever the workers do.           *)
THEOREM BackpressureHolds == Spec => []Backpressure
<1>1. ASSUME IndInv
      PROVE  Backpressure
  <2> DEFINE Q == {c \in Conns : conn[c] = "queued"}
             P == {c \in Conns : conn[c] = "pending"}
             W == {c \in Conns : conn[c] \in {"pending", "queued"}}
             Slots == 1..Len(queue)
  <2>1. Capacity \in Nat /\ Len(queue) \in Nat /\ Len(queue) <= Capacity
    BY <1>1, TcpAssumption, FS_CardinalityType DEF TcpAssumption, Capacity, IndInv, TypeOK, QueueInv
  <2>2. IsFiniteSet(Slots) /\ Cardinality(Slots) = Len(queue)
    <3>1. 1 \in Int /\ Len(queue) \in Int
      BY <2>1
    <3>2. /\ IsFiniteSet(1..Len(queue))
          /\ Cardinality(1..Len(queue)) = IF 1 > Len(queue) THEN 0 ELSE Len(queue) - 1 + 1
      BY <3>1, FS_Interval, Zenon
    <3> QED
      BY <2>1, <3>2
  <2>3. IsFiniteSet(Q) /\ Cardinality(Q) <= Len(queue)
    <3> DEFINE f == [i \in Slots |-> queue[i]]
    <3>1. f \in Surjection(Slots, Q)
      <4>1. \A i \in Slots : queue[i] \in Q
        BY <1>1 DEF IndInv, TypeOK, QueueInv
      <4>2. \A c \in Q : \E i \in Slots : f[i] = c
        BY <1>1 DEF IndInv, QueuedInv
      <4> QED
        BY <4>1, <4>2 DEF Surjection
    <3> HIDE DEF f, Q, Slots
    <3> QED
      BY <2>2, <3>1, FS_Surjection
  <2>4. \E x : W \subseteq Q \cup {x}
    <3>1. CASE P = {}
      BY <3>1
    <3>2. CASE P # {}
      <4>1. PICK x \in Conns : conn[x] = "pending"
        BY <3>2
      <4>2. \A d \in Conns : conn[d] = "pending" => d = x
        BY <1>1, <4>1 DEF IndInv, ConnInv
      <4> QED
        BY <4>2
    <3> QED
      BY <3>1, <3>2
  <2> HIDE DEF Q, W
  <2>5. PICK x : W \subseteq Q \cup {x}
    BY <2>4
  <2>6. IsFiniteSet(Q \cup {x}) /\ Cardinality(Q \cup {x}) <= Len(queue) + 1
    <3>1. /\ IsFiniteSet(Q \cup {x})
          /\ Cardinality(Q \cup {x}) = IF x \in Q THEN Cardinality(Q) ELSE Cardinality(Q) + 1
      BY <2>3, FS_AddElement
    <3>2. Cardinality(Q) \in Nat
      BY <2>3, FS_CardinalityType
    <3> QED
      BY <2>1, <2>3, <3>1, <3>2
  <2>7. IsFiniteSet(W) /\ Cardinality(W) <= Cardinality(Q \cup {x})
    BY <2>5, <2>6, FS_Subset
  <2>8. Cardinality(W) \in Nat /\ Cardinality(Q \cup {x}) \in Nat
    BY <2>6, <2>7, FS_CardinalityType
  <2>9. Cardinality(W) <= Capacity + 1
    BY <2>1, <2>6, <2>7, <2>8
  <2> QED
    BY <2>9 DEF W, Backpressure
<1> QED
  BY <1>1, InductiveInvariant, PTL

-----------------------------------------------------------------------------
(* The refinement of ListenerContract.                                     *)

begunBar == {c \in Conns : conn[c] \in Live \cup Over}
overBar  == {c \in Conns : conn[c] \in Over}

(* Every step of the listener is a step of the contract or leaves it alone.  *)
LEMMA ContractStep ==
    ASSUME TcpAssumption, IndInv, [Next]_vars
    PROVE  [Contract!Next]_(Contract!vars)
<1> USE DEF IndInv, TypeOK
<1> DEFINE Step == [Contract!Next]_(Contract!vars)
<1>0. ASSUME phaseBar' = phaseBar, begunBar' = begunBar, overBar' = overBar
      PROVE  Step
  BY <1>0 DEF Contract!vars, begunBar, overBar
<1>1. CASE OwnerNext
  <2>1. begunBar' = begunBar /\ overBar' = overBar
    BY <1>1, OwnerMoves DEF begunBar, overBar, Live, Over
  <2>2. CASE ReservePort
    <3>1. phaseBar' = phaseBar
      BY <2>2 DEF ReservePort, phaseBar
    <3> QED
      BY <1>0, <2>1, <3>1
  <2>3. CASE Listen
    <3>1. phaseBar = "idle" /\ phaseBar' = "open"
      BY <2>3 DEF Listen, phaseBar
    <3> QED
      BY <2>1, <3>1 DEF Contract!Next, Contract!Open, begunBar, overBar
  <2>4. CASE StopUnused
    <3>1. phaseBar = "idle" /\ phaseBar' = "closed"
      BY <2>4 DEF StopUnused, phaseBar, OwnerInv
    <3> QED
      BY <2>1, <3>1 DEF Contract!Next, Contract!Discard, begunBar, overBar
  <2>5. CASE Stop
    <3>1. phaseBar = "open" /\ phaseBar' = "closing"
      BY <2>5 DEF Stop, phaseBar, OwnerInv, WorkerSignal, ShutSignal
    <3> QED
      BY <2>1, <3>1 DEF Contract!Next, Contract!Shut, begunBar, overBar
  <2>6. CASE StopReturns
    <3>1. phaseBar' = phaseBar
      BY <2>6 DEF StopReturns, phaseBar
    <3> QED
      BY <1>0, <2>1, <3>1
  <2>7. CASE Drop
    <3>1. CASE owner \in {"created", "reserved"}
      <4>1. phaseBar = "idle" /\ phaseBar' = "closed"
        BY <2>7, <3>1 DEF Drop, phaseBar, OwnerInv
      <4> QED
        BY <2>1, <4>1 DEF Contract!Next, Contract!Discard, begunBar, overBar
    <3>2. CASE owner = "listening"
      <4>1. phaseBar = "open" /\ phaseBar' = "closing"
        BY <2>7, <3>2 DEF Drop, phaseBar, OwnerInv, WorkerSignal, ShutSignal
      <4> QED
        BY <2>1, <4>1 DEF Contract!Next, Contract!Shut, begunBar, overBar
    <3>3. CASE owner = "stopping"
      <4>1. phaseBar' = phaseBar
        BY <2>7, <3>3 DEF Drop, phaseBar
      <4> QED
        BY <1>0, <2>1, <4>1
    <3> QED
      BY <2>7, <3>1, <3>2, <3>3 DEF Drop, OwnerStates
  <2> QED
    BY <1>1, <2>2, <2>3, <2>4, <2>5, <2>6, <2>7 DEF OwnerNext
<1>2. CASE DispatcherNext
  <2>1. begunBar' = begunBar /\ overBar' = overBar
    <3>1. CASE DispatcherRun \/ AcceptError \/ AcceptInLog
      BY <3>1 DEF DispatcherRun, AcceptError, AcceptInLog, connVars, begunBar, overBar, Live, Over
    <3>2. CASE ShutDispatcher \/ Drained
      BY <3>2, DroppingFact DEF ShutDispatcher, Drained, begunBar, overBar, Live, Over
    <3>3. ASSUME NEW c \in Conns, Accept(c) \/ Send(c)
          PROVE  begunBar' = begunBar /\ overBar' = overBar
      BY <3>3 DEF Accept, Send, begunBar, overBar, Live, Over
    <3> QED
      BY <1>2, <3>1, <3>2, <3>3 DEF DispatcherNext
  <2>2. CASE Drained
    <3>1. phaseBar = "closing" /\ phaseBar' = "closed"
      BY <2>2 DEF Drained, phaseBar, OwnerInv, WorkerSignal, ShutSignal
    <3> QED
      BY <2>1, <3>1 DEF Contract!Next, Contract!Finish, begunBar, overBar
  <2>3. CASE ~Drained
    <3>1. UNCHANGED owner /\ task \notin {"none", "done"} /\ task' \notin {"none", "done"}
      BY <1>2, <2>3 DEF DispatcherNext, DispatcherRun, AcceptError, AcceptInLog, ShutDispatcher,
                        Accept, Send, Running
    <3>2. phaseBar' = phaseBar
      BY <3>1 DEF phaseBar
    <3> QED
      BY <1>0, <2>1, <3>2
  <2> QED
    BY <2>2, <2>3
<1>3. ASSUME NEW w \in Workers, WorkerNext(w)
      PROVE  Step
  <2>1. UNCHANGED <<owner, task>>
    BY <1>3 DEF WorkerNext, WorkerRun, WorkerRecv, WorkerSpawn, WorkerInsert, WorkerFail, WorkerShut, WorkerAbort
  <2>2. phaseBar' = phaseBar
    BY <2>1 DEF phaseBar
  <2>3. CASE WorkerSpawn(w)
    <3>1. /\ hand[w] \in Conns
          /\ conn[hand[w]] = "peeked"
          /\ conn'[hand[w]] \in Live
          /\ \A d \in Conns \ {hand[w]} : conn'[d] = conn[d]
          /\ worker[w] = "peek"
      BY <2>3 DEF WorkerSpawn, Classes, HandInv, Live
    <3>2. phaseBar \in {"open", "closing"}
      <4>1. task \notin {"none", "spawned", "done"}
        BY <3>1 DEF WorkersInv, Joined
      <4>2. owner \notin {"created", "reserved"}
        BY <4>1 DEF OwnerInv
      <4> QED
        BY <4>1, <4>2 DEF phaseBar
    <3>3. hand[w] \in Conns \ begunBar /\ begunBar' = begunBar \cup {hand[w]} /\ overBar' = overBar
      BY <3>1 DEF begunBar, overBar, Live, Over
    <3> QED
      BY <2>2, <3>1, <3>2, <3>3 DEF Contract!Next, Contract!Begin, begunBar, overBar
  <2>4. CASE ~WorkerSpawn(w)
    <3>1. CASE WorkerRecv(w)
      <4>1. Head(queue) \in Conns /\ conn[Head(queue)] = "queued"
        BY <3>1 DEF WorkerRecv, QueueInv
      <4>2. begunBar' = begunBar /\ overBar' = overBar
        BY <3>1, <4>1 DEF WorkerRecv, begunBar, overBar, Live, Over
      <4> QED
        BY <1>0, <2>2, <4>2
    <3>2. CASE ~WorkerRecv(w)
      <4>1. begunBar' = begunBar /\ overBar' = overBar
        BY <1>3, <2>4, <3>2 DEF WorkerNext, WorkerRun, WorkerInsert, WorkerFail, WorkerShut, WorkerAbort,
                                HandInv, connVars, begunBar, overBar, Live, Over
      <4> QED
        BY <1>0, <2>2, <4>1
    <3> QED
      BY <3>1, <3>2
  <2> QED
    BY <2>3, <2>4
<1>4. ASSUME NEW c \in Conns, ConnNext(c)
      PROVE  Step
  <2>1. phaseBar' = phaseBar
    BY <1>4, ConnMoves DEF phaseBar
  <2>2. begunBar' = begunBar
    BY <1>4, ConnMoves DEF begunBar
  <2>3. CASE conn'[c] \in Live
    <3>1. overBar' = overBar
      BY <1>4, <2>3, ConnMoves DEF overBar, Live, Over
    <3> QED
      BY <1>0, <2>1, <2>2, <3>1
  <2>4. CASE conn'[c] \in Over
    <3>1. c \in begunBar \ overBar /\ overBar' = overBar \cup {c}
      BY <1>4, <2>4, ConnMoves DEF begunBar, overBar, Live, Over
    <3> QED
      BY <2>1, <2>2, <3>1 DEF Contract!Next, Contract!End, begunBar, overBar
  <2> QED
    BY <1>4, <2>3, <2>4, ConnMoves
<1>5. ASSUME NEW c \in Conns, ClientNext(c)
      PROVE  Step
  <2>1. phaseBar' = phaseBar
    BY <1>5, ClientMoves DEF phaseBar
  <2>2. begunBar' = begunBar /\ overBar' = overBar
    BY <1>5, ClientMoves DEF begunBar, overBar, Live, Over
  <2> QED
    BY <1>0, <2>1, <2>2
<1>6. CASE UNCHANGED vars
  <2>1. phaseBar' = phaseBar /\ begunBar' = begunBar /\ overBar' = overBar
    BY <1>6 DEF vars, connVars, phaseBar, begunBar, overBar
  <2> QED
    BY <1>0, <2>1
<1> QED
  BY <1>1, <1>2, <1>3, <1>4, <1>5, <1>6 DEF Next

(* The listener keeps the safety half of its contract: connections begin     *)
(* only while it runs, once, and end once; it closes only when it is asked   *)
(* to (listener/tcp.rs 154-209 and 283-348, worker/tcp.rs 59-150).           *)
THEOREM KeepsContract == Spec => Contract!Init /\ [][Contract!Next]_(Contract!vars)
<1>1. Init => Contract!Init
  BY DEF Init, Contract!Init, phaseBar, Live, Over
<1>2. IndInv /\ [Next]_vars => [Contract!Next]_(Contract!vars)
  BY TcpAssumption, ContractStep
<1> QED
  BY <1>1, <1>2, InductiveInvariant, PTL DEF Spec

-----------------------------------------------------------------------------
(* What a step of the listener may never do.                               *)

(* how far a connection has come *)
Progress(s) ==
    CASE s = "absent"           -> 0
      [] s = "backlog"          -> 1
      [] s = "pending"          -> 2
      [] s = "queued"           -> 3
      [] s = "peeked"           -> 4
      [] s = "tls"              -> 5
      [] s \in {"idle", "busy"} -> 6
      [] OTHER                  -> 7

(* A connection only goes forward, but for the alternation of its requests:  *)
(* it is accepted, queued, looked at and given a task at most once each, its *)
(* worker is chosen for good, and one that is over or lost stays so.         *)
GoesForward(c) ==
    /\ \/ conn'[c] = conn[c]
       \/ {conn[c], conn'[c]} \subseteq {"idle", "busy"}
       \/ Progress(conn[c]) < Progress(conn'[c])
    /\ by[c] # None => by'[c] = by[c]
    /\ c \in aborted => c \in aborted'

ConnectionsGoForward == \A c \in Conns : GoesForward(c)

LEMMA ForwardStep ==
    ASSUME TcpAssumption, IndInv, [Next]_vars
    PROVE  ConnectionsGoForward
<1> SUFFICES ASSUME NEW c \in Conns
             PROVE  GoesForward(c)
  BY DEF ConnectionsGoForward
<1> USE DEF IndInv, TypeOK
<1>0. ASSUME UNCHANGED <<by, aborted>>,
             conn'[c] = conn[c] \/ Progress(conn[c]) < Progress(conn'[c])
      PROVE  GoesForward(c)
  BY <1>0 DEF GoesForward
<1>1. CASE OwnerNext
  <2>1. UNCHANGED <<by, aborted>> /\ (conn'[c] = conn[c] \/ (conn[c] = "backlog" /\ conn'[c] = "dropped"))
    BY <1>1, OwnerMoves
  <2> QED
    BY <1>0, <2>1 DEF Progress
<1>2. CASE DispatcherRun \/ AcceptError \/ AcceptInLog
  <2>1. UNCHANGED <<by, aborted>> /\ (conn'[c] = conn[c] \/ (conn[c] = "backlog" /\ conn'[c] = "discarded"))
    BY <1>2 DEF DispatcherRun, AcceptError, AcceptInLog, connVars
  <2> QED
    BY <1>0, <2>1 DEF Progress
<1>3. CASE ShutDispatcher \/ Drained
  <2>1. UNCHANGED <<by, aborted>>
    BY <1>3 DEF ShutDispatcher, Drained
  <2>2. conn'[c] = conn[c] \/ (conn[c] \in {"pending", "backlog", "queued"} /\ conn'[c] = "dropped")
    BY <1>3, DroppingFact DEF ShutDispatcher, Drained
  <2> QED
    BY <1>0, <2>1, <2>2 DEF Progress
<1>4. ASSUME NEW d \in Conns, Accept(d) \/ Send(d)
      PROVE  GoesForward(c)
  <2>1. UNCHANGED <<by, aborted>>
    BY <1>4 DEF Accept, Send
  <2>2. \/ conn'[c] = conn[c]
        \/ conn[c] = "backlog" /\ conn'[c] = "pending"
        \/ conn[c] = "pending" /\ conn'[c] = "queued"
    BY <1>4 DEF Accept, Send
  <2> QED
    BY <1>0, <2>1, <2>2 DEF Progress
<1>5. ASSUME NEW w \in Workers, WorkerRecv(w)
      PROVE  GoesForward(c)
  <2>1. Head(queue) \in Conns /\ conn[Head(queue)] = "queued" /\ by[Head(queue)] = None
    BY <1>5 DEF WorkerRecv, QueueInv, ConnInv
  <2>2. /\ aborted' = aborted
        /\ conn' = [conn EXCEPT ![Head(queue)] = "peeked"]
        /\ by' = [by EXCEPT ![Head(queue)] = w]
    BY <1>5 DEF WorkerRecv
  <2>3. CASE c = Head(queue)
    <3>1. Progress(conn[c]) = 3 /\ Progress(conn'[c]) = 4
      BY <2>1, <2>2, <2>3 DEF Progress
    <3> QED
      BY <2>1, <2>2, <2>3, <3>1 DEF GoesForward
  <2>4. CASE c # Head(queue)
    BY <2>2, <2>4 DEF GoesForward
  <2> QED
    BY <2>3, <2>4
<1>6. ASSUME NEW w \in Workers, WorkerSpawn(w) \/ WorkerFail(w) \/ WorkerShut(w)
      PROVE  GoesForward(c)
  <2>1. UNCHANGED <<by, aborted>>
    BY <1>6 DEF WorkerSpawn, WorkerFail, WorkerShut
  <2>2. conn'[c] = conn[c] \/ (conn[c] = "peeked" /\ conn'[c] \in {"tls", "idle", "reset", "dropped"})
    BY <1>6 DEF WorkerSpawn, WorkerFail, WorkerShut, Classes, HandInv
  <2> QED
    BY <1>0, <2>1, <2>2 DEF Progress
<1>7. ASSUME NEW w \in Workers, WorkerRun(w) \/ WorkerInsert(w) \/ WorkerAbort(w)
      PROVE  GoesForward(c)
  BY <1>7 DEF WorkerRun, WorkerInsert, WorkerAbort, connVars, GoesForward
<1>8. ASSUME NEW d \in Conns, ConnNext(d)
      PROVE  GoesForward(c)
  <2>1. UNCHANGED <<by, aborted>>
    BY <1>8, ConnMoves
  <2>2. \/ conn'[c] = conn[c]
        \/ {conn[c], conn'[c]} \subseteq {"idle", "busy"}
        \/ conn[c] = "tls" /\ conn'[c] \in {"idle"} \cup Over
        \/ conn[c] \in {"idle", "busy"} /\ conn'[c] \in Over
    BY <1>8 DEF ConnNext, TlsAccept, TlsFail, RequestStart, RequestDone, HandlerPanics, ServeEnd,
                ShutConn, CancelConn, Moves, Over
  <2>3. CASE {conn[c], conn'[c]} \subseteq {"idle", "busy"}
    BY <2>1, <2>3 DEF GoesForward
  <2> QED
    BY <1>0, <2>1, <2>2, <2>3 DEF Progress, Over
<1>9. ASSUME NEW d \in Conns, ClientNext(d)
      PROVE  GoesForward(c)
  <2>1. UNCHANGED <<by, aborted>> /\ (conn'[c] = conn[c] \/ (conn[c] = "absent" /\ conn'[c] = "backlog"))
    BY <1>9, ClientMoves
  <2> QED
    BY <1>0, <2>1 DEF Progress
<1>10. CASE UNCHANGED vars
  BY <1>10 DEF vars, connVars, GoesForward
<1> QED
  BY <1>1, <1>2, <1>3, <1>4, <1>5, <1>6, <1>7, <1>8, <1>9, <1>10
  DEF Next, DispatcherNext, WorkerNext

(* A stream moves through accept(), the channel, recv() and the task that is *)
(* spawned for it, and never comes back (listener/tcp.rs 298-322, worker/    *)
(* tcp.rs 67-132): no connection is served twice, or by two workers.         *)
THEOREM ConnectionsAreServedOnce == Spec => [][ConnectionsGoForward]_vars
<1>1. IndInv /\ [Next]_vars => [ConnectionsGoForward]_vars
  BY TcpAssumption, ForwardStep
<1> QED
  BY <1>1, InductiveInvariant, PTL DEF Spec


(* stop() or the drop of the value has had its whole effect *)
Ended == owner \in {"stopped", "dropped"} /\ task \in {"none", "done"}

(* The end is final: nothing is accepted, queued or given a task any more,   *)
(* and of the connections only those with a task still change.               *)
EndIsFinal ==
    Ended =>
        /\ Ended'
        /\ UNCHANGED <<queue, worker, hand, aborted>>
        /\ \A c \in Conns : conn'[c] # conn[c] => conn[c] \in Live

LEMMA FinalStep ==
    ASSUME IndInv, [Next]_vars
    PROVE  EndIsFinal
<1> SUFFICES ASSUME Ended
             PROVE  /\ Ended'
                    /\ UNCHANGED <<queue, worker, hand, aborted>>
                    /\ \A c \in Conns : conn'[c] # conn[c] => conn[c] \in Live
  BY DEF EndIsFinal
<1> USE DEF IndInv, TypeOK, Ended
<1>0. ~SocketOpen /\ \A w \in Workers : worker[w] \in {"none", "ended", "failed"}
  BY DEF SocketOpen, WorkersInv, Joined
<1>1. CASE OwnerNext
  BY <1>1 DEF OwnerNext, ReservePort, Listen, StopUnused, Stop, StopReturns, Drop, workerVars, connVars
<1>2. CASE DispatcherNext
  BY <1>2 DEF DispatcherNext, DispatcherRun, AcceptError, AcceptInLog, ShutDispatcher, Drained,
              Accept, Send, Running
<1>3. ASSUME NEW w \in Workers, WorkerNext(w)
      PROVE  FALSE
  BY <1>0, <1>3 DEF WorkerNext, WorkerRun, WorkerRecv, WorkerSpawn, WorkerInsert, WorkerFail,
                    WorkerShut, WorkerAbort
<1>4. ASSUME NEW c \in Conns, ConnNext(c)
      PROVE  /\ UNCHANGED <<owner, task, queue, worker, hand, aborted>>
             /\ \A d \in Conns : conn'[d] # conn[d] => conn[d] \in Live
  BY <1>4, ConnMoves
<1>5. ASSUME NEW c \in Conns, ClientNext(c)
      PROVE  UNCHANGED <<owner, task, queue, worker, hand, aborted>> /\ \A d \in Conns : conn'[d] = conn[d]
  BY <1>0, <1>5, ClientMoves
<1>6. CASE UNCHANGED vars
  BY <1>6 DEF vars, workerVars, connVars
<1> QED
  BY <1>1, <1>2, <1>3, <1>4, <1>5, <1>6 DEF Next

(* What stop() has reached when it returns (StopLeavesNoWork) lasts: no task *)
(* that it left behind can bring a connection in (listener/tcp.rs 196-209).  *)
THEOREM StoppedForGood == Spec => [][EndIsFinal]_vars
<1>1. IndInv /\ [Next]_vars => [EndIsFinal]_vars
  BY FinalStep
<1> QED
  BY <1>1, InductiveInvariant, PTL DEF Spec

(* how far a worker is from its end, once it has been told to stop *)
Stage(s) ==
    CASE s = "peek"                   -> 0
      [] s \in {"spawned", "insert"}  -> 1
      [] s = "recv"                   -> 2
      [] s = "closing"                -> 3
      [] OTHER                        -> 4

(* While the dispatcher drains, nobody lengthens the queue and nobody holds  *)
(* a worker back: every step of a worker takes it nearer to its end, or      *)
(* takes a connection off the queue, and only Drained ends the drain.  A     *)
(* drain is thus at most Len(queue) recv() and four steps of each worker     *)
(* between two of them.                                                      *)
DrainAdvances ==
    task = "draining" =>
        \/ task' = "done" /\ Joined
        \/ task' = "draining" /\ UNCHANGED <<queue, worker>>
        \/ /\ task' = "draining"
           /\ \E w \in Workers :
                /\ \A v \in Workers \ {w} : worker'[v] = worker[v]
                /\ \/ queue # <<>> /\ queue' = Tail(queue)
                   \/ queue' = queue /\ Stage(worker[w]) < Stage(worker'[w])

LEMMA DrainStep ==
    ASSUME TypeOK, OwnerInv, [Next]_vars
    PROVE  DrainAdvances
<1> SUFFICES ASSUME task = "draining"
             PROVE  \/ task' = "done" /\ Joined
                    \/ task' = "draining" /\ UNCHANGED <<queue, worker>>
                    \/ /\ task' = "draining"
                       /\ \E w \in Workers :
                            /\ \A v \in Workers \ {w} : worker'[v] = worker[v]
                            /\ \/ queue # <<>> /\ queue' = Tail(queue)
                               \/ queue' = queue /\ Stage(worker[w]) < Stage(worker'[w])
  BY DEF DrainAdvances
<1>1. CASE OwnerNext
  BY <1>1, OwnerMoves
<1>2. CASE DispatcherNext
  BY <1>2 DEF DispatcherNext, DispatcherRun, AcceptError, AcceptInLog, ShutDispatcher, Drained,
              Accept, Send, Running
<1>3. ASSUME NEW w \in Workers, WorkerRecv(w)
      PROVE  /\ task' = task
             /\ \A v \in Workers \ {w} : worker'[v] = worker[v]
             /\ queue # <<>> /\ queue' = Tail(queue)
  BY <1>3 DEF WorkerRecv, TypeOK
<1>4. ASSUME NEW w \in Workers, WorkerNext(w), ~WorkerRecv(w)
      PROVE  /\ task' = task
             /\ \A v \in Workers \ {w} : worker'[v] = worker[v]
             /\ queue' = queue /\ Stage(worker[w]) < Stage(worker'[w])
  <2>1. UNCHANGED <<task, queue>>
    BY <1>4 DEF WorkerNext, WorkerRun, WorkerSpawn, WorkerInsert, WorkerFail, WorkerShut, WorkerAbort
  <2>2. \A v \in Workers \ {w} : worker'[v] = worker[v]
    BY <1>4 DEF WorkerNext, WorkerRun, WorkerSpawn, WorkerInsert, WorkerFail, WorkerShut, WorkerAbort, TypeOK
  <2>3. \/ worker[w] = "spawned" /\ worker'[w] \in {"recv", "closing"}
        \/ worker[w] = "peek" /\ worker'[w] \in {"insert", "failed", "closing"}
        \/ worker[w] = "insert" /\ worker'[w] = "recv"
        \/ worker[w] = "recv" /\ worker'[w] = "closing"
        \/ worker[w] = "closing" /\ worker'[w] = "ended"
    BY <1>4 DEF WorkerNext, WorkerRun, WorkerSpawn, WorkerInsert, WorkerFail, WorkerShut, WorkerAbort, TypeOK
  <2>4. Stage(worker[w]) < Stage(worker'[w])
    BY <2>3 DEF Stage
  <2> QED
    BY <2>1, <2>2, <2>4
<1>5. ASSUME NEW c \in Conns, ConnNext(c) \/ ClientNext(c)
      PROVE  UNCHANGED <<task, queue, worker>>
  BY <1>5, ConnMoves, ClientMoves
<1>6. CASE UNCHANGED vars
  BY <1>6 DEF vars, workerVars
<1> QED
  BY <1>1, <1>2, <1>3, <1>4, <1>5, <1>6 DEF Next

(* The safety core of StopCompletes: the drain of stop() has boundedly many  *)
(* steps, whatever the clients and the connections do meanwhile (listener/   *)
(* tcp.rs 327-348, worker/tcp.rs 67-132 and 136-150).  That the steps are    *)
(* taken is the fairness of the runtime.                                     *)
THEOREM DrainIsBounded == Spec => [][DrainAdvances]_vars
<1>1. IndInv /\ [Next]_vars => [DrainAdvances]_vars
  BY DrainStep DEF IndInv
<1> QED
  BY <1>1, InductiveInvariant, PTL DEF Spec


-----------------------------------------------------------------------------
(* What becomes of the connections of a worker that is over.               *)

(* A worker that was told to stop has the handle of each of its live         *)
(* connections until it has aborted them, those whose address was used twice *)
(* excepted: a TLS handshake, which does not listen to the signal, outlives  *)
(* stop() only for that reason, or because its worker failed.                *)
AbortsReach ==
    \A c \in Conns : conn[c] \in Live =>
        /\ worker[by[c]] = "closing" => c \in handles[by[c]] \/ AddrReused(c)
        /\ worker[by[c]] = "ended" => c \in aborted \/ AddrReused(c)

LEMMA AbortStep ==
    ASSUME TcpAssumption, IndInv, AbortsReach, [Next]_vars
    PROVE  AbortsReach'
<1> USE DEF IndInv, TypeOK, Live
<1>1. SUFFICES ASSUME NEW c \in Conns, conn'[c] \in Live, ~AddrReused(c)'
               PROVE  /\ worker'[by'[c]] = "closing" => c \in handles'[by'[c]]
                      /\ worker'[by'[c]] = "ended" => c \in aborted'
  BY DEF AbortsReach
<1> DEFINE Reached    == /\ worker[by[c]] = "closing" => c \in handles[by[c]]
                         /\ worker[by[c]] = "ended" => c \in aborted
           ReachedNow == /\ worker'[by'[c]] = "closing" => c \in handles'[by'[c]]
                         /\ worker'[by'[c]] = "ended" => c \in aborted'
<1>2. AddrReused(c) /\ by[c] \in Workers => AddrReused(c)'
  BY TcpAssumption, TakenForGood DEF AddrReused
<1>3. conn[c] \in Live => by[c] \in Workers /\ ~AddrReused(c) /\ Reached
  BY <1>1, <1>2 DEF AbortsReach, ConnInv
<1> HIDE DEF Reached
<1>4. ASSUME UNCHANGED <<worker, handles, aborted>>, by'[c] = by[c], conn[c] \in Live
      PROVE  ReachedNow
  BY <1>3, <1>4 DEF Reached
<1>5. CASE OwnerNext
  BY <1>1, <1>4, <1>5, OwnerMoves
<1>6. CASE DispatcherNext
  <2>1. CASE DispatcherRun
    <3>1. UNCHANGED <<conn, by>> /\ \A w \in Workers : worker'[w] \in {"none", "spawned"}
      BY <2>1 DEF DispatcherRun, connVars, WorkersInv
    <3> QED
      BY <1>1, <1>3, <3>1
  <2>2. CASE ~DispatcherRun
    <3>1. UNCHANGED <<worker, handles, by, aborted>>
      BY <1>6, <2>2 DEF DispatcherNext, AcceptError, AcceptInLog, ShutDispatcher, Drained, Accept, Send,
                        workerVars, connVars
    <3>2. conn[c] \in Live
      <4>1. CASE ShutDispatcher \/ Drained
        BY <1>1, <4>1, DroppingFact DEF ShutDispatcher, Drained
      <4>2. CASE ~(ShutDispatcher \/ Drained)
        BY <1>1, <1>6, <2>2, <4>2 DEF DispatcherNext, AcceptError, AcceptInLog, Accept, Send, connVars
      <4> QED
        BY <4>1, <4>2
    <3> QED
      BY <1>4, <3>1, <3>2
  <2> QED
    BY <2>1, <2>2
<1>7. ASSUME NEW w \in Workers, WorkerRecv(w)
      PROVE  ReachedNow
  <2>1. Head(queue) \in Conns /\ conn[Head(queue)] = "queued"
    BY <1>7 DEF WorkerRecv, QueueInv
  <2>2. conn[c] \in Live /\ by'[c] = by[c]
    BY <1>1, <1>7, <2>1 DEF WorkerRecv
  <2> QED
    BY <1>3, <1>7, <2>2 DEF WorkerRecv, Reached
<1>8. ASSUME NEW w \in Workers, WorkerRun(w) \/ WorkerSpawn(w) \/ WorkerInsert(w) \/ WorkerFail(w)
      PROVE  ReachedNow
  <2>1. /\ UNCHANGED <<by, aborted>>
        /\ worker'[w] \notin {"closing", "ended"}
        /\ \A v \in Workers \ {w} : worker'[v] = worker[v] /\ handles'[v] = handles[v]
    BY <1>8 DEF WorkerRun, WorkerSpawn, WorkerInsert, WorkerFail, connVars
  <2>2. conn[c] \in Live \/ by[c] = w
    BY <1>1, <1>8 DEF WorkerRun, WorkerSpawn, WorkerInsert, WorkerFail, connVars, HandInv
  <2> QED
    BY <1>3, <2>1, <2>2 DEF Reached
<1>9. ASSUME NEW w \in Workers, WorkerShut(w)
      PROVE  ReachedNow
  <2>1. /\ UNCHANGED <<handles, by, aborted>>
        /\ worker[w] \in {"spawned", "recv", "peek"} /\ worker'[w] = "closing"
        /\ \A v \in Workers \ {w} : worker'[v] = worker[v]
    BY <1>9 DEF WorkerShut
  <2>2. conn[c] \in Live
    BY <1>1, <1>9 DEF WorkerShut, HandInv
  <2>3. CASE by[c] = w
    <3>1. hand[w] # c
      BY <2>1, <2>2 DEF HandInv
    <3>2. c \in handles[w]
      BY <1>3, <2>1, <2>2, <2>3, <3>1 DEF LiveIsTracked, ConnSignal
    <3> QED
      BY <2>1, <2>3, <3>2
  <2>4. CASE by[c] # w
    BY <1>3, <2>1, <2>2, <2>4 DEF Reached
  <2> QED
    BY <2>3, <2>4
<1>10. ASSUME NEW w \in Workers, WorkerAbort(w)
       PROVE  ReachedNow
  BY <1>1, <1>3, <1>10 DEF WorkerAbort, Reached
<1>11. ASSUME NEW d \in Conns, ConnNext(d)
       PROVE  ReachedNow
  <2>1. UNCHANGED <<worker, by, aborted>> /\ conn[c] \in Live
    BY <1>1, <1>11, ConnMoves
  <2>2. CASE c \in handles[by[c]] /\ c \notin handles'[by[c]]
    <3>1. by[c] = by[d] /\ ClientAddr(c) = ClientAddr(d) /\ conn'[d] = "served"
      BY <1>3, <1>11, <2>1, <2>2, ConnHandles
    <3> QED
      BY <1>1, <2>1, <3>1 DEF AddrReused, Waiting
  <2>3. CASE ~(c \in handles[by[c]] /\ c \notin handles'[by[c]])
    BY <1>3, <2>1, <2>3 DEF Reached
  <2> QED
    BY <2>2, <2>3
<1>12. ASSUME NEW d \in Conns, ClientNext(d)
       PROVE  ReachedNow
  BY <1>1, <1>4, <1>12, ClientMoves
<1>13. CASE UNCHANGED vars
  BY <1>1, <1>4, <1>13 DEF vars, workerVars, connVars
<1> QED
  BY <1>5, <1>6, <1>7, <1>8, <1>9, <1>10, <1>11, <1>12, <1>13 DEF Next, WorkerNext

(* stop() of a worker misses no handshake but those whose address was used   *)
(* twice (worker/tcp.rs 129-131 and 136-150): the exception that OrphansEnd  *)
(* makes is the only one there is.                                           *)
THEOREM HandshakesAreAborted == Spec => []AbortsReach
<1>1. Init => AbortsReach
  BY DEF Init, AbortsReach, Live
<1>2. IndInv /\ AbortsReach /\ [Next]_vars => AbortsReach'
  BY TcpAssumption, AbortStep
<1> QED
  BY <1>1, <1>2, InductiveInvariant, PTL DEF Spec

(* the connections that worker w spawned a task for, and that still have it *)
Tasks(w) == {c \in Conns : by[c] = w /\ conn[c] \in Live}

(* Once a worker is over, or closing, it stays so, and its tasks only become *)
(* fewer; those that were aborted stay aborted.                              *)
OrphansShrink ==
    /\ aborted \subseteq aborted'
    /\ \A w \in Workers : ConnSignal(w) =>
         /\ ConnSignal(w)'
         /\ \A c \in Conns : by'[c] = w /\ conn'[c] \in Live => c \in Tasks(w)

LEMMA OrphansStep ==
    ASSUME TcpAssumption, IndInv, [Next]_vars
    PROVE  OrphansShrink
<1> USE DEF IndInv, TypeOK, ConnSignal
<1>0. aborted \subseteq aborted' /\ \A c \in Conns : by[c] # None => by'[c] = by[c]
  BY TcpAssumption, ForwardStep DEF ConnectionsGoForward, GoesForward
<1> SUFFICES ASSUME NEW w \in Workers, ConnSignal(w)
             PROVE  /\ ConnSignal(w)'
                    /\ \A c \in Conns : by'[c] = w /\ conn'[c] \in Live => c \in Tasks(w)
  BY <1>0 DEF OrphansShrink
<1>1. ASSUME worker'[w] = worker[w], by' = by,
             \A c \in Conns : conn'[c] \in Live => conn[c] \in Live \/ by'[c] # w
      PROVE  /\ ConnSignal(w)'
             /\ \A c \in Conns : by'[c] = w /\ conn'[c] \in Live => c \in Tasks(w)
  BY <1>1 DEF Tasks
<1>2. CASE OwnerNext
  BY <1>1, <1>2, OwnerMoves DEF Live
<1>3. CASE DispatcherNext
  <2>1. ~DispatcherRun
    BY DEF DispatcherRun, WorkersInv
  <2>2. UNCHANGED <<worker, by>>
    BY <1>3, <2>1 DEF DispatcherNext, AcceptError, AcceptInLog, ShutDispatcher, Drained, Accept, Send,
                      workerVars, connVars
  <2>3. \A c \in Conns : conn'[c] \in Live => conn[c] \in Live
    <3>1. CASE ShutDispatcher \/ Drained
      BY <3>1, DroppingFact DEF ShutDispatcher, Drained, Live
    <3>2. CASE ~(ShutDispatcher \/ Drained)
      BY <1>3, <2>1, <3>2 DEF DispatcherNext, AcceptError, AcceptInLog, Accept, Send, connVars, Live
    <3> QED
      BY <3>1, <3>2
  <2> QED
    BY <1>1, <2>2, <2>3
<1>4. ASSUME NEW v \in Workers, WorkerNext(v), v # w
      PROVE  /\ ConnSignal(w)'
             /\ \A c \in Conns : by'[c] = w /\ conn'[c] \in Live => c \in Tasks(w)
  <2>1. CASE WorkerRecv(v)
    <3>1. worker'[w] = worker[w]
      BY <1>4, <2>1 DEF WorkerRecv
    <3>2. \A c \in Conns : conn'[c] \in Live => conn[c] \in Live /\ by'[c] = by[c]
      BY <2>1 DEF WorkerRecv, QueueInv, Live
    <3> QED
      BY <3>1, <3>2 DEF Tasks
  <2>2. CASE ~WorkerRecv(v)
    <3>1. worker'[w] = worker[w] /\ by' = by
      BY <1>4, <2>2 DEF WorkerNext, WorkerRun, WorkerSpawn, WorkerInsert, WorkerFail, WorkerShut,
                        WorkerAbort, connVars
    <3>2. \A c \in Conns : conn'[c] \in Live => conn[c] \in Live \/ by'[c] # w
      BY <1>4, <2>2 DEF WorkerNext, WorkerRun, WorkerSpawn, WorkerInsert, WorkerFail, WorkerShut,
                        WorkerAbort, connVars, HandInv, Live
    <3> QED
      BY <1>1, <3>1, <3>2
  <2> QED
    BY <2>1, <2>2
<1>5. CASE WorkerNext(w)
  <2>1. worker[w] = "closing" /\ WorkerAbort(w)
    BY <1>5 DEF WorkerNext, WorkerRun, WorkerRecv, WorkerSpawn, WorkerInsert, WorkerFail, WorkerShut,
                WorkerAbort
  <2> QED
    BY <2>1 DEF WorkerAbort, Tasks
<1>6. ASSUME NEW c \in Conns, ConnNext(c)
      PROVE  UNCHANGED <<worker, by>> /\ \A d \in Conns : conn'[d] \in Live => conn[d] \in Live
  BY <1>6, ConnMoves
<1>7. ASSUME NEW c \in Conns, ClientNext(c)
      PROVE  UNCHANGED <<worker, by>> /\ \A d \in Conns : conn'[d] \in Live => conn[d] \in Live
  BY <1>7, ClientMoves DEF Live
<1>8. CASE UNCHANGED vars
  BY <1>1, <1>8 DEF vars, workerVars, connVars
<1> QED
  BY <1>1, <1>2, <1>3, <1>4, <1>5, <1>6, <1>7, <1>8 DEF Next

(* The other half of the safety core of OrphansEnd: the signal that ends a   *)
(* task is never taken back, and no task is added for a worker that is over  *)
(* (worker/tcp.rs 67-132 and 136-150).                                       *)
THEOREM OrphansOnlyShrink == Spec => [][OrphansShrink]_vars
<1>1. IndInv /\ [Next]_vars => [OrphansShrink]_vars
  BY TcpAssumption, OrphansStep
<1> QED
  BY <1>1, InductiveInvariant, PTL DEF Spec

=============================================================================
