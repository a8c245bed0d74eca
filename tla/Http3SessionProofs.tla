------------------------- MODULE Http3SessionProofs -------------------------
(***************************************************************************)
(* Proofs about Http3Session, for every set of requests and of bodies.     *)
(***************************************************************************)
EXTENDS Http3Session, FiniteSetTheorems, TLAPS

(* A body is a finite sequence of frames. *)
LEMMA BodyType ==
    ASSUME SessionAssumption, TypeOK, NEW r \in Reqs
    PROVE  body[r].frames \in Seq(Frames) /\ Len(body[r].frames) \in Nat
<1>1. CASE body[r] = NoBody
  BY <1>1 DEF NoBody
<1>2. CASE body[r] \in Bodies
  BY <1>2 DEF SessionAssumption
<1> QED
  BY <1>1, <1>2 DEF TypeOK

(* The data frames of a longer prefix: one more, if the next is one. *)
LEMMA DataFramesFact ==
    ASSUME NEW b, NEW n \in Nat
    PROVE  /\ Cardinality(DataFrames(b, 0)) = 0
           /\ Cardinality(DataFrames(b, n)) \in Nat
           /\ b.frames[n + 1] = "data" =>
                Cardinality(DataFrames(b, n + 1)) = Cardinality(DataFrames(b, n)) + 1
           /\ b.frames[n + 1] # "data" => DataFrames(b, n + 1) = DataFrames(b, n)
<1>1. DataFrames(b, 0) = {}
  BY DEF DataFrames
<1>2. IsFiniteSet(DataFrames(b, n))
  <2>1. IsFiniteSet(1..n)
    BY FS_Interval
  <2> QED
    BY <2>1, FS_Subset DEF DataFrames
<1>3. b.frames[n + 1] = "data" => DataFrames(b, n + 1) = DataFrames(b, n) \cup {n + 1}
  BY DEF DataFrames
<1>4. n + 1 \notin DataFrames(b, n)
  BY DEF DataFrames
<1>5. Cardinality(DataFrames(b, n) \cup {n + 1}) = Cardinality(DataFrames(b, n)) + 1
  BY <1>2, <1>4, FS_AddElement
<1>6. b.frames[n + 1] # "data" => DataFrames(b, n + 1) = DataFrames(b, n)
  BY DEF DataFrames
<1>7. Cardinality(DataFrames(b, 0)) = 0
  BY <1>1, FS_EmptySet
<1> QED
  BY <1>2, <1>3, <1>5, <1>6, <1>7, FS_CardinalityType

(* A frame to read is a frame of the current body. *)
LEMMA NextFact ==
    ASSUME SessionAssumption, TypeOK, NEW K, NextIs(K)
    PROVE  /\ pc = "body" /\ current \in Reqs
           /\ read + 1 \in 1..Len(body[current].frames)
           /\ body[current].frames[read + 1] \in K
<1>1. current \in Reqs /\ pc = "body"
  BY DEF NextIs, TypeOK, Serving
<1>2. Len(body[current].frames) \in Nat
  BY <1>1, BodyType
<1> QED
  BY <1>1, <1>2 DEF NextIs, TypeOK

(* The variables stay within their types. *)
LEMMA TypeStep ==
    ASSUME SessionAssumption, TypeOK, [Next]_vars
    PROVE  TypeOK'
<1> USE DEF TypeOK, PCs, Serving, Over, peerVars
<1>1. CASE Accept
  <2>1. Head(incoming) \in Reqs /\ Tail(incoming) \in Seq(Reqs)
    BY <1>1 DEF Accept
  <2> QED
    BY <1>1, <2>1 DEF Accept
<1>2. CASE AcceptEnds \/ Resolve \/ HandlerPanics \/ Shut
  BY <1>2 DEF AcceptEnds, Resolve, HandlerPanics, Shut
<1>3. CASE ResolveFails \/ SendFails \/ FinishBody
  BY <1>3 DEF ResolveFails, SendFails, FinishBody, Becomes, Outcomes
<1>4. CASE Call
  BY <1>4 DEF Call, Becomes, Outcomes
<1>5. CASE SendHead \/ HeadFails
  BY <1>5 DEF SendHead, HeadFails
<1>6. CASE SendData \/ SkipFrame
  <2>1. CASE SendData
    <3>1. current \in Reqs
      BY <2>1 DEF SendData, NextIs
    <3>2. sent' \in [Reqs -> Nat]
      BY <2>1, <3>1 DEF SendData
    <3> QED
      BY <2>1, <3>1, <3>2 DEF SendData
  <2>2. CASE SkipFrame
    BY <2>2 DEF SkipFrame
  <2> QED
    BY <1>6, <2>1, <2>2
<1>7. CASE Peer
  <2>1. ASSUME NEW r \in Reqs, PeerOpens(r) \/ PeerCompletes(r) \/ PeerResets(r)
        PROVE  TypeOK'
    <3>1. UNCHANGED <<pc, current, link, outcome, body, read, head, sent, told>>
      BY <2>1 DEF PeerOpens, PeerCompletes, PeerResets, PeerMoves
    <3>2. incoming' \in Seq(Reqs)
      <4>1. incoming' = Append(incoming, r) \/ incoming' = incoming
        BY <2>1 DEF PeerOpens, PeerCompletes, PeerResets, PeerMoves
      <4>2. incoming \in Seq(Reqs) /\ Append(incoming, r) \in Seq(Reqs)
        OBVIOUS
      <4> QED
        BY <4>1, <4>2
    <3>3. stream' \in [Reqs -> Streams]
      BY <2>1 DEF PeerOpens, PeerCompletes, PeerResets, PeerMoves, Streams
    <3> QED
      BY <3>1, <3>2, <3>3
  <2>2. CASE PeerLeaves
    BY <2>2 DEF PeerLeaves
  <2> QED
    BY <1>7, <2>1, <2>2 DEF Peer
<1>8. CASE Tell
  BY <1>8 DEF Tell
<1>9. CASE UNCHANGED vars
  BY <1>9 DEF vars
<1> QED
  BY <1>1, <1>2, <1>3, <1>4, <1>5, <1>6, <1>7, <1>8, <1>9 DEF Next, Step, Proceed, Write

(* A stream waits once and new; it is current next, and never waits again. *)
LEMMA IncomingStep ==
    ASSUME SessionAssumption, TypeOK, IncomingInv, CurrentInv, [Next]_vars
    PROVE  IncomingInv'
<1> USE DEF TypeOK, IncomingInv, Fresh, peerVars
<1>1. CASE Accept
  <2>1. /\ Len(incoming) \in Nat \ {0}
        /\ Len(incoming') = Len(incoming) - 1
        /\ \A i \in 1..Len(incoming') : incoming'[i] = incoming[i + 1]
        /\ current' = incoming[1]
    BY <1>1 DEF Accept
  <2>2. \A i \in 1..Len(incoming') : i + 1 \in 1..Len(incoming) /\ i + 1 # 1
    BY <2>1
  <2>3. UNCHANGED <<stream, outcome, sent>> /\ current = None
    BY <1>1 DEF Accept
  <2>4. \A i \in 1..Len(incoming') :
           /\ stream'[incoming'[i]] # "absent" /\ incoming'[i] # current'
           /\ outcome'[incoming'[i]] = "none" /\ sent'[incoming'[i]] = 0
    <3> TAKE i \in 1..Len(incoming')
    <3>1. i + 1 \in 1..Len(incoming) /\ 1 \in 1..Len(incoming) /\ i + 1 # 1
      BY <2>1, <2>2
    <3>2. incoming[i + 1] # incoming[1]
      BY <3>1
    <3>3. /\ stream[incoming[i + 1]] # "absent"
          /\ outcome[incoming[i + 1]] = "none" /\ sent[incoming[i + 1]] = 0
      BY <3>1
    <3>4. incoming'[i] = incoming[i + 1]
      BY <2>1
    <3> QED
      BY <2>1, <2>3, <3>2, <3>3, <3>4
  <2>5. \A i, j \in 1..Len(incoming') : incoming'[i] = incoming'[j] => i = j
    <3> TAKE i, j \in 1..Len(incoming')
    <3>1. incoming[i + 1] = incoming[j + 1] => i + 1 = j + 1
      BY <2>2
    <3> QED
      BY <2>1, <3>1
  <2>6. \A r \in Reqs : stream'[r] = "absent" => r # current' /\ Fresh(r)'
    BY <2>1, <2>3
  <2> QED
    BY <2>4, <2>5, <2>6
<1>2. ASSUME UNCHANGED <<stream, incoming>>,
             current' = current \/ current' = None,
             \A r \in Reqs \ {current} : outcome'[r] = outcome[r] /\ sent'[r] = sent[r]
      PROVE  IncomingInv'
  <2>1. \A i \in 1..Len(incoming) : incoming[i] \in Reqs
    OBVIOUS
  <2> QED
    BY <1>2, <2>1, SessionAssumption DEF SessionAssumption
<1>3. CASE AcceptEnds \/ Resolve \/ HandlerPanics \/ Shut \/ Tell \/ SendHead \/ HeadFails
           \/ SkipFrame
  BY <1>2, <1>3 DEF AcceptEnds, Resolve, HandlerPanics, Shut, Tell, SendHead, HeadFails, SkipFrame
<1>4. CASE ResolveFails \/ SendFails \/ FinishBody \/ Call \/ SendData
  BY <1>2, <1>4 DEF ResolveFails, SendFails, FinishBody, Call, SendData, Becomes
<1>5. CASE Peer
  <2>1. ASSUME NEW r \in Reqs, PeerOpens(r)
        PROVE  IncomingInv'
    <3>1. /\ Len(incoming) \in Nat
          /\ Len(incoming') = Len(incoming) + 1
          /\ \A i \in 1..Len(incoming) : incoming'[i] = incoming[i]
          /\ incoming'[Len(incoming) + 1] = r
          /\ \A i \in 1..Len(incoming') : i \in 1..Len(incoming) \/ i = Len(incoming) + 1
      BY <2>1 DEF PeerOpens
    <3>2. /\ UNCHANGED <<current, outcome, sent>>
          /\ stream[r] = "absent" /\ stream'[r] # "absent"
          /\ \A q \in Reqs \ {r} : stream'[q] = stream[q]
      BY <2>1 DEF PeerOpens
    <3>3. \A i \in 1..Len(incoming) : incoming[i] \in Reqs /\ incoming[i] # r
      <4>1. \A i \in 1..Len(incoming) : incoming[i] \in Reqs /\ stream[incoming[i]] # "absent"
        OBVIOUS
      <4> QED
        BY <3>2, <4>1
    <3>4. \A i \in 1..Len(incoming') :
             /\ stream'[incoming'[i]] # "absent" /\ incoming'[i] # current'
           /\ outcome'[incoming'[i]] = "none" /\ sent'[incoming'[i]] = 0
      BY <3>1, <3>2, <3>3
    <3>5. \A i, j \in 1..Len(incoming') : incoming'[i] = incoming'[j] => i = j
      BY <3>1, <3>3
    <3> QED
      BY <3>2, <3>4, <3>5
  <2>2. ASSUME NEW r \in Reqs, PeerCompletes(r) \/ PeerResets(r)
        PROVE  IncomingInv'
    <3>1. /\ UNCHANGED <<incoming, current, outcome, sent>>
          /\ stream[r] # "absent" /\ stream'[r] # "absent"
          /\ \A q \in Reqs \ {r} : stream'[q] = stream[q]
      BY <2>2 DEF PeerCompletes, PeerResets, PeerMoves
    <3>2. \A i \in 1..Len(incoming) : incoming[i] \in Reqs
      OBVIOUS
    <3> QED
      BY <3>1, <3>2
  <2>3. CASE PeerLeaves
    BY <1>2, <2>3 DEF PeerLeaves
  <2> QED
    BY <1>5, <2>1, <2>2, <2>3 DEF Peer
<1>6. CASE UNCHANGED vars
  BY <1>2, <1>6 DEF vars
<1> QED
  BY <1>1, <1>3, <1>4, <1>5, <1>6 DEF Next, Step, Proceed, Write

(* The current request is the work of the loop: nothing sent before its body *)
(* is read, then one frame sent for each data frame that was read.           *)
LEMMA CurrentStep ==
    ASSUME SessionAssumption, TypeOK, IncomingInv, CurrentInv, [Next]_vars
    PROVE  CurrentInv'
<1> USE DEF TypeOK, CurrentInv, Serving, peerVars
<1>1. CASE Accept
  <2>1. 1 \in 1..Len(incoming) /\ current' = incoming[1] /\ pc' = "resolve"
    BY <1>1 DEF Accept
  <2>2. outcome[incoming[1]] = "none" /\ sent[incoming[1]] = 0
    BY <2>1 DEF IncomingInv, Fresh
  <2> QED
    BY <1>1, <2>1, <2>2 DEF Accept
<1>2. CASE AcceptEnds \/ Resolve \/ HandlerPanics \/ Shut
  BY <1>2 DEF AcceptEnds, Resolve, HandlerPanics, Shut
<1>3. CASE ResolveFails \/ SendFails \/ FinishBody
  BY <1>3, SessionAssumption DEF ResolveFails, SendFails, FinishBody, Becomes, SessionAssumption
<1>4. CASE Call
  BY <1>4, SessionAssumption DEF Call, Becomes, SessionAssumption
<1>5. CASE SendHead \/ HeadFails
  <2>1. /\ pc = "head" /\ current \in Reqs
        /\ UNCHANGED <<current, outcome, body, read, sent, stream, link>>
    BY <1>5 DEF SendHead, HeadFails
  <2>2. Len(body[current].frames) \in Nat
    BY <2>1, BodyType
  <2>3. Cardinality(DataFrames(body[current], 0)) = 0
    BY DataFramesFact
  <2>4. current \in head' \cup BigHead \/ Broken(current)'
    BY <1>5, <2>1 DEF SendHead, HeadFails, Refused, Broken
  <2> QED
    BY <1>5, <2>1, <2>2, <2>3, <2>4 DEF SendHead, HeadFails
<1>6. CASE SendData \/ SkipFrame
  <2> DEFINE n == read
             b == body[current]
  <2>1. /\ pc = "body" /\ current \in Reqs
        /\ n + 1 \in 1..Len(b.frames)
        /\ SendData => b.frames[n + 1] = "data"
        /\ SkipFrame => b.frames[n + 1] # "data"
    BY <1>6, NextFact DEF SendData, SkipFrame
  <2>2. /\ UNCHANGED <<pc, current, outcome, body, head, stream, link>>
        /\ read' = n + 1
        /\ sent'[current] = IF SendData THEN sent[current] + 1 ELSE sent[current]
    BY <1>6, <2>1 DEF SendData, SkipFrame, NextIs
  <2>3. /\ SendData => Cardinality(DataFrames(b, n + 1)) = Cardinality(DataFrames(b, n)) + 1
        /\ ~SendData => DataFrames(b, n + 1) = DataFrames(b, n)
    BY <1>6, <2>1, DataFramesFact
  <2>4. sent'[current] = Cardinality(DataFrames(b, n + 1))
    BY <2>1, <2>2, <2>3
  <2>5. Broken(current)' = Broken(current)
    BY <2>2 DEF Broken
  <2>6. n + 1 <= Len(b.frames)
    BY <2>1, BodyType
  <2> QED
    BY <2>1, <2>2, <2>4, <2>5, <2>6
<1>7. CASE Peer \/ Tell
  <2>1. UNCHANGED <<pc, current, outcome, body, read, head, sent>>
    BY <1>7 DEF Peer, PeerOpens, PeerCompletes, PeerResets, PeerMoves, PeerLeaves, Tell
  <2>2. current \in Reqs => (Broken(current) => Broken(current)')
    BY <1>7 DEF Peer, PeerOpens, PeerCompletes, PeerResets, PeerMoves, PeerLeaves, Tell, Broken
  <2> QED
    BY <2>1, <2>2
<1>8. CASE UNCHANGED vars
  BY <1>8 DEF vars, Broken
<1> QED
  BY <1>1, <1>2, <1>3, <1>4, <1>5, <1>6, <1>7, <1>8 DEF Next, Step, Proceed, Write

(* Nothing is done to a response once it is finished, and it is finished at  *)
(* the end of its body only.                                                 *)
LEMMA FinishedStep ==
    ASSUME SessionAssumption, TypeOK, CurrentInv, FinishedIsWhole, [Next]_vars
    PROVE  FinishedIsWhole'
<1> USE DEF TypeOK, Serving, peerVars
<1> DEFINE Whole(r) == /\ r \in head \cup BigHead
                       /\ sent[r] = Cardinality(DataFrames(body[r], Len(body[r].frames)))
<1>1. SUFFICES ASSUME NEW r \in Reqs, outcome'[r] = "finished"
               PROVE  Whole(r)'
  BY DEF FinishedIsWhole
<1>2. ASSUME outcome[r] = "finished",
             head \subseteq head', body'[r] = body[r], sent'[r] = sent[r]
      PROVE  Whole(r)'
  <2>1. Whole(r)
    BY <1>2 DEF FinishedIsWhole
  <2> QED
    BY <1>2, <2>1
<1>3. CASE FinishBody
  <2>1. /\ current \in Reqs /\ pc = "body" /\ read = Len(body[current].frames) /\ ~Broken(current)
        /\ UNCHANGED <<head, body, sent>>
    BY <1>3 DEF FinishBody, AtEnd
  <2>2. CASE r = current
    BY <2>1, <2>2 DEF CurrentInv
  <2>3. CASE r # current
    <3>1. outcome[r] = "finished"
      BY <1>1, <1>3, <2>3 DEF FinishBody, Becomes
    <3> QED
      BY <1>2, <2>1, <3>1
  <2> QED
    BY <2>2, <2>3
<1>4. CASE ~FinishBody
  <2>1. outcome[r] = "finished" /\ head \subseteq head'
    BY <1>1, <1>4 DEF Next, Step, Proceed, Write,
       Accept, AcceptEnds, Resolve, ResolveFails, Becomes, Call, HandlerPanics,
       SendHead, HeadFails, SendData, SkipFrame, SendFails, Shut, Peer, PeerOpens, PeerCompletes, PeerResets, PeerMoves,
       PeerLeaves, Tell, vars
  <2>2. r # current
    BY <2>1 DEF CurrentInv
  <2>3. body'[r] = body[r] /\ sent'[r] = sent[r]
    BY <1>4, <2>2 DEF Next, Step, Proceed, Write,
       Accept, AcceptEnds, Resolve, ResolveFails, Becomes, Call, HandlerPanics,
       SendHead, HeadFails, SendData, SkipFrame, SendFails, Shut, Peer, PeerOpens, PeerCompletes, PeerResets, PeerMoves,
       PeerLeaves, Tell, vars
  <2> QED
    BY <1>2, <2>1, <2>3
<1> QED
  BY <1>3, <1>4

(* The session ends by itself when the connection is gone, and is shut when  *)
(* it was told to.                                                           *)
LEMMA EndStep ==
    ASSUME TypeOK, EndHasCause, [Next]_vars
    PROVE  EndHasCause'
BY DEF EndHasCause, TypeOK, Next, Step, Proceed, Write,
       Accept, AcceptEnds, Resolve, ResolveFails, Call, HandlerPanics,
   SendHead, HeadFails, SendData, SkipFrame, SendFails, FinishBody, Shut, Peer, PeerOpens, PeerCompletes, PeerResets,
   PeerMoves, PeerLeaves, Tell, vars, peerVars

-----------------------------------------------------------------------------
(* The theorems.                                                           *)

(* The inductive invariant: what waits, what is served and what was sent for *)
(* it, in every reachable state of the session (worker/udp.rs 187-309).      *)
THEOREM InductiveInvariant == Spec => []IndInv
<1>1. Init => IndInv
  <2> SUFFICES ASSUME Init PROVE IndInv
    OBVIOUS
  <2> USE SessionAssumption DEF Init, SessionAssumption
  <2>1. TypeOK
    <3>1. incoming \in Seq(Reqs)
      OBVIOUS
    <3> QED
      BY <3>1 DEF TypeOK, PCs, Streams, Outcomes, Serving
  <2>2. IncomingInv
    <3>1. 1..Len(incoming) = {}
      OBVIOUS
    <3> QED
      BY <3>1 DEF IncomingInv, Fresh
  <2>3. CurrentInv /\ FinishedIsWhole /\ EndHasCause
    BY DEF CurrentInv, FinishedIsWhole, EndHasCause
  <2> QED
    BY <2>1, <2>2, <2>3 DEF IndInv
<1>2. IndInv /\ [Next]_vars => IndInv'
  BY SessionAssumption, TypeStep, IncomingStep, CurrentStep, FinishedStep, EndStep DEF IndInv
<1> QED
  BY <1>1, <1>2, PTL DEF Spec

(* A response that was finished is whole: every data frame of its body was   *)
(* sent, also those behind an error, after a head unless that was too large  *)
(* (worker/udp.rs 222-255).                                                  *)
THEOREM FinishedAreWhole == Spec => []FinishedIsWhole
<1>1. IndInv => FinishedIsWhole
  BY DEF IndInv
<1> QED
  BY <1>1, InductiveInvariant, PTL

(* No request ends the session for the others, however it fails, unless its  *)
(* handler panics (worker/udp.rs 281-307).                                   *)
THEOREM EndsAreCaused == Spec => []EndHasCause
<1>1. IndInv => EndHasCause
  BY DEF IndInv
<1> QED
  BY <1>1, InductiveInvariant, PTL

-----------------------------------------------------------------------------
(* The refinement of ConnectionTask.                                       *)

(* Every step of the session is a step of the task or leaves it alone.       *)
LEMMA TaskStep ==
    ASSUME SessionAssumption, TypeOK, [Next]_vars
    PROVE  [Task!Next]_(Task!vars)
<1> USE SessionAssumption DEF TypeOK, PCs, Serving, Over, SessionAssumption
<1>1. CASE Accept
  <2>1. stateBar = "idle" /\ stateBar' = "busy" /\ told' = told
    BY <1>1 DEF Accept, stateBar
  <2> QED
    BY <2>1 DEF Task!Next, Task!Start
<1>2. CASE AcceptEnds
  <2>1. stateBar = "idle" /\ stateBar' = "served" /\ told' = told
    BY <1>2 DEF AcceptEnds, stateBar
  <2> QED
    BY <2>1 DEF Task!Next, Task!End
<1>3. CASE HandlerPanics
  <2>1. stateBar = "busy" /\ stateBar' = "panicked" /\ told' = told
    BY <1>3 DEF HandlerPanics, stateBar
  <2> QED
    BY <2>1 DEF Task!Next, Task!Panic
<1>4. CASE Shut
  <2>1. CASE pc = "accept"
    <3>1. stateBar = "idle" /\ stateBar' = "closed" /\ told /\ told' = told
      BY <1>4, <2>1 DEF Shut, stateBar
    <3> QED
      BY <3>1 DEF Task!Next, Task!Shut
  <2>2. CASE pc \in Serving
    <3>1. stateBar = "busy" /\ stateBar' = "cut" /\ told /\ told' = told
      BY <1>4, <2>2 DEF Shut, stateBar
    <3> QED
      BY <3>1 DEF Task!Next, Task!Shut
  <2> QED
    BY <1>4, <2>1, <2>2 DEF Shut
<1>5. CASE pc \in Serving /\ pc' \in Serving /\ told' = told
  BY <1>5 DEF stateBar, Task!vars
<1>6. CASE pc \in Serving /\ pc' = "accept" /\ told' = told
  <2>1. stateBar = "busy" /\ stateBar' = "idle"
    BY <1>6 DEF stateBar
  <2> QED
    BY <1>6, <2>1 DEF Task!Next, Task!Done
<1>7. CASE Resolve \/ ResolveFails \/ Call \/ SendHead \/ HeadFails \/ SendData
           \/ SkipFrame \/ SendFails \/ FinishBody
  BY <1>5, <1>6, <1>7 DEF Resolve, ResolveFails, Call, SendHead, HeadFails, SendData, SkipFrame, SendFails, FinishBody,
     NextIs, AtEnd
<1>8. CASE Peer \/ UNCHANGED vars
  <2>1. UNCHANGED <<pc, current, told>>
    BY <1>8 DEF Peer, PeerOpens, PeerCompletes, PeerResets, PeerMoves, PeerLeaves, vars
  <2> QED
    BY <2>1 DEF stateBar, Task!vars
<1>9. CASE Tell
  <2>1. stateBar' = stateBar /\ ~told /\ told' = TRUE
    BY <1>9 DEF Tell, stateBar
  <2> QED
    BY <2>1 DEF Task!Next, Task!Tell
<1> QED
  BY <1>1, <1>2, <1>3, <1>4, <1>7, <1>8, <1>9 DEF Next, Step, Proceed, Write

(* Seen from outside, a session is the task of a connection: one request at  *)
(* a time, ended by itself between two, by a panic, or because it was told   *)
(* (worker/udp.rs 60-92 and 264-309).                                        *)
THEOREM SessionIsTask == Spec => Task!Init /\ [][Task!Next]_(Task!vars)
<1>1. Init => Task!Init
  BY DEF Init, Task!Init, stateBar, Serving
<1>2. IndInv /\ [Next]_vars => [Task!Next]_(Task!vars)
  BY SessionAssumption, TaskStep DEF IndInv
<1> QED
  BY <1>1, <1>2, InductiveInvariant, PTL DEF Spec


-----------------------------------------------------------------------------
(* No stream is lost, and no answer is altered.                            *)

Waits(r) == \E i \in 1..Len(incoming) : incoming[i] = r

(* A stream that the peer opened waits to be accepted, is served, or has its *)
(* outcome, and is never in two of these places: none is passed over, and    *)
(* none is served or answered twice.                                         *)
StreamsAccounted ==
    \A r \in Reqs : stream[r] # "absent" =>
        /\ r = current \/ outcome[r] # "none" \/ Waits(r)
        /\ r = current => outcome[r] = "none" /\ ~Waits(r)
        /\ Waits(r) => outcome[r] = "none"

(* Seen from one stream: it leaves the queue of those that wait only to be   *)
(* served, the current request only with an outcome, and an outcome never.   *)
LEMMA PlaceStep ==
    ASSUME SessionAssumption, IndInv, [Next]_vars, NEW r \in Reqs
    PROVE  /\ stream'[r] # "absent" /\ stream[r] = "absent" => Waits(r)'
           /\ Waits(r) => Waits(r)' \/ r = current'
           /\ r = current => r = current' \/ outcome'[r] # "none"
           /\ outcome[r] # "none" => outcome'[r] = outcome[r]
<1> USE DEF IndInv, TypeOK, peerVars
<1>1. CASE Accept
  <2>1. /\ Len(incoming) \in Nat \ {0}
        /\ Len(incoming') = Len(incoming) - 1
        /\ \A i \in 1..Len(incoming') : incoming'[i] = incoming[i + 1]
        /\ current' = incoming[1]
        /\ UNCHANGED <<stream, outcome>>
        /\ current = None
    BY <1>1 DEF Accept
  <2>2. ASSUME NEW i \in 1..Len(incoming), incoming[i] = r
        PROVE  Waits(r)' \/ r = current'
    <3>1. CASE i = 1
      BY <2>1, <2>2, <3>1
    <3>2. CASE i # 1
      <4>1. i - 1 \in 1..Len(incoming') /\ incoming'[i - 1] = incoming[i - 1 + 1] /\ i - 1 + 1 = i
        BY <2>1, <3>2
      <4> QED
        BY <2>2, <4>1 DEF Waits
    <3> QED
      BY <3>1, <3>2
  <2>3. Waits(r) => Waits(r)' \/ r = current'
    BY <2>2 DEF Waits
  <2> QED
    BY <2>1, <2>3, SessionAssumption DEF SessionAssumption
<1>2. ASSUME NEW q \in Reqs, PeerOpens(q)
      PROVE  /\ stream'[r] # "absent" /\ stream[r] = "absent" => Waits(r)'
             /\ Waits(r) => Waits(r)'
             /\ UNCHANGED <<current, outcome>>
  <2>1. /\ Len(incoming) \in Nat
        /\ Len(incoming') = Len(incoming) + 1
        /\ \A i \in 1..Len(incoming) : incoming'[i] = incoming[i]
        /\ incoming'[Len(incoming) + 1] = q
        /\ \A s \in Reqs \ {q} : stream'[s] = stream[s]
        /\ UNCHANGED <<current, outcome>>
    BY <1>2 DEF PeerOpens
  <2>2. 1..Len(incoming) \subseteq 1..Len(incoming') /\ Len(incoming) + 1 \in 1..Len(incoming')
    BY <2>1
  <2>3. stream'[r] # "absent" /\ stream[r] = "absent" => Waits(r)'
    BY <2>1, <2>2 DEF Waits
  <2>4. Waits(r) => Waits(r)'
    BY <2>1, <2>2 DEF Waits
  <2> QED
    BY <2>1, <2>3, <2>4
<1>3. CASE UNCHANGED <<incoming, current, outcome>> /\ (stream'[r] # "absent" => stream[r] # "absent")
  BY <1>3 DEF Waits
<1>4. CASE ResolveFails \/ SendFails \/ FinishBody
  <2>1. /\ UNCHANGED <<incoming, stream>>
        /\ current \in Reqs
        /\ outcome[current] = "none"
        /\ outcome'[current] # "none"
        /\ \A s \in Reqs \ {current} : outcome'[s] = outcome[s]
    BY <1>4 DEF ResolveFails, SendFails, FinishBody, Becomes, NextIs, AtEnd, Serving, CurrentInv
  <2> QED
    BY <2>1 DEF Waits
<1>5. CASE Call
  <2>1. CASE UNCHANGED <<outcome, current>>
    BY <1>5, <2>1 DEF Call, Waits
  <2>2. CASE Becomes("raw")
    <3>1. /\ UNCHANGED <<incoming, stream>>
          /\ current \in Reqs
          /\ outcome[current] = "none"
          /\ outcome'[current] # "none"
          /\ \A s \in Reqs \ {current} : outcome'[s] = outcome[s]
      BY <1>5, <2>2 DEF Call, Becomes, Serving, CurrentInv
    <3> QED
      BY <3>1 DEF Waits
  <2> QED
    BY <1>5, <2>1, <2>2 DEF Call
<1>6. CASE AcceptEnds \/ Resolve \/ SendHead \/ HeadFails \/ SendData \/ SkipFrame \/ HandlerPanics \/ Shut \/ Tell
             \/ PeerLeaves \/ UNCHANGED vars
  BY <1>3, <1>6 DEF AcceptEnds, Resolve, SendHead, HeadFails, SendData, SkipFrame, HandlerPanics, Shut, Tell,
                    PeerLeaves, vars
<1>7. ASSUME NEW q \in Reqs, PeerCompletes(q) \/ PeerResets(q)
      PROVE  UNCHANGED <<incoming, current, outcome>> /\ (stream'[r] # "absent" => stream[r] # "absent")
  BY <1>7 DEF PeerCompletes, PeerResets, PeerMoves
<1>8. CASE Peer
  BY <1>2, <1>3, <1>6, <1>7, <1>8 DEF Peer
<1> QED
  BY <1>1, <1>4, <1>5, <1>6, <1>8 DEF Next, Step, Proceed, Write

(* The safety core of AllHandled: whatever the peer does with a stream, and  *)
(* however its request fails, the loop of serve_connection() neither forgets *)
(* it nor serves it twice (worker/udp.rs 281-307).                           *)
THEOREM NoStreamIsLost == Spec => []StreamsAccounted
<1> DEFINE Inside == \A r \in Reqs : stream[r] # "absent" => r = current \/ outcome[r] # "none" \/ Waits(r)
<1>1. Init => Inside
  BY DEF Init
<1>2. IndInv /\ Inside /\ [Next]_vars => Inside'
  <2> SUFFICES ASSUME IndInv, Inside, [Next]_vars, NEW r \in Reqs, stream'[r] # "absent"
               PROVE  r = current' \/ outcome'[r] # "none" \/ Waits(r)'
    OBVIOUS
  <2> QED
    BY SessionAssumption, PlaceStep
<1>3. IndInv /\ Inside => StreamsAccounted
  BY DEF IndInv, IncomingInv, CurrentInv, Fresh, Waits, StreamsAccounted
<1> QED
  BY <1>1, <1>2, <1>3, InductiveInvariant, PTL DEF Spec

(* What is sent for a request is sent while it is the current one, its head  *)
(* before its data, one frame of its body after the other; what has an       *)
(* outcome is never touched again; and once the session is over nothing is.  *)
AnswersStay ==
    /\ \A r \in Reqs :
        /\ sent'[r] # sent[r] =>
             /\ r = current /\ sent'[r] = sent[r] + 1
             /\ body[r].frames[read + 1] = "data" /\ read' = read + 1
        /\ r \in head' \ head => r = current /\ sent[r] = 0
        /\ outcome[r] # "none" =>
             /\ outcome'[r] = outcome[r] /\ body'[r] = body[r] /\ sent'[r] = sent[r]
             /\ r \in head <=> r \in head'
    /\ head \subseteq head'
    /\ pc \in Over => UNCHANGED <<pc, current, outcome, body, read, head, sent>>

LEMMA AnswersStep ==
    ASSUME SessionAssumption, IndInv, [Next]_vars
    PROVE  AnswersStay
<1> USE DEF IndInv, TypeOK, Serving, CurrentInv
<1>1. CASE UNCHANGED <<pc, current, outcome, body, read, head, sent>>
  BY <1>1 DEF AnswersStay
<1>2. CASE Accept \/ AcceptEnds \/ Resolve \/ HandlerPanics \/ Shut \/ SkipFrame
  <2>1. UNCHANGED <<outcome, body, head, sent>> /\ pc \notin Over
    BY <1>2 DEF Accept, AcceptEnds, Resolve, HandlerPanics, Shut, SkipFrame, NextIs, Over
  <2> QED
    BY <2>1 DEF AnswersStay
<1>3. CASE ResolveFails \/ SendFails \/ FinishBody
  <2>1. /\ UNCHANGED <<body, head, sent>> /\ pc \notin Over
        /\ current \in Reqs /\ outcome[current] = "none"
        /\ \A r \in Reqs \ {current} : outcome'[r] = outcome[r]
    BY <1>3 DEF ResolveFails, SendFails, FinishBody, Becomes, NextIs, AtEnd, Over
  <2> QED
    BY <2>1 DEF AnswersStay
<1>4. CASE Call
  <2>1. /\ UNCHANGED <<head, sent>> /\ pc \notin Over
        /\ current \in Reqs /\ outcome[current] = "none"
        /\ \A r \in Reqs \ {current} : outcome'[r] = outcome[r] /\ body'[r] = body[r]
    BY <1>4 DEF Call, Becomes, Over
  <2> QED
    BY <2>1 DEF AnswersStay
<1>5. CASE SendHead \/ HeadFails
  <2>1. /\ UNCHANGED <<outcome, body, sent>> /\ pc \notin Over
        /\ current \in Reqs /\ outcome[current] = "none" /\ sent[current] = 0
        /\ head \subseteq head' /\ head' \subseteq head \cup {current}
    BY <1>5 DEF SendHead, HeadFails, Over
  <2> QED
    BY <2>1 DEF AnswersStay
<1>6. CASE SendData
  <2>1. /\ UNCHANGED <<outcome, body, head>> /\ pc \notin Over
        /\ current \in Reqs /\ outcome[current] = "none"
        /\ sent' = [sent EXCEPT ![current] = @ + 1] /\ read' = read + 1
        /\ body[current].frames[read + 1] = "data"
    BY <1>6 DEF SendData, NextIs, Over
  <2> QED
    BY <2>1 DEF AnswersStay
<1>7. CASE Peer \/ Tell \/ UNCHANGED vars
  BY <1>1, <1>7 DEF Peer, PeerOpens, PeerCompletes, PeerResets, PeerMoves, PeerLeaves, Tell, vars
<1> QED
  BY <1>2, <1>3, <1>4, <1>5, <1>6, <1>7 DEF Next, Step, Proceed, Write

(* One request at a time: an answer is written in order, and no later        *)
(* request, error or shutdown alters one that is complete (worker/udp.rs     *)
(* 200-261 and 281-307).                                                     *)
THEOREM AnswersAreFinal == Spec => [][AnswersStay]_vars
<1>1. IndInv /\ [Next]_vars => [AnswersStay]_vars
  BY SessionAssumption, AnswersStep
<1> QED
  BY <1>1, InductiveInvariant, PTL DEF Spec

=============================================================================
