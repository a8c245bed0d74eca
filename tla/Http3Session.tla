---------------------------- MODULE Http3Session ----------------------------
(***************************************************************************)
(* The task of one QUIC connection (worker/udp.rs): the loop of            *)
(* serve_connection(), which resolves one request, calls the service and   *)
(* writes the response before it accepts the next, inside the select that  *)
(* listens to the signal of the worker.                                    *)
(*                                                                         *)
(* The peer opens streams, completes or resets its requests and may go     *)
(* away at any time.  It need not read either: a write has no timeout, and *)
(* completes when the peer makes room.  A handler may take for ever, and   *)
(* the body of its response is a sequence of frames that may hold errors;  *)
(* a status page whose file cannot be read gives errors without end        *)
(* (io.rs).                                                                *)
(***************************************************************************)
EXTENDS Naturals, Sequences, FiniteSets

CONSTANTS
    Reqs,       \* the requests that the peer may make
    Raw,        \* those that are WebTransport CONNECTs
    BigHead,    \* those whose response head is larger than the peer accepts
    Bodies,     \* the bodies of responses: [frames, endless]
    None        \* "no request"

Frames == {"data", "trailers", "error"}

ASSUME SessionAssumption ==
    /\ None \notin Reqs
    /\ Raw \cup BigHead \subseteq Reqs
    /\ \A b \in Bodies : b.frames \in Seq(Frames) /\ b.endless \in BOOLEAN

VARIABLES
    pc,         \* where serve_connection() stands
    current,    \* the request it serves
    incoming,   \* the streams it has not accepted, in the order they arrived
    stream,     \* what the peer has done on each stream
    link,       \* is the QUIC connection "up" or "gone"?
    outcome,    \* what became of each request
    body,       \* the body of each response
    read,       \* the number of frames read of the current one
    head,       \* the requests whose response head was sent
    sent,       \* the number of data frames sent for each request
    told        \* the worker's signal was sent, or the worker is gone

peerVars == <<stream, link>>
vars == <<pc, current, incoming, peerVars, outcome, body, read, head, sent, told>>

-----------------------------------------------------------------------------

PCs      == {"accept", "resolve", "call", "head", "body", "ended", "panicked", "shut"}
Streams  == {"absent", "opened", "complete", "reset"}
Outcomes == {"none", "refused", "raw", "finished", "failed"}

NoBody == [frames |-> <<>>, endless |-> FALSE]

Serving == {"resolve", "call", "head", "body"}
Over    == {"ended", "panicked", "shut"}

Broken(r) == stream[r] = "reset" \/ link = "gone"

Init ==
    /\ pc = "accept"
    /\ current = None
    /\ incoming = <<>>
    /\ stream = [r \in Reqs |-> "absent"]
    /\ link = "up"
    /\ outcome = [r \in Reqs |-> "none"]
    /\ body = [r \in Reqs |-> NoBody]
    /\ read = 0
    /\ head = {}
    /\ sent = [r \in Reqs |-> 0]
    /\ told = FALSE

-----------------------------------------------------------------------------
(* serve_connection(), serve_raw() and serve_http().                       *)

Accept ==
    /\ pc = "accept"
    /\ incoming # <<>>
    /\ pc' = "resolve"
    /\ current' = Head(incoming)
    /\ incoming' = Tail(incoming)
    /\ UNCHANGED <<peerVars, outcome, body, read, head, sent, told>>

(* MUTANT: a third branch of the select waits for the end of the connection *)
AcceptEnds_AnyTime ==
    /\ pc \notin Over
    /\ link = "gone"
    /\ pc' = "ended"
    /\ UNCHANGED <<current, incoming, peerVars, outcome, body, read, head, sent, told>>

(* accept() returns None or an error: either leaves the loop, even when *)
(* streams that arrived before are still to be accepted                 *)
AcceptEnds ==
    /\ pc = "accept"
    /\ link = "gone"
    /\ pc' = "ended"
    /\ UNCHANGED <<current, incoming, peerVars, outcome, body, read, head, sent, told>>

Resolve ==
    /\ pc = "resolve"
    /\ stream[current] = "complete"
    /\ pc' = "call"
    /\ UNCHANGED <<current, incoming, peerVars, outcome, body, read, head, sent, told>>

Becomes(o) ==
    /\ outcome' = [outcome EXCEPT ![current] = o]
    /\ current' = None

(* MUTANT: the error is returned with ? in place of being passed over *)
ResolveFails_Ends ==
    /\ pc = "resolve"
    /\ stream[current] = "complete" \/ Broken(current)
    /\ pc' = "ended"
    /\ Becomes("refused")
    /\ UNCHANGED <<incoming, peerVars, body, read, head, sent, told>>

(* a request that is malformed, or whose stream is broken, is passed over *)
ResolveFails ==
    /\ pc = "resolve"
    /\ stream[current] = "complete" \/ Broken(current)
    /\ pc' = "accept"
    /\ Becomes("refused")
    /\ UNCHANGED <<incoming, peerVars, body, read, head, sent, told>>

(* The service answers: it never fails, a failure of the handler is a 500.  *)
(* For WebTransport the request owned the stream, and the response is only  *)
(* looked at for an error.                                                  *)
Call ==
    /\ pc = "call"
    /\ \/ /\ current \in Raw
          /\ pc' = "accept"
          /\ Becomes("raw")
          /\ UNCHANGED body
       \/ /\ current \notin Raw
          /\ pc' = "head"
          /\ \E b \in Bodies : body' = [body EXCEPT ![current] = b]
          /\ UNCHANGED <<outcome, current>>
    /\ read' = 0
    /\ UNCHANGED <<incoming, peerVars, head, sent, told>>

(* the handler panics, and takes the task with it *)
HandlerPanics ==
    /\ pc = "call"
    /\ pc' = "panicked"
    /\ UNCHANGED <<current, incoming, peerVars, outcome, body, read, head, sent, told>>

Refused(r) == Broken(r) \/ r \in BigHead

(* the peer has room for the head *)
SendHead ==
    /\ pc = "head"
    /\ ~Refused(current)
    /\ pc' = "body"
    /\ head' = head \cup {current}
    /\ UNCHANGED <<current, incoming, peerVars, outcome, body, read, sent, told>>

(* an error of send_response() is logged, and the body is written all the same *)
HeadFails ==
    /\ pc = "head"
    /\ Refused(current)
    /\ pc' = "body"
    /\ UNCHANGED <<current, incoming, peerVars, outcome, body, read, head, sent, told>>

NextIs(kinds) ==
    /\ pc = "body"
    /\ read < Len(body[current].frames)
    /\ body[current].frames[read + 1] \in kinds

AtEnd ==
    /\ pc = "body"
    /\ read = Len(body[current].frames)
    /\ ~body[current].endless

(* the peer has room for the frame *)
SendData ==
    /\ NextIs({"data"})
    /\ ~Broken(current)
    /\ read' = read + 1
    /\ sent' = [sent EXCEPT ![current] = @ + 1]
    /\ UNCHANGED <<pc, current, incoming, peerVars, outcome, body, head, told>>

(* MUTANT: "while let Some(Ok(..))": the first error is taken for the end *)
SkipFrame_Ends ==
    /\ NextIs({"trailers", "error"})
    /\ read' = Len(body[current].frames)
    /\ UNCHANGED <<pc, current, incoming, peerVars, outcome, body, head, sent, told>>

(* "if let Ok": errors and trailers are passed over *)
SkipFrame ==
    /\ NextIs({"trailers", "error"})
    /\ read' = read + 1
    /\ UNCHANGED <<pc, current, incoming, peerVars, outcome, body, head, sent, told>>

(* MUTANT: a write that fails is tried again *)
SendFails_Again ==
    /\ NextIs({"data"}) \/ AtEnd
    /\ Broken(current)
    /\ UNCHANGED vars

(* MUTANT: a frame that cannot be written is logged and the next one is read *)
SendFails_GoesOn ==
    /\ NextIs({"data"})
    /\ Broken(current)
    /\ read' = read + 1
    /\ UNCHANGED <<pc, current, incoming, peerVars, outcome, body, head, sent, told>>

(* send_data() or finish() fails: serve_http() returns, the loop goes on *)
SendFails ==
    /\ NextIs({"data"}) \/ AtEnd
    /\ Broken(current)
    /\ pc' = "accept"
    /\ Becomes("failed")
    /\ UNCHANGED <<incoming, peerVars, body, read, head, sent, told>>

(* Only an end of the body leaves the loop: an endless one gives one error *)
(* after the other, each passed over, and nothing else happens.            *)
FinishBody ==
    /\ AtEnd
    /\ ~Broken(current)
    /\ pc' = "accept"
    /\ Becomes("finished")
    /\ UNCHANGED <<incoming, peerVars, body, read, head, sent, told>>

(* MUTANT: the signal is looked at between two requests only *)
Shut_BetweenRequests ==
    /\ told
    /\ pc = "accept"
    /\ pc' = "shut"
    /\ UNCHANGED <<current, incoming, peerVars, outcome, body, read, head, sent, told>>

(* the other branch of the select drops the loop wherever it is *)
Shut ==
    /\ told
    /\ pc \notin Over
    /\ pc' = "shut"
    /\ UNCHANGED <<current, incoming, peerVars, outcome, body, read, head, sent, told>>

-----------------------------------------------------------------------------
(* The peer and the worker.                                                *)

PeerOpens(r) ==
    /\ link = "up"
    /\ stream[r] = "absent"
    /\ stream' = [stream EXCEPT ![r] = "opened"]
    /\ incoming' = Append(incoming, r)
    /\ UNCHANGED <<pc, current, link, outcome, body, read, head, sent, told>>

PeerMoves(r, from, to) ==
    /\ link = "up"
    /\ stream[r] \in from
    /\ stream' = [stream EXCEPT ![r] = to]
    /\ UNCHANGED <<pc, current, incoming, link, outcome, body, read, head, sent, told>>

PeerCompletes(r) == PeerMoves(r, {"opened"}, "complete")

PeerResets(r) == PeerMoves(r, {"opened", "complete"}, "reset")

(* it closes the connection, or falls silent until the idle timeout *)
PeerLeaves ==
    /\ link = "up"
    /\ link' = "gone"
    /\ UNCHANGED <<pc, current, incoming, stream, outcome, body, read, head, sent, told>>

Tell ==
    /\ ~told
    /\ told' = TRUE
    /\ UNCHANGED <<pc, current, incoming, peerVars, outcome, body, read, head, sent>>

-----------------------------------------------------------------------------

(* what the loop does by itself *)
Proceed ==
    \/ Accept
    \/ AcceptEnds
    \/ Resolve
    \/ ResolveFails
    \/ HeadFails
    \/ SkipFrame
    \/ SendFails

(* what it does once the peer has made room *)
Write ==
    \/ SendHead
    \/ SendData
    \/ FinishBody

Step == Proceed \/ Write

Peer ==
    \/ \E r \in Reqs : PeerOpens(r) \/ PeerCompletes(r) \/ PeerResets(r)
    \/ PeerLeaves

Next == Step \/ Call \/ HandlerPanics \/ Shut \/ Peer \/ Tell

(* The task is scheduled.  A peer need not complete a request nor read a     *)
(* response, so a write may wait for ever; a handler need not answer, and    *)
(* the worker need not say anything.                                         *)
Fairness ==
    /\ WF_vars(Proceed)
    /\ WF_vars(Shut)

Spec == Init /\ [][Next]_vars

FairSpec == Spec /\ Fairness

-----------------------------------------------------------------------------
(* Properties.                                                             *)

(* Every variable stays within its type; there is a current request exactly *)
(* while one is served.                                                     *)
TypeOK ==
    /\ pc \in PCs
    /\ current \in Reqs \cup {None}
    /\ incoming \in Seq(Reqs)
    /\ stream \in [Reqs -> Streams]
    /\ link \in {"up", "gone"}
    /\ outcome \in [Reqs -> Outcomes]
    /\ body \in [Reqs -> Bodies \cup {NoBody}]
    /\ read \in Nat
    /\ head \subseteq Reqs
    /\ sent \in [Reqs -> Nat]
    /\ told \in BOOLEAN
    /\ pc = "accept" => current = None
    /\ pc \in Serving => current \in Reqs

(* the data frames among the first n of a body *)
DataFrames(b, n) == {i \in 1..n : b.frames[i] = "data"}

(* A response that was finished carries every data frame of its body, also   *)
(* those behind an error, and a head, unless that was too large: then the    *)
(* peer gets a body without a head (worker/udp.rs 222-255).                  *)
FinishedIsWhole ==
    \A r \in Reqs : outcome[r] = "finished" =>
        /\ r \in head \cup BigHead
        /\ sent[r] = Cardinality(DataFrames(body[r], Len(body[r].frames)))

(* The session is over only when the connection is gone or the worker told   *)
(* it: no request, however it fails, ends it for the others, unless its      *)
(* handler panics (worker/udp.rs 281-307).                                   *)
EndHasCause ==
    /\ pc = "ended" => link = "gone"
    /\ pc = "shut" => told

(* The inductive invariant that the proofs of Http3SessionProofs rest on. *)

Fresh(r) == outcome[r] = "none" /\ sent[r] = 0

(* a stream is accepted once: what waits is new, and waits in one place *)
IncomingInv ==
    /\ \A r \in Reqs : stream[r] = "absent" => r # current /\ Fresh(r)
    /\ \A i \in 1..Len(incoming) :
         stream[incoming[i]] # "absent" /\ incoming[i] # current /\ Fresh(incoming[i])
    /\ \A i, j \in 1..Len(incoming) : incoming[i] = incoming[j] => i = j

(* what has been done for the current request *)
CurrentInv ==
    /\ current \in Reqs => outcome[current] = "none"
    /\ pc \in {"resolve", "call", "head"} => sent[current] = 0
    /\ pc = "head" => read = 0
    /\ pc = "body" =>
         /\ read <= Len(body[current].frames)
         /\ sent[current] = Cardinality(DataFrames(body[current], read))
         /\ current \in head \cup BigHead \/ Broken(current)

IndInv ==
    /\ TypeOK
    /\ IncomingInv
    /\ CurrentInv
    /\ FinishedIsWhole
    /\ EndHasCause

(* a write that waits for the peer to make room *)
Writing ==
    \/ pc = "head" /\ ~Refused(current)
    \/ (NextIs({"data"}) \/ AtEnd) /\ ~Broken(current)

(* what holds up the loop, and with it every stream that arrived later: a    *)
(* handler, a request that is not complete, a peer that stays and does not   *)
(* read, a body without an end                                               *)
HeldUp ==
    \/ pc = "call"
    \/ pc = "resolve" /\ stream[current] = "opened" /\ ~Broken(current)
    \/ Writing
    \/ pc = "body" /\ read = Len(body[current].frames) /\ body[current].endless

(* Unless one request holds up the loop for good, every stream is served,    *)
(* refused or let go with the session (worker/udp.rs 281-307): a write that  *)
(* the peer broke, or a frame that is none of data, holds nothing up.        *)
AllHandled ==
    []<>~HeldUp =>
        \A r \in Reqs : stream[r] # "absent" ~> outcome[r] # "none" \/ pc \in Over

(* Once the worker has told it, the session ends, whatever holds it up       *)
(* (worker/udp.rs 78-87).                                                    *)
SessionEnds == told ~> pc \in Over

-----------------------------------------------------------------------------
(* The session is the task of a connection.                                *)

stateBar ==
    CASE pc = "accept" -> "idle"
      [] pc \in Serving -> "busy"
      [] pc = "ended" -> "served"
      [] pc = "panicked" -> "panicked"
      [] pc = "shut" -> IF current = None THEN "closed" ELSE "cut"

Task == INSTANCE ConnectionTask WITH state <- stateBar

(* It serves one request at a time and ends by itself only between two,      *)
(* otherwise when it is told (worker/udp.rs 60-92 and 264-309).              *)
ImplementsTask == Task!Spec

=============================================================================
