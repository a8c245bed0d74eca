--------------------------- MODULE ConnectionTask ---------------------------
(***************************************************************************)
(* What the task of one QUIC connection promises to the worker that        *)
(* spawned it (worker/udp.rs): it serves one request at a time, ends by    *)
(* itself only between two requests, otherwise with a handler that panics  *)
(* or because the worker told it to; once told, it ends.  UdpListener      *)
(* looks at the tasks from the listener's side and Http3Session looks into *)
(* one of them: both are shown to implement this specification.            *)
(***************************************************************************)

VARIABLES
    state,      \* "none", "idle", "busy", "served", "panicked", "closed" or "cut"
    told        \* has the signal of the worker been sent, or dropped?

vars == <<state, told>>

(* not yet spawned, or just spawned *)
Init ==
    /\ state \in {"none", "idle"}
    /\ told = FALSE

Begin ==
    /\ state = "none"
    /\ state' = "idle"
    /\ UNCHANGED told

Start ==
    /\ state = "idle"
    /\ state' = "busy"
    /\ UNCHANGED told

Done ==
    /\ state = "busy"
    /\ state' = "idle"
    /\ UNCHANGED told

(* the panic of a handler unwinds the task *)
Panic ==
    /\ state = "busy"
    /\ state' = "panicked"
    /\ UNCHANGED told

(* the connection is over: the loop of serve_connection() ends *)
End ==
    /\ state = "idle"
    /\ state' = "served"
    /\ UNCHANGED told

Tell ==
    /\ ~told
    /\ told' = TRUE
    /\ UNCHANGED state

(* the other branch of the select, wherever the first one stands *)
Shut ==
    /\ told
    /\ \/ state = "idle" /\ state' = "closed"
       \/ state = "busy" /\ state' = "cut"
    /\ UNCHANGED told

Next == Begin \/ Start \/ Done \/ Panic \/ End \/ Tell \/ Shut

Spec == Init /\ [][Next]_vars /\ WF_vars(Shut)

=============================================================================
