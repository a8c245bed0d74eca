-------------------------- MODULE ListenerContract --------------------------
(***************************************************************************)
(* What a VeTiS listener promises to the server that owns it, for both     *)
(* transports (the Listener trait of the vetis crate as listener/tcp.rs    *)
(* and listener/udp.rs implement it): connections begin only between       *)
(* listen() and the end of the shutdown, each begins and ends once, and a  *)
(* requested shutdown is carried out.                                      *)
(*                                                                         *)
(* A connection "begins" when a worker gives it a task of its own, and is  *)
(* "over" when that task has finished, whatever the reason.  The contract  *)
(* lets tasks outlive the shutdown: stop() joins the dispatcher and the    *)
(* workers but not the tasks of the connections.                           *)
(***************************************************************************)

CONSTANTS
    Conns,          \* the connections that clients may open
    MayCollapse     \* may the listener close without having been asked to?

VARIABLES
    phase,          \* "idle", "open", "closing" or "closed"
    begun,          \* the connections that were given a task
    over            \* those whose task has finished

vars == <<phase, begun, over>>

Init ==
    /\ phase = "idle"
    /\ begun = {}
    /\ over = {}

-----------------------------------------------------------------------------

(* listen() succeeded *)
Open ==
    /\ phase = "idle"
    /\ phase' = "open"
    /\ UNCHANGED <<begun, over>>

Begin(c) ==
    /\ phase \in {"open", "closing"}
    /\ c \in Conns \ begun
    /\ begun' = begun \cup {c}
    /\ UNCHANGED <<phase, over>>

End(c) ==
    /\ c \in begun \ over
    /\ over' = over \cup {c}
    /\ UNCHANGED <<phase, begun>>

(* the owner called stop() or dropped the listener *)
Shut ==
    /\ phase = "open"
    /\ phase' = "closing"
    /\ UNCHANGED <<begun, over>>

(* the dispatcher and all of its workers are gone *)
Finish ==
    /\ phase = "closing"
    /\ phase' = "closed"
    /\ UNCHANGED <<begun, over>>

(* stopped or dropped without ever having listened *)
Discard ==
    /\ phase = "idle"
    /\ phase' = "closed"
    /\ UNCHANGED <<begun, over>>

(* the listener closed by itself *)
Collapse ==
    /\ MayCollapse
    /\ phase = "open"
    /\ phase' = "closed"
    /\ UNCHANGED <<begun, over>>

Next ==
    \/ Open
    \/ Shut
    \/ Finish
    \/ Discard
    \/ Collapse
    \/ \E c \in Conns : Begin(c) \/ End(c)

(* A requested shutdown is carried out. *)
Spec == Init /\ [][Next]_vars /\ WF_vars(Finish)

=============================================================================
