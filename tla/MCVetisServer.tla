--------------------------- MODULE MCVetisServer ---------------------------
(***************************************************************************)
(* Instances of VetisServer and LogPipeline for TLC.                       *)
(***************************************************************************)
EXTENDS LogPipeline

CONSTANTS h1, h2, h3, p1, p2

(* h1 and h3 have one name *)
Names(h) == IF h = h2 THEN "b" ELSE "a"

(* h1 asks for p1, h2 for any address, h3 for both *)
Binds(h) == CASE h = h1 -> <<p1>> [] h = h2 -> <<Any>> [] h = h3 -> <<p1, Any>>

Transports(h) == CASE h = h1 -> {"tcp"} [] h = h2 -> {"tcp", "udp"} [] h = h3 -> {"udp"}

=============================================================================
