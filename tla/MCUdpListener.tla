--------------------------- MODULE MCUdpListener ---------------------------
(***************************************************************************)
(* Instances of UdpListener for TLC.                                       *)
(***************************************************************************)
EXTENDS UdpListener

CONSTANTS c1, c2, c3, a1, a2, w1, w2

(* c1 and c2 are connections of one address, c3 of another *)
SharedAddr(c) == IF c = c3 THEN a2 ELSE a1

=============================================================================
