--------------------------- MODULE MCTcpListener ---------------------------
(***************************************************************************)
(* Instances of TcpListener for TLC.                                       *)
(***************************************************************************)
EXTENDS TcpListener, TLC

CONSTANTS c1, c2, c3, a1, a2, w1, w2

(* c1 and c2 come from one address, c3 from another *)
SharedAddr(c) == IF c = c3 THEN a2 ELSE a1

WorkerSymmetry == Permutations(Workers)

=============================================================================
