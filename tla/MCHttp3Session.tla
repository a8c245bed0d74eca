--------------------------- MODULE MCHttp3Session ---------------------------
(***************************************************************************)
(* Instances of Http3Session for TLC.                                      *)
(***************************************************************************)
EXTENDS Http3Session

CONSTANTS r1, r2, r3

Body(frames, endless) == [frames |-> frames, endless |-> endless]

(* whole, empty with trailers, failing in the middle, failing for ever *)
SomeBodies ==
    { Body(<<"data", "data">>, FALSE),
      Body(<<"trailers">>, FALSE),
      Body(<<>>, FALSE),
      Body(<<"data", "error", "data">>, FALSE),
      Body(<<"data">>, TRUE) }

=============================================================================
