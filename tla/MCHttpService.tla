--------------------------- MODULE MCHttpService ---------------------------
(***************************************************************************)
(* Instances of HttpService for TLC.                                       *)
(***************************************************************************)
EXTENDS HttpService

CONSTANTS web, tls, alt, n1, n2

(* web and alt share a name and two addresses; tls redirects, alt has a bad *)
(* header                                                                  *)
NameOf(h) == IF h = tls THEN n2 ELSE n1

At(over, on, port) == [over |-> over, on |-> on, port |-> port]

SomeAddresses ==
    { At("tcp", "all", 80), At("tcp", "all", 443), At("tcp", "all", 8080), At("tcp", "local", 8080),
      At("udp", "all", 80), At("udp", "all", 443) }

BoundTo(h) ==
    CASE h = web -> { At("tcp", "all", 80), At("udp", "all", 80), At("tcp", "local", 8080) }
      [] h = tls -> { At("tcp", "all", 80), At("tcp", "all", 443), At("udp", "all", 443),
                      At("tcp", "all", 8080) }
      [] h = alt -> { At("tcp", "all", 80), At("tcp", "all", 8080), At("udp", "all", 80) }

PathsOf(h) ==
    IF h = web
    THEN { <<"/", "a">>, <<"/", "a", "b">>, <<"/", "b", "a">> }
    ELSE { <<"/">>, <<"/", "a", "/", "b">> }

(* a path beside those of web, and two that cannot be built *)
DraftsOf(h) ==
    IF h = web
    THEN { [uri |-> <<"/", "a", "a">>, handler |-> TRUE], [uri |-> <<>>, handler |-> TRUE],
           [uri |-> <<"/", "b">>, handler |-> FALSE] }
    ELSE {}

PagesOf(h) == IF h = web THEN {404, 500} ELSE {}

IsSecured(h) == h = tls

HasBadHeader(h) == h = alt

Asked ==
    { <<"/">>, <<"/", "a">>, <<"/", "a", "b">>, <<"/", "a", "a">>, <<"/", "b">>,
      <<"/", "a", "/", "b", "/">>, <<"/", "a", ".", ".">> }

SomeQueries == { <<>>, <<"a">> }

=============================================================================
