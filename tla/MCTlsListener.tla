--------------------------- MODULE MCTlsListener ---------------------------
(***************************************************************************)
(* Instances of TlsListener for TLC.                                       *)
(***************************************************************************)
EXTENDS TlsListener

CONSTANTS modern, upper, ip, web, curl, fox, old, telnet, m, M, i

(* a host with TLS in its configuration, one of the same name in capitals   *)
(* that add_tls() may give TLS with another protocol, and one that is known *)
(* by an address                                                            *)
NameOf(h) == CASE h = modern -> m [] h = upper -> M [] h = ip -> i

InSmallLetters(n) == IF n = M THEN m ELSE n

AlpnsOf(h) == IF h = modern THEN {"h2"} ELSE {"http/1.1"}

(* curl and fox ask in capitals, fox with a protocol that upper lacks, old  *)
(* gives no name, telnet speaks no TLS                                      *)
AskedBy(c) == CASE c \in {curl, fox} -> M [] c = old -> None [] OTHER -> m

OfferedBy(c) == CASE c = web -> {"h2", "http/1.1"} [] c = curl -> {} [] OTHER -> {"h2"}

=============================================================================
