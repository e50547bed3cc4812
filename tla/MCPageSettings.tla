--------------------------- MODULE MCPageSettings ---------------------------
(* PageSettings with one address of the user's and two that a deployment     *)
(* pins: a bare remote one, which page and server read differently, and one   *)
(* over TLS.                                                                  *)
EXTENDS PageSettings

MCUrls == {[scheme |-> "http", host |-> "remote", path |-> "none"]}
MCPins == {[scheme |-> "bare", host |-> "remote", path |-> "none"],
           [scheme |-> "wss", host |-> "remote", path |-> "given"]}
=============================================================================
