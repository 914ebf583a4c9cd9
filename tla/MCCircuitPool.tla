--------------------------- MODULE MCCircuitPool ---------------------------
(* Small instances of CircuitPool for TLC.                                 *)
EXTENDS LeasedCircuits

CONSTANTS u1, u2, c1, c2, ada, site, local

(* One request has a user name, the other none.                            *)
MCRequests ==
  {[destination |-> site, credential |-> name, port |-> local, session |-> Blank] : name \in {ada, Blank}}
MCIsolation == [level |-> ParseIsolationLevel("credentials"), isolate |-> {"credential"}]
=============================================================================
