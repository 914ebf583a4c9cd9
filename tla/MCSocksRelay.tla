---------------------------- MODULE MCSocksRelay ----------------------------
(* A small instance of SocksRelay for TLC.                                 *)
EXTENDS RelayedStreams

CONSTANTS h1, h2, c1

(* Ids have wrapped: h2 has had id 1 of c1 and left when the wait for      *)
(* CONNECTED timed out, its exit is still there, the other ids have gone   *)
(* to connections of which nothing is left, and the next one is 1 again.   *)
WrappedInit ==
  /\ loop = None /\ active = {}
  /\ stopping = FALSE /\ shutdown = FALSE
  /\ conn = [h \in Handlers |-> IF h = h2 THEN "closed" ELSE "none"]
  /\ pc = [h \in Handlers |-> IF h = h2 THEN "done" ELSE "idle"]
  /\ up = [h \in Handlers |-> "none"] /\ down = [h \in Handlers |-> "none"]
  /\ held = [h \in Handlers |-> None]
  /\ streams = [i \in StreamIDs |-> None] /\ nextID = 1
  /\ sid = [h \in Handlers |-> IF h = h2 THEN 1 ELSE 0]
  /\ pooled = Circuits
  /\ circ = [h \in Handlers |-> IF h = h2 THEN c1 ELSE None]
  /\ queue = [c \in Circuits |-> << [id |-> 1, cmd |-> "CONNECTED", of |-> h2, n |-> 0] >>]
  /\ exit = [h \in Handlers |-> IF h = h2 THEN "open" ELSE "none"]
  /\ sent = [h \in Handlers |-> 0]
  /\ got = [h \in Handlers |-> << >>]
  /\ answer = [h \in Handlers |-> None]

MCSpec == (Init \/ WrappedInit) /\ [][Next]_vars /\ Fairness
=============================================================================
