---------------------------- MODULE MCOnionClient ----------------------------
(* A small instance of OnionClient for TLC.                                *)
EXTENDS OnionClient

CONSTANTS p1, d1, d2

(* Bound: the host publishes once; a second round would store the same.    *)
PublishesOnce == \A p \in Publishers : inLoop[p] => at'[p] \in {"waiting", "off"}

(* Bound: cells that nobody asked for come in calls that had the           *)
(* descriptor in the cache; the others go on in the same way.              *)
OthersWhenCached == (\E cell \in RendCells : OtherArrives(cell)) => chosen = << {}, {} >>

MCSpec == Init /\ [][Next /\ PublishesOnce /\ OthersWhenCached]_vars /\ WF_vars(ConnectStep)
=============================================================================
