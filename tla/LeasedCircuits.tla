--------------------------- MODULE LeasedCircuits ---------------------------
(***************************************************************************)
(* The circuit pool as a place that lends circuits out: where each circuit *)
(* is, as CircuitLeases tells the places apart.                            *)
(***************************************************************************)
EXTENDS CircuitPool

(* No user is called like a place.                                         *)
ASSUME PlacesAssumption ==
  Users \cap {"unmade", "pool", "loop", "dropped", "shared"} = {}

Pooled(c) == \E k \in AllKeys : InSeq(c, pool[k])
Held(c) == \E u \in Users : circ[u] = c

(* What GetCircuit's fallback took is shared, wherever it is.  A circuit   *)
(* that was made and is nowhere has been dropped.                          *)
Place(c) ==
  IF c \in lent THEN "shared"
  ELSE IF Held(c) THEN CHOOSE u \in Users : circ[u] = c
  ELSE IF preCirc = c THEN "loop"
  ELSE IF Pooled(c) THEN "pool"
  ELSE IF state[c] = "unmade" THEN "unmade"
  ELSE "dropped"

places == [c \in Circuits |-> Place(c)]
opened == {c \in Circuits : state[c] = "OPEN"}

Leases == INSTANCE CircuitLeases WITH place <- places, open <- opened

(* The pool, its users, its prebuild loop and the client that closes its   *)
(* circuits behind its back implement the loans: also while a build is     *)
(* under way, after one failed and after the pool was closed, a circuit    *)
(* has one holder, who got it open, until the holder brings it back; only  *)
(* the fallback of GetCircuit is outside the promise                       *)
(* (circuit_pool.go:88-186, 270-291, client.go:430-510, 535-560).          *)
ImplementsLeases == Leases!Spec
=============================================================================
