--------------------------- MODULE CircuitLeases ---------------------------
(***************************************************************************)
(* What a pool of circuits promises: it lends circuits out.  A circuit is  *)
(* in one place at a time, with one user or with the loop that builds      *)
(* ahead, and is open when it is handed out; the pool forgets no open      *)
(* circuit before it shuts, and one that it forgot or refused is not       *)
(* handed out by it again.  Circuits may be closed wherever they are.      *)
(* What is taken past the pool is shared, and nothing is promised of it.   *)
(***************************************************************************)
CONSTANTS Users, Circuits

VARIABLES
  place,      (* a user, or "unmade", "pool", "loop", "dropped", "shared"  *)
  open        (* the circuits that are open                                *)

Hands == Users \cup {"loop"}
At(p) == {c \in Circuits : place[c] = p}

Init == place = [c \in Circuits |-> "unmade"] /\ open = {}

(* Circuit c goes to p, and those of D are forgotten.                      *)
Moved(c, p, D) ==
  [x \in Circuits |-> IF x = c THEN p ELSE IF x \in D THEN "dropped" ELSE place[x]]

Make(h, c, D) ==
  /\ At(h) = {} /\ c \in At("unmade") /\ D \subseteq At("pool") \ open
  /\ place' = Moved(c, h, D)
  /\ UNCHANGED open

Finish(h, c) == c \in At(h) \ open /\ open' = open \cup {c} /\ UNCHANGED place

GiveUp(h, c) ==
  /\ c \in At(h) \ open
  /\ place' = Moved(c, "unmade", {})
  /\ UNCHANGED open

Take(u, c, D) ==
  /\ At(u) = {} /\ c \in At("pool") \cap open /\ D \subseteq At("pool") \ open
  /\ place' = Moved(c, u, D)
  /\ UNCHANGED open

Discard(D) ==
  /\ D \subseteq At("pool") \ open
  /\ place' = [x \in Circuits |-> IF x \in D THEN "dropped" ELSE place[x]]
  /\ UNCHANGED open

(* An open circuit goes back into the pool, unless that is full.           *)
Return(h, c, p) ==
  /\ c \in At(h)
  /\ p = "dropped" \/ (p = "pool" /\ c \in open)
  /\ place' = Moved(c, p, {})
  /\ UNCHANGED open

Share(c) == c \in open /\ place' = Moved(c, "shared", {}) /\ UNCHANGED open

Close(D) == D \subseteq open /\ open' = open \ D /\ UNCHANGED place

(* The pool shuts; circuits it has that are shared are closed as well.     *)
Shut(D) ==
  /\ D \subseteq At("shared")
  /\ place' = [x \in Circuits |-> IF place[x] = "pool" THEN "dropped" ELSE place[x]]
  /\ open' = open \ (At("pool") \cup D)

Next ==
  \/ \E h \in Hands, c \in Circuits, D \in SUBSET Circuits : Make(h, c, D)
  \/ \E h \in Hands, c \in Circuits : Finish(h, c) \/ GiveUp(h, c)
  \/ \E u \in Users, c \in Circuits, D \in SUBSET Circuits : Take(u, c, D)
  \/ \E h \in Hands, c \in Circuits, p \in {"pool", "dropped"} : Return(h, c, p)
  \/ \E c \in Circuits : Share(c)
  \/ \E D \in SUBSET Circuits : Discard(D) \/ Close(D) \/ Shut(D)

Spec == Init /\ [][Next]_<<place, open>>
=============================================================================
