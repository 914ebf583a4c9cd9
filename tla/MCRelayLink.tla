---------------------------- MODULE MCRelayLink -----------------------------
(***************************************************************************)
(* Small instances of RelayLink for TLC.  The pools and the link are       *)
(* explored one at a time: no pool is in use while Client does something   *)
(* with its connection.                                                    *)
(***************************************************************************)
EXTENDS RelayLink, TLC

CONSTANTS u1, u2, k1, k2, k3, s1, s2

Quiet ==
  /\ entry = NoEntry /\ available = << >> /\ ~shut /\ replaced = {} /\ closedEarly = {}
  /\ \A u \in Users \ {Client} : at[u] = "idle"

OneAtATime == LinkIdle \/ Quiet

MCSpec == Init /\ [][Next /\ OneAtATime']_vars
LinkSym == Permutations(Conns) \cup Permutations(Senders)
=============================================================================
