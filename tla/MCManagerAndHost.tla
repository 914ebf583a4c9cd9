-------------------------- MODULE MCManagerAndHost --------------------------
(***************************************************************************)
(* Small instances of CircuitManager and OnionService for TLC.  They do    *)
(* not interact, and are explored one at a time.                           *)
(***************************************************************************)
EXTENDS CircuitManager, OnionService

CONSTANTS b1, b2, w1, c1, c2, c3, p1, p2, d1

MCInit == Init /\ ServiceInit
(* The first publisher to start is p1.                                     *)
MCNext ==
  \/ ServiceInit /\ Next /\ UNCHANGED serviceVars
  \/ Init /\ ServiceNext /\ (ServiceInit => at'[p2] = "off") /\ UNCHANGED vars
MCSpec == MCInit /\ [][MCNext]_<<vars, serviceVars>> /\ Fairness
=============================================================================
