-------------------------- MODULE RememberedCells --------------------------
(***************************************************************************)
(* The replay filter as a memory of cells: what its window and its digests *)
(* remember, next to a history of how the filter has been used.            *)
(***************************************************************************)
EXTENDS ReplayProtection

(* History: a caller has used a number of its own since the last Reset.    *)
VARIABLE mixed

UseInit == ReplayInit /\ mixed = FALSE

UseNext ==
  \/ \E d \in Directions, n \in 0 .. MaxSeq, c \in Digests :
       ValidateAndTrack(d, n, c) /\ mixed' = TRUE
  \/ \E d \in Directions, c \in Digests : ValidateAndTrackAuto(d, c) /\ UNCHANGED mixed
  \/ \E d \in Directions : GetNextSequence(d) /\ mixed' = TRUE
  \/ Reset /\ mixed' = FALSE

UseSpec == UseInit /\ [][UseNext]_<<replayVars, mixed>>

-----------------------------------------------------------------------------
(* The content that was tracked with number n.                             *)
Holder(d, n) == CHOOSE c \in Digests : digests[d][c] = n

(* The tracked contents in the order of their numbers, which are           *)
(* consecutive while the filter hands them out itself.                     *)
Tracked(d) == IF mixed THEN 0 ELSE Cardinality(window[d])

remembered ==
  [d \in Directions |->
     [i \in 1 .. Tracked(d) |-> Holder(d, nextSeq[d] - Tracked(d) + i - 1)]]

Recent == INSTANCE RecentCells
            WITH Memory <- WindowSize + 1, recent <- remembered

(* As long as it is used the way a circuit uses it, the filter is the      *)
(* abstract memory of the last WindowSize + 1 cells: numbers, window and   *)
(* clean-up add no case in which a remembered cell is accepted or one is   *)
(* forgotten early (replay.go:307-398).  A caller's own number ends that   *)
(* use, and a Reset begins it again.                                       *)
ImplementsRecentCells == Recent!Spec
=============================================================================
