-------------------------- MODULE MCReplayAndPaths --------------------------
(***************************************************************************)
(* Small instances of the replay filter and of PathSelection for TLC.      *)
(* They do not interact, and are explored one at a time.                   *)
(***************************************************************************)
EXTENDS RememberedCells, PathSelection, TLC

CONSTANTS fwd, c1, c2, c3, c4, b1, b2, r1, r2, r3

(* Contents are interchangeable, so that they are taken in this order.     *)
Order == <<c1, c2, c3, c4>>
TakenInOrder ==
  \A d \in Directions : \A i \in DOMAIN log[d], k \in 2 .. Len(Order) :
    log[d][i].digest = Order[k] => \E j \in 1 .. i - 1 : log[d][j].digest = Order[k - 1]

Good == {"Running", "Valid"}
All == Flags

(* One guard of three relays, with a malformed entry whose flags spoil the *)
(* entry before it; and two other guards.                                  *)
MCDocuments ==
  { <<EntryLine(r1), FlagsLine(All), EntryLine(r2), FlagsLine(Good),
      EntryLine(NoRelay), FlagsLine(Good \cup {"Exit"}), EntryLine(r3), FlagsLine(Good)>>,
    <<EntryLine(r1), FlagsLine(Good), EntryLine(r2), FlagsLine(All),
      EntryLine(r3), FlagsLine(All)>> }

filterVars == <<replayVars, mixed>>

MCInit == UseInit /\ Init
MCNext ==
  \/ Init /\ UseNext /\ TakenInOrder' /\ UNCHANGED vars
  \/ UseInit /\ UNCHANGED filterVars /\ Next
MCSpec == MCInit /\ [][MCNext]_<<filterVars, vars>>

BuilderSym == Permutations(Builders)
=============================================================================
