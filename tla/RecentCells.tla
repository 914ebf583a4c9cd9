---------------------------- MODULE RecentCells ----------------------------
(***************************************************************************)
(* What a replay filter that numbers its own cells promises: in each       *)
(* direction it remembers the contents of the last Memory cells it         *)
(* accepted and accepts no content that it remembers.                      *)
(***************************************************************************)
EXTENDS Integers, Sequences

CONSTANTS Directions, Digests, Memory

VARIABLE recent

Remembers(d, c) == \E i \in DOMAIN recent[d] : recent[d][i] = c

Init == recent = [d \in Directions |-> <<>>]

Accept(d, c) ==
  /\ ~Remembers(d, c)
  /\ recent' = [recent EXCEPT ![d] =
       Append(IF Len(@) = Memory THEN Tail(@) ELSE @, c)]

Forget == recent' = [d \in Directions |-> <<>>]

Next == Forget \/ \E d \in Directions, c \in Digests : Accept(d, c)

Spec == Init /\ [][Next]_recent
=============================================================================
