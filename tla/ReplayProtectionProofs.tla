----------------------- MODULE ReplayProtectionProofs -----------------------
(***************************************************************************)
(* Proofs about the replay filter, for every window size, set of contents  *)
(* and mixture of the three ways to number a cell, and that it implements  *)
(* RecentCells.                                                            *)
(***************************************************************************)
EXTENDS RememberedCells, FiniteSetTheorems, SequenceTheorems, TLAPS

(* What one accepted cell does to the filter, in either mode: the number n *)
(* was new and not too old, what falls below the window that ends at "cut" *)
(* is forgotten, and the expected number grows to "next".                  *)
AcceptStep(d, n, c, cut, next) ==
  /\ digests[d][c] = Untracked
  /\ validateSequence(d, n)
  /\ trackAndCleanup(d, n, c, cut)
  /\ nextSeq' = [nextSeq EXCEPT ![d] = next]
  /\ nextSeq[d] <= cut /\ n <= cut /\ cut <= next /\ n < next

(* Both calls of the filter accept a cell in the same way: they differ in  *)
(* what is cut and in the number they expect next.                         *)
LEMMA AcceptSteps ==
  ASSUME ReplayTypeOK, NEW d \in Directions, NEW c \in Digests
  PROVE  /\ \A n \in 0 .. MaxSeq : ValidateAndTrack(d, n, c) =>
              \E cut \in Nat : AcceptStep(d, n, c, cut, cut)
         /\ ValidateAndTrackAuto(d, c) =>
              AcceptStep(d, nextSeq[d], c, nextSeq[d], nextSeq[d] + 1)
<1>1. ASSUME NEW n \in 0 .. MaxSeq, ValidateAndTrack(d, n, c)
      PROVE  \E cut \in Nat : AcceptStep(d, n, c, cut, cut)
  <2> DEFINE cut == IF n >= nextSeq[d] THEN n + 1 ELSE nextSeq[d]
  <2>1. cut \in Nat /\ n \in Nat /\ nextSeq[d] \in Nat
    BY SeqBoundAssumption DEF SeqBoundAssumption, ReplayTypeOK
  <2>2. nextSeq[d] <= cut /\ n <= cut /\ n < cut /\ cut <= cut
    BY <2>1
  <2>3. /\ digests[d][c] = Untracked
        /\ validateSequence(d, n)
        /\ trackAndCleanup(d, n, c, cut)
        /\ nextSeq' = [nextSeq EXCEPT ![d] = cut]
    BY <1>1 DEF ValidateAndTrack
  <2> HIDE DEF cut
  <2> QED BY <2>1, <2>2, <2>3 DEF AcceptStep
<1>2. ASSUME ValidateAndTrackAuto(d, c)
      PROVE  AcceptStep(d, nextSeq[d], c, nextSeq[d], nextSeq[d] + 1)
  BY <1>2 DEF ValidateAndTrackAuto, AcceptStep, ReplayTypeOK
<1> QED BY <1>1, <1>2

(* Every step is an accepted cell, a number handed out, a reset, or none.  *)
LEMMA StepCases ==
  ASSUME ReplayTypeOK, [ReplayNext]_replayVars
  PROVE  \/ \E d \in Directions, c \in Digests, n, cut, next \in Nat :
              AcceptStep(d, n, c, cut, next)
         \/ \E d \in Directions : GetNextSequence(d)
         \/ Reset
         \/ UNCHANGED replayVars
<1>1. ASSUME NEW d \in Directions, NEW c \in Digests, NEW n \in 0 .. MaxSeq,
             ValidateAndTrack(d, n, c)
      PROVE  \E m, cut, next \in Nat : AcceptStep(d, m, c, cut, next)
  BY <1>1, AcceptSteps, SeqBoundAssumption DEF SeqBoundAssumption
<1>2. ASSUME NEW d \in Directions, NEW c \in Digests, ValidateAndTrackAuto(d, c)
      PROVE  \E m, cut, next \in Nat : AcceptStep(d, m, c, cut, next)
  <2>1. nextSeq[d] \in Nat /\ nextSeq[d] + 1 \in Nat
    BY DEF ReplayTypeOK
  <2> QED BY <1>2, <2>1, AcceptSteps
<1> QED BY <1>1, <1>2 DEF ReplayNext

(* The types of the filter's state.                                        *)
THEOREM TypeCorrect == ReplaySpec => []ReplayTypeOK
<1>1. ReplayInit => ReplayTypeOK
  BY DEF ReplayInit, ReplayTypeOK, Accepted, Untracked
<1>2. ReplayTypeOK /\ [ReplayNext]_replayVars => ReplayTypeOK'
  <2> SUFFICES ASSUME ReplayTypeOK, [ReplayNext]_replayVars PROVE ReplayTypeOK'
    OBVIOUS
  <2>1. ASSUME NEW d \in Directions, NEW c \in Digests, NEW n \in Nat,
               NEW cut \in Nat, NEW next \in Nat, AcceptStep(d, n, c, cut, next)
        PROVE  ReplayTypeOK'
    <3> USE <2>1 DEF ReplayTypeOK, AcceptStep, trackAndCleanup
    <3>1. nextSeq' \in [Directions -> Nat]
      OBVIOUS
    <3>2. window' \in [Directions -> SUBSET Nat]
      OBVIOUS
    <3>3. digests' \in [Directions -> [Digests -> Nat \cup {Untracked}]]
      OBVIOUS
    <3>4. log' \in [Directions -> Seq(Accepted)]
      <4>1. [seq |-> n, digest |-> c, expected |-> nextSeq[d]] \in Accepted
        BY DEF Accepted
      <4> QED BY <4>1
    <3> QED BY <3>1, <3>2, <3>3, <3>4
  <2>2. ASSUME NEW d \in Directions, GetNextSequence(d) PROVE ReplayTypeOK'
    BY <2>2 DEF ReplayTypeOK, GetNextSequence
  <2>3. CASE Reset
    BY <2>3 DEF ReplayTypeOK, Reset
  <2>4. CASE UNCHANGED replayVars
    BY <2>4 DEF ReplayTypeOK, replayVars
  <2> QED BY <2>1, <2>2, <2>3, <2>4, StepCases
<1> QED BY <1>1, <1>2, PTL DEF ReplaySpec

-----------------------------------------------------------------------------
(* The test for cells that are too old, without its subtraction.           *)
LEMMA TooOldIsBelowWindow ==
  ASSUME NEW n \in Nat, NEW e \in Nat
  PROVE  TooOld(n, e) <=> n + WindowSize < e
  BY WindowSizeAssumption DEF WindowSizeAssumption, TooOld

(* An accepted cell seen from its direction, and from the other.           *)
AcceptEffect(d, n, c, cut, next) ==
  /\ nextSeq'[d] = next
  /\ nextSeq[d] <= cut /\ n <= cut /\ cut <= next /\ n < next
  /\ digests[d][c] = Untracked
  /\ n \notin window[d] /\ ~(n + WindowSize < nextSeq[d])
  /\ window'[d] \subseteq Nat
  /\ \A m \in Nat : m \in window'[d] <=>
       (m \in window[d] \/ m = n) /\ ~(m + WindowSize < cut)
  /\ \A e \in Digests :
       LET m == IF e = c THEN n ELSE digests[d][e]
       IN  digests'[d][e] = IF m # Untracked /\ m + WindowSize < cut
                              THEN Untracked ELSE m
  /\ log'[d] = Append(log[d], [seq |-> n, digest |-> c, expected |-> nextSeq[d]])
  /\ \A e \in Directions : e # d =>
       /\ nextSeq'[e] = nextSeq[e] /\ window'[e] = window[e]
       /\ digests'[e] = digests[e] /\ log'[e] = log[e]

(* An accepted cell has that effect.                                       *)
LEMMA AcceptHasEffect ==
  ASSUME ReplayTypeOK, NEW d \in Directions, NEW c \in Digests, NEW n \in Nat,
         NEW cut \in Nat, NEW next \in Nat, AcceptStep(d, n, c, cut, next)
  PROVE  AcceptEffect(d, n, c, cut, next)
<1> USE DEF ReplayTypeOK, AcceptStep
<1>1. nextSeq'[d] = next
  OBVIOUS
<1>2. n \notin window[d] /\ ~(n + WindowSize < nextSeq[d])
  BY TooOldIsBelowWindow DEF validateSequence
<1>3. ASSUME NEW m \in Nat
      PROVE  m \in window'[d] <=>
               (m \in window[d] \/ m = n) /\ ~(m + WindowSize < cut)
  BY TooOldIsBelowWindow DEF trackAndCleanup
<1>4. ASSUME NEW e \in Digests
      PROVE  LET m == IF e = c THEN n ELSE digests[d][e]
             IN  digests'[d][e] = IF m # Untracked /\ m + WindowSize < cut
                                    THEN Untracked ELSE m
  <2> DEFINE m == IF e = c THEN n ELSE digests[d][e]
  <2>1. digests'[d][e] = IF m # Untracked /\ TooOld(m, cut) THEN Untracked ELSE m
    BY DEF trackAndCleanup
  <2>2. m # Untracked => m \in Nat
    OBVIOUS
  <2> HIDE DEF m
  <2>3. digests'[d][e] = IF m # Untracked /\ m + WindowSize < cut
                           THEN Untracked ELSE m
    BY <2>1, <2>2, TooOldIsBelowWindow
  <2> QED BY <2>3 DEF m
<1>5. log'[d] = Append(log[d], [seq |-> n, digest |-> c, expected |-> nextSeq[d]])
  BY DEF trackAndCleanup
<1>6. ASSUME NEW e \in Directions, e # d
      PROVE  /\ nextSeq'[e] = nextSeq[e] /\ window'[e] = window[e]
             /\ digests'[e] = digests[e] /\ log'[e] = log[e]
  BY <1>6 DEF trackAndCleanup
<1>7. window'[d] \subseteq Nat
  BY DEF trackAndCleanup
<1> QED BY <1>1, <1>2, <1>3, <1>4, <1>5, <1>6, <1>7 DEF AcceptEffect

(* What is tracked lies below the expected number; digests point to        *)
(* tracked numbers.                                                        *)
WindowInv ==
  /\ MemoryBounded
  /\ \A d \in Directions : \A m \in window[d] : m < nextSeq[d]

(* The filter's memory is bounded by the window, for every caller.         *)
LEMMA WindowInvariant == ReplaySpec => []WindowInv
<1> USE DEF WindowInv, MemoryBounded
<1>1. ReplayInit => WindowInv
  BY DEF ReplayInit, Untracked
<1>2. ReplayTypeOK /\ WindowInv /\ [ReplayNext]_replayVars => WindowInv'
  <2> SUFFICES ASSUME ReplayTypeOK, WindowInv, [ReplayNext]_replayVars PROVE WindowInv'
    OBVIOUS
  <2>1. ASSUME NEW d \in Directions, NEW c \in Digests, NEW n \in Nat,
               NEW cut \in Nat, NEW next \in Nat, AcceptStep(d, n, c, cut, next)
        PROVE  WindowInv'
    <3>0. AcceptEffect(d, n, c, cut, next)
      BY <2>1, AcceptHasEffect
    <3>1. \A m \in window[d] : m \in Nat /\ m < nextSeq[d]
      BY DEF ReplayTypeOK
    <3>2. \A m \in window'[d] :
             m \in Nat /\ m <= cut /\ m < next /\ ~(m + WindowSize < cut)
      BY <3>0, <3>1 DEF AcceptEffect, ReplayTypeOK
    <3>3. \A m, k \in window'[d] : m <= k + WindowSize
      BY <3>2, WindowSizeAssumption DEF WindowSizeAssumption
    <3>4. ASSUME NEW e \in Digests, digests'[d][e] # Untracked
          PROVE  /\ digests'[d][e] \in window'[d]
                 /\ digests'[d][e] = IF e = c THEN n ELSE digests[d][e]
      <4> DEFINE m == IF e = c THEN n ELSE digests[d][e]
      <4>1. digests'[d][e] = m /\ m # Untracked /\ ~(m + WindowSize < cut)
        BY <3>0, <3>4 DEF AcceptEffect
      <4>2. m \in Nat /\ (m \in window[d] \/ m = n)
        BY <4>1 DEF ReplayTypeOK
      <4> HIDE DEF m
      <4>3. m \in window'[d]
        BY <3>0, <4>1, <4>2 DEF AcceptEffect
      <4> QED BY <4>1, <4>3 DEF m
    <3>5. ASSUME NEW b \in Digests, NEW e \in Digests,
                 digests'[d][b] = digests'[d][e], digests'[d][b] # Untracked
          PROVE  b = e
      <4>1. n \notin window[d] /\ digests[d][c] = Untracked
        BY <3>0 DEF AcceptEffect
      <4>2. \A x \in Digests : digests[d][x] # n
        BY <4>1 DEF Untracked
      <4>3. /\ digests'[d][b] = IF b = c THEN n ELSE digests[d][b]
            /\ digests'[d][e] = IF e = c THEN n ELSE digests[d][e]
        BY <3>4, <3>5
      <4> QED BY <3>5, <4>2, <4>3
    <3>6. /\ \A m, k \in window'[d] : m <= k + WindowSize
          /\ \A e \in Digests : digests'[d][e] # Untracked => digests'[d][e] \in window'[d]
          /\ \A b, e \in Digests :
               (digests'[d][b] = digests'[d][e] /\ digests'[d][b] # Untracked) => b = e
          /\ \A m \in window'[d] : m < nextSeq'[d]
      <4>1. nextSeq'[d] = next
        BY <3>0 DEF AcceptEffect
      <4>2. \A m \in window'[d] : m < nextSeq'[d]
        BY <3>2, <4>1
      <4> QED BY <3>3, <3>4, <3>5, <4>2
    <3>7. ASSUME NEW x \in Directions, x # d
          PROVE  /\ nextSeq'[x] = nextSeq[x] /\ window'[x] = window[x]
                 /\ digests'[x] = digests[x]
      BY <3>0, <3>7 DEF AcceptEffect
    <3> QED BY <3>6, <3>7
  <2>2. ASSUME NEW d \in Directions, GetNextSequence(d) PROVE WindowInv'
    <3>1. \A e \in Directions : nextSeq'[e] \in Nat /\ nextSeq[e] <= nextSeq'[e]
      BY <2>2 DEF GetNextSequence, ReplayTypeOK
    <3>2. \A e \in Directions : \A m \in window[e] : m \in Nat /\ m < nextSeq'[e]
      BY <3>1 DEF ReplayTypeOK
    <3> QED BY <2>2, <3>2 DEF GetNextSequence
  <2>3. CASE Reset
    BY <2>3 DEF Reset, Untracked
  <2>4. CASE UNCHANGED replayVars
    BY <2>4 DEF replayVars
  <2> QED BY <2>1, <2>2, <2>3, <2>4, StepCases
<1> QED BY <1>1, <1>2, TypeCorrect, PTL DEF ReplaySpec

(* The filter never remembers more than a window of cells in either        *)
(* direction.                                                              *)
THEOREM FilterMemoryBounded == ReplaySpec => []MemoryBounded
  BY WindowInvariant, PTL DEF WindowInv

(* The next number is always acceptable: the filter cannot wedge a circuit.*)
THEOREM FreshCellPasses == ReplaySpec => []FreshCellAccepted
<1>1. ReplayTypeOK /\ WindowInv => FreshCellAccepted
  <2> SUFFICES ASSUME ReplayTypeOK, WindowInv, NEW d \in Directions
               PROVE  validateSequence(d, nextSeq[d])
    BY DEF FreshCellAccepted
  <2>1. nextSeq[d] \in Nat
    BY DEF ReplayTypeOK
  <2>2. nextSeq[d] \notin window[d]
    BY <2>1 DEF WindowInv
  <2>3. ~TooOld(nextSeq[d], nextSeq[d])
    BY <2>1, TooOldIsBelowWindow, WindowSizeAssumption DEF WindowSizeAssumption
  <2> QED BY <2>1, <2>2, <2>3, WindowSizeAssumption
          DEF WindowSizeAssumption, validateSequence
<1> QED BY <1>1, TypeCorrect, WindowInvariant, PTL

-----------------------------------------------------------------------------
(* A number or content accepted before is still tracked or lies below the  *)
(* window: what the filter forgets is what it refuses by age.              *)
HistoryInv ==
  \A d \in Directions : \A i \in 1 .. Len(log[d]) :
    LET a == log[d][i]
    IN  /\ a.seq < nextSeq[d]
        /\ a.seq \in window[d] \/ a.seq + WindowSize < nextSeq[d]
        /\ digests[d][a.digest] = a.seq \/ a.seq + WindowSize < nextSeq[d]

AcceptanceInv == HistoryInv /\ SequenceAcceptedOnce /\ ReplayOnlyPastWindow

(* The inductive invariant of acceptance holds in every state.             *)
LEMMA AcceptanceInvariant == ReplaySpec => []AcceptanceInv
<1> USE DEF AcceptanceInv, HistoryInv, SequenceAcceptedOnce, ReplayOnlyPastWindow
<1>1. ReplayInit => AcceptanceInv
  BY DEF ReplayInit
<1>2. ReplayTypeOK /\ AcceptanceInv /\ [ReplayNext]_replayVars => AcceptanceInv'
  <2> SUFFICES ASSUME ReplayTypeOK, AcceptanceInv, [ReplayNext]_replayVars PROVE AcceptanceInv'
    OBVIOUS
  <2>1. ASSUME NEW d \in Directions, NEW c \in Digests, NEW n \in Nat,
               NEW cut \in Nat, NEW next \in Nat, AcceptStep(d, n, c, cut, next)
        PROVE  AcceptanceInv'
    <3>0. AcceptEffect(d, n, c, cut, next)
      BY <2>1, AcceptHasEffect
    <3> DEFINE new == [seq |-> n, digest |-> c, expected |-> nextSeq[d]]
               len == Len(log[d])
    <3>1. /\ log[d] \in Seq(Accepted) /\ len \in Nat /\ new \in Accepted
          /\ nextSeq[d] \in Nat /\ nextSeq'[d] = next
      <4>1. log[d] \in Seq(Accepted) /\ nextSeq[d] \in Nat
        BY DEF ReplayTypeOK
      <4>2. new \in Accepted
        BY <4>1 DEF Accepted
      <4>3. nextSeq'[d] = next
        BY <3>0 DEF AcceptEffect
      <4>4. len \in Nat
        BY <4>1
      <4> HIDE DEF new, len
      <4> QED BY <4>1, <4>2, <4>3, <4>4
    <3>2. /\ Len(log'[d]) = len + 1 /\ log'[d][len + 1] = new
          /\ \A i \in 1 .. len : log'[d][i] = log[d][i]
      <4>1. log'[d] = Append(log[d], new)
        BY <3>0 DEF AcceptEffect
      <4> HIDE DEF new
      <4> QED BY <3>1, <4>1
    <3>3. \A i \in 1 .. len : log[d][i] \in Accepted
      BY <3>1
    <3>4. \A i \in 1 .. len : log[d][i].seq # n
      <4>1. n \notin window[d] /\ ~(n + WindowSize < nextSeq[d])
        BY <3>0 DEF AcceptEffect
      <4> QED BY <3>3, <4>1 DEF Accepted
    <3>5. \A i \in 1 .. len : log[d][i].digest = c =>
            log[d][i].seq + WindowSize < nextSeq[d]
      <4>1. digests[d][c] = Untracked
        BY <3>0 DEF AcceptEffect
      <4> QED BY <3>3, <4>1 DEF Accepted, Untracked
    <3>c. /\ n \notin window[d] /\ ~(n + WindowSize < nextSeq[d])
          /\ nextSeq[d] <= cut /\ n <= cut /\ cut <= next /\ n < next
          /\ WindowSize \in Nat
      BY <3>0, WindowSizeAssumption DEF AcceptEffect, WindowSizeAssumption
    <3>h. \A i \in 1 .. len :
            /\ log[d][i].seq < nextSeq[d]
            /\ log[d][i].seq \in window[d] \/ log[d][i].seq + WindowSize < nextSeq[d]
            /\ \/ digests[d][log[d][i].digest] = log[d][i].seq
               \/ log[d][i].seq + WindowSize < nextSeq[d]
      OBVIOUS
    <3>s. \A i, j \in 1 .. len : log[d][i].seq = log[d][j].seq => i = j
      OBVIOUS
    <3>p. \A i, j \in 1 .. len :
            (i < j /\ log[d][i].digest = log[d][j].digest)
              => log[d][i].seq + WindowSize < log[d][j].expected
      OBVIOUS
    <3>n. new.seq = n /\ new.digest = c /\ new.expected = nextSeq[d]
      OBVIOUS
    <3> HIDE DEF new, len, AcceptanceInv, HistoryInv, SequenceAcceptedOnce, ReplayOnlyPastWindow
    <3>l. \A k \in 1 .. len + 1 : k \in 1 .. len \/ k = len + 1
      <4>1. len \in Nat
        BY <3>1
      <4> QED BY ONLY <4>1
    <3>6. ASSUME NEW i \in 1 .. len + 1
          PROVE  LET a == log'[d][i]
                 IN  /\ a.seq < nextSeq'[d]
                     /\ a.seq \in window'[d] \/ a.seq + WindowSize < nextSeq'[d]
                     /\ digests'[d][a.digest] = a.seq \/ a.seq + WindowSize < nextSeq'[d]
      <4>1. nextSeq[d] <= cut /\ n <= cut /\ cut <= next /\ n < next
        BY <3>c
      <4>2. CASE i = len + 1
        <5>1. log'[d][i] = new
          BY <3>2, <4>2
        <5>2. n \in window'[d] \/ n + WindowSize < next
          BY <3>0, <4>1, WindowSizeAssumption DEF AcceptEffect, WindowSizeAssumption
        <5>3. digests'[d][c] = n \/ n + WindowSize < next
          BY <3>0, <4>1, WindowSizeAssumption
             DEF AcceptEffect, WindowSizeAssumption
        <5> QED BY <3>1, <3>n, <4>1, <5>1, <5>2, <5>3
      <4>3. CASE i \in 1 .. len
        <5> DEFINE a == log[d][i]
        <5>1. log'[d][i] = a /\ a \in Accepted /\ a.seq \in Nat /\ a.digest \in Digests
          BY <3>2, <3>3, <4>3 DEF Accepted
        <5>2. /\ a.seq < nextSeq[d]
              /\ a.seq \in window[d] \/ a.seq + WindowSize < nextSeq[d]
              /\ digests[d][a.digest] = a.seq \/ a.seq + WindowSize < nextSeq[d]
          BY <3>h, <4>3
        <5> HIDE DEF a
        <5>3. a.seq + WindowSize < nextSeq[d] => a.seq + WindowSize < next
          BY <3>1, <3>c, <5>1
        <5>4. a.seq + WindowSize < cut => a.seq + WindowSize < next
          BY <3>1, <3>c, <5>1
        <5>b. a.seq < next
          BY <3>1, <3>c, <5>1, <5>2
        <5>5. a.seq \in window'[d] \/ a.seq + WindowSize < next
          BY <3>0, <5>1, <5>2, <5>3, <5>4 DEF AcceptEffect
        <5>6. CASE a.digest = c
          <6>1. a.seq + WindowSize < next
            BY <3>5, <4>3, <5>3, <5>6 DEF a
          <6> QED BY <3>1, <5>1, <5>b, <5>5, <6>1
        <5>7. CASE a.digest # c
          <6>1. digests'[d][a.digest] = a.seq \/ a.seq + WindowSize < next
            BY <3>0, <5>1, <5>2, <5>3, <5>4, <5>7 DEF AcceptEffect
          <6> QED BY <3>1, <5>1, <5>b, <5>5, <6>1
        <5> QED BY <5>6, <5>7
      <4> QED BY <3>l, <4>2, <4>3
    <3>7. \A i, j \in 1 .. len + 1 : log'[d][i].seq = log'[d][j].seq => i = j
      <4> SUFFICES ASSUME NEW i \in 1 .. len + 1, NEW j \in 1 .. len + 1,
                          log'[d][i].seq = log'[d][j].seq
                   PROVE  i = j
        OBVIOUS
      <4>1. CASE i \in 1 .. len /\ j \in 1 .. len
        <5>1. log[d][i].seq = log[d][j].seq
          BY <3>2, <4>1
        <5> QED BY <3>s, <4>1, <5>1
      <4>2. CASE i \in 1 .. len /\ j = len + 1
        BY <3>2, <3>4, <3>n, <4>2
      <4>3. CASE i = len + 1 /\ j \in 1 .. len
        BY <3>2, <3>4, <3>n, <4>3
      <4>4. CASE i = len + 1 /\ j = len + 1
        BY <4>4
      <4> QED BY <3>l, <4>1, <4>2, <4>3, <4>4
    <3>8. \A i, j \in 1 .. len + 1 :
            (i < j /\ log'[d][i].digest = log'[d][j].digest)
              => log'[d][i].seq + WindowSize < log'[d][j].expected
      <4> SUFFICES ASSUME NEW i \in 1 .. len + 1, NEW j \in 1 .. len + 1,
                          i < j, log'[d][i].digest = log'[d][j].digest
                   PROVE  log'[d][i].seq + WindowSize < log'[d][j].expected
        OBVIOUS
      <4>1. i \in 1 .. len /\ log'[d][i] = log[d][i]
        <5>1. i # len + 1
          BY <3>1
        <5> QED BY <3>2, <3>l, <5>1
      <4>2. CASE j \in 1 .. len
        <5>1. log'[d][j] = log[d][j]
          BY <3>2, <4>2
        <5> QED BY <3>p, <4>1, <4>2, <5>1
      <4>3. CASE j = len + 1
        <5>1. log'[d][j].digest = c /\ log'[d][j].expected = nextSeq[d]
          BY <3>2, <3>n, <4>3
        <5> QED BY <3>5, <4>1, <5>1
      <4> QED BY <3>l, <4>2, <4>3
    <3>9. \A e \in Directions : e # d =>
            /\ nextSeq'[e] = nextSeq[e] /\ window'[e] = window[e]
            /\ digests'[e] = digests[e] /\ log'[e] = log[e]
      BY <3>0 DEF AcceptEffect
    <3> USE DEF AcceptanceInv, HistoryInv, SequenceAcceptedOnce, ReplayOnlyPastWindow
    <3>10. HistoryInv'
      <4> SUFFICES ASSUME NEW e \in Directions, NEW i \in 1 .. Len(log'[e])
                   PROVE  LET a == log'[e][i]
                          IN  /\ a.seq < nextSeq'[e]
                              /\ a.seq \in window'[e] \/ a.seq + WindowSize < nextSeq'[e]
                              /\ \/ digests'[e][a.digest] = a.seq
                                 \/ a.seq + WindowSize < nextSeq'[e]
        OBVIOUS
      <4>1. CASE e = d
        BY <3>2, <3>6, <4>1
      <4>2. CASE e # d
        BY <3>9, <4>2
      <4> QED BY <4>1, <4>2
    <3>11. SequenceAcceptedOnce'
      <4> SUFFICES ASSUME NEW e \in Directions, NEW i \in 1 .. Len(log'[e]),
                          NEW j \in 1 .. Len(log'[e]),
                          log'[e][i].seq = log'[e][j].seq
                   PROVE  i = j
        OBVIOUS
      <4>1. CASE e = d
        BY <3>2, <3>7, <4>1
      <4>2. CASE e # d
        BY <3>9, <4>2
      <4> QED BY <4>1, <4>2
    <3>12. ReplayOnlyPastWindow'
      <4> SUFFICES ASSUME NEW e \in Directions, NEW i \in 1 .. Len(log'[e]),
                          NEW j \in 1 .. Len(log'[e]),
                          i < j, log'[e][i].digest = log'[e][j].digest
                   PROVE  log'[e][i].seq + WindowSize < log'[e][j].expected
        OBVIOUS
      <4>1. CASE e = d
        BY <3>2, <3>8, <4>1
      <4>2. CASE e # d
        BY <3>9, <4>2
      <4> QED BY <4>1, <4>2
    <3> QED BY <3>10, <3>11, <3>12
  <2>2. ASSUME NEW d \in Directions, GetNextSequence(d) PROVE AcceptanceInv'
    <3>1. \A e \in Directions : nextSeq[e] \in Nat /\ nextSeq'[e] \in Nat /\ nextSeq[e] <= nextSeq'[e]
      BY <2>2 DEF GetNextSequence, ReplayTypeOK
    <3>2. \A e \in Directions : \A i \in 1 .. Len(log[e]) : log[e][i].seq \in Nat
      <4>1. \A e \in Directions : log[e] \in Seq(Accepted)
        BY DEF ReplayTypeOK
      <4>2. \A e \in Directions : \A i \in 1 .. Len(log[e]) : log[e][i] \in Accepted
        BY <4>1
      <4> QED BY <4>2 DEF Accepted
    <3>3. HistoryInv'
      <4>1. /\ window' = window /\ digests' = digests /\ log' = log
            /\ WindowSize \in Nat
        BY <2>2, WindowSizeAssumption DEF GetNextSequence, WindowSizeAssumption
      <4>2. SUFFICES ASSUME NEW e \in Directions, NEW i \in 1 .. Len(log[e])
                     PROVE  /\ log[e][i].seq < nextSeq'[e]
                            /\ \/ log[e][i].seq \in window[e]
                               \/ log[e][i].seq + WindowSize < nextSeq'[e]
                            /\ \/ digests[e][log[e][i].digest] = log[e][i].seq
                               \/ log[e][i].seq + WindowSize < nextSeq'[e]
        BY <4>1 DEF HistoryInv
      <4>3. /\ nextSeq[e] \in Nat /\ nextSeq'[e] \in Nat /\ nextSeq[e] <= nextSeq'[e]
            /\ log[e][i].seq \in Nat
        BY <3>1, <3>2
      <4>4. /\ log[e][i].seq < nextSeq[e]
            /\ \/ log[e][i].seq \in window[e]
               \/ log[e][i].seq + WindowSize < nextSeq[e]
            /\ \/ digests[e][log[e][i].digest] = log[e][i].seq
               \/ log[e][i].seq + WindowSize < nextSeq[e]
        <5> HIDE DEF SequenceAcceptedOnce, ReplayOnlyPastWindow
        <5> QED BY DEF AcceptanceInv, HistoryInv
      <4> HIDE DEF AcceptanceInv, HistoryInv, SequenceAcceptedOnce, ReplayOnlyPastWindow
      <4>5. /\ log[e][i].seq < nextSeq'[e]
            /\ log[e][i].seq + WindowSize < nextSeq[e] => log[e][i].seq + WindowSize < nextSeq'[e]
        <5>1. WindowSize \in Nat /\ log[e][i].seq < nextSeq[e]
          BY <4>1, <4>4
        <5> DEFINE x == log[e][i].seq
                   y == nextSeq[e]
                   z == nextSeq'[e]
        <5>2. x \in Nat /\ y \in Nat /\ z \in Nat /\ y <= z /\ x < y
          BY <4>3, <5>1
        <5> HIDE DEF x, y, z
        <5>3. x < z /\ (x + WindowSize < y => x + WindowSize < z)
          BY <5>1, <5>2
        <5> QED BY <5>3 DEF x, y, z
      <4> QED BY <4>4, <4>5
    <3> QED BY <2>2, <3>3 DEF GetNextSequence
  <2>3. CASE Reset
    BY <2>3 DEF Reset
  <2>4. CASE UNCHANGED replayVars
    BY <2>4 DEF replayVars
  <2> QED BY <2>1, <2>2, <2>3, <2>4, StepCases
<1> QED BY <1>1, <1>2, TypeCorrect, PTL DEF ReplaySpec

(* No sequence number is accepted twice.                                   *)
THEOREM SequenceOnce == ReplaySpec => []SequenceAcceptedOnce
  BY AcceptanceInvariant, PTL DEF AcceptanceInv

(* No content is accepted twice within a window.                           *)
THEOREM ReplayRefusedInWindow == ReplaySpec => []ReplayOnlyPastWindow
  BY AcceptanceInvariant, PTL DEF AcceptanceInv

-----------------------------------------------------------------------------
(* Used as a circuit uses it, the filter tracks exactly the last           *)
(* WindowSize + 1 numbers, fewer only at the beginning, and each of them   *)
(* with a content (replay.go:307-398).                                     *)
WindowIsFull ==
  ~mixed => \A d \in Directions :
    /\ \A n \in Nat : n \in window[d] <=> n < nextSeq[d] /\ nextSeq[d] <= n + WindowSize + 1
    /\ \A n \in window[d] : \E c \in Digests : digests[d][c] = n

(* ReplayNext to its history the filter is the filter.                           *)
LEMMA UseIsUse == UseSpec => ReplaySpec
<1>1. UseInit => ReplayInit
  BY DEF UseInit
<1>2. [UseNext]_<<replayVars, mixed>> => [ReplayNext]_replayVars
  BY DEF UseNext, ReplayNext, replayVars
<1> QED BY <1>1, <1>2, PTL DEF UseSpec, ReplaySpec

(* A cell of a circuit moves the window by its number and no further.      *)
LEMMA WindowIsFullStep ==
  ASSUME ReplayTypeOK, WindowIsFull, [UseNext]_<<replayVars, mixed>>
  PROVE  WindowIsFull'
<1>1. ASSUME NEW d \in Directions, NEW c \in Digests,
             ValidateAndTrackAuto(d, c), UNCHANGED mixed, ~mixed
      PROVE  WindowIsFull'
  <2>1. nextSeq[d] \in Nat /\ nextSeq[d] + 1 \in Nat /\ WindowSize \in Nat
    BY WindowSizeAssumption DEF ReplayTypeOK, WindowSizeAssumption
  <2>2. AcceptEffect(d, nextSeq[d], c, nextSeq[d], nextSeq[d] + 1)
    BY <1>1, <2>1, AcceptSteps, AcceptHasEffect
  <2>3. \A n \in Nat : n \in window[d] <=> n < nextSeq[d] /\ nextSeq[d] <= n + WindowSize + 1
    BY <1>1 DEF WindowIsFull
  <2>4. \A n \in Nat :
          n \in window'[d] <=> n < nextSeq'[d] /\ nextSeq'[d] <= n + WindowSize + 1
    <3>1. /\ nextSeq'[d] = nextSeq[d] + 1
          /\ \A n \in Nat : n \in window'[d] <=>
               (n \in window[d] \/ n = nextSeq[d]) /\ ~(n + WindowSize < nextSeq[d])
      BY <2>2 DEF AcceptEffect
    <3> QED BY ONLY <2>1, <2>3, <3>1
  <2>5. ASSUME NEW n \in window'[d]
        PROVE  \E e \in Digests : digests'[d][e] = n
    <3>1. n \in Nat /\ (n \in window[d] \/ n = nextSeq[d]) /\ ~(n + WindowSize < nextSeq[d])
      BY <2>2 DEF AcceptEffect
    <3>2. CASE n = nextSeq[d]
      BY <2>2, <3>1, <3>2 DEF AcceptEffect
    <3>3. CASE n \in window[d]
      <4>1. PICK e \in Digests : digests[d][e] = n
        BY <1>1, <3>3 DEF WindowIsFull
      <4>2. e # c
        BY <2>2, <3>1, <4>1 DEF AcceptEffect, Untracked
      <4>3. digests'[d][e] = n
        BY <2>2, <3>1, <4>1, <4>2 DEF AcceptEffect
      <4> QED BY <4>3
    <3> QED BY <3>1, <3>2, <3>3
  <2>6. \A e \in Directions : e # d =>
          nextSeq'[e] = nextSeq[e] /\ window'[e] = window[e] /\ digests'[e] = digests[e]
    BY <2>2 DEF AcceptEffect
  <2> QED BY <1>1, <2>4, <2>5, <2>6 DEF WindowIsFull
<1>2. CASE Reset
  BY <1>2 DEF Reset, WindowIsFull
<1>3. CASE mixed'
  BY <1>3 DEF WindowIsFull
<1>4. CASE UNCHANGED <<replayVars, mixed>>
  BY <1>4 DEF WindowIsFull, replayVars
<1> QED BY <1>1, <1>2, <1>3, <1>4 DEF UseNext

(* The invariant holds in every state.                                     *)
LEMMA WindowStaysFull == UseSpec => [](ReplayTypeOK /\ WindowInv /\ WindowIsFull)
<1>1. UseInit => WindowIsFull
  BY DEF UseInit, ReplayInit, WindowIsFull
<1> QED BY <1>1, WindowIsFullStep, UseIsUse, TypeCorrect, WindowInvariant, PTL
        DEF UseSpec

(* How many numbers lie in a window that ends below s.                     *)
LEMMA WindowCounts ==
  ASSUME NEW S \in SUBSET Nat, NEW s \in Nat,
         \A n \in Nat : n \in S <=> n < s /\ s <= n + WindowSize + 1
  PROVE  Cardinality(S) = IF s <= WindowSize + 1 THEN s ELSE WindowSize + 1
<1> DEFINE low == IF s <= WindowSize + 1 THEN 0 ELSE s - (WindowSize + 1)
<1>1. WindowSize \in Nat
  BY WindowSizeAssumption DEF WindowSizeAssumption
<1>2. low \in Nat /\ low <= s
  BY <1>1
<1>3. \A n \in Nat : n < s /\ s <= n + WindowSize + 1 <=> low <= n /\ n <= s - 1
  BY <1>1
<1>4. s - low = IF s <= WindowSize + 1 THEN s ELSE WindowSize + 1
  BY <1>1
<1> HIDE DEF low
<1>5. \A n \in Nat : n \in S <=> n \in low .. s - 1
  BY <1>2, <1>3
<1>6. S = low .. s - 1
  <2>1. \A n \in low .. s - 1 : n \in Nat
    BY <1>2
  <2>2. \A n : n \in S <=> n \in low .. s - 1
    BY <1>5, <2>1
  <2> QED BY <2>2
<1>7. Cardinality(low .. s - 1) = IF low > s - 1 THEN 0 ELSE (s - 1) - low + 1
  <2>1. low \in Int /\ s - 1 \in Int
    BY <1>2
  <2> QED BY <2>1, FS_Interval
<1>8. Cardinality(low .. s - 1) = s - low
  BY <1>2, <1>7
<1> QED BY <1>4, <1>6, <1>8

(* What Holder finds in the digests f.                                     *)
Found(f, n) == CHOOSE e \in Digests : f[e] = n

(* A content that is the only one with its number is found by it.          *)
LEMMA FoundIs ==
  ASSUME NEW f, NEW n, NEW c \in Digests, f[c] = n, \A e \in Digests : f[e] = n => e = c
  PROVE  Found(f, n) = c
BY DEF Found

(* A sequence one longer than t that agrees with it is t and its last      *)
(* element.                                                                *)
LEMMA GrownByOne ==
  ASSUME NEW t \in Seq(Digests), NEW c \in Digests, NEW f \in Seq(Digests),
         Len(f) = Len(t) + 1, f[Len(t) + 1] = c, \A i \in 1 .. Len(t) : f[i] = t[i]
  PROVE  f = Append(t, c)
<1>1. /\ Append(t, c) \in Seq(Digests) /\ Len(Append(t, c)) = Len(t) + 1
      /\ Append(t, c)[Len(t) + 1] = c
      /\ \A i \in 1 .. Len(t) : Append(t, c)[i] = t[i]
  OBVIOUS
<1>2. \A i \in 1 .. Len(f) : f[i] = Append(t, c)[i]
  <2>1. \A i \in 1 .. Len(t) + 1 : i = Len(t) + 1 \/ i \in 1 .. Len(t)
    OBVIOUS
  <2> QED BY <1>1, <2>1
<1> QED BY <1>1, <1>2, SeqEqual

(* A function on 1 .. n is a sequence of n values.                         *)
LEMMA Numbered ==
  ASSUME NEW S, NEW f, NEW n \in Nat, f = [i \in 1 .. n |-> f[i]],
         \A i \in 1 .. n : f[i] \in S
  PROVE  f \in Seq(S) /\ Len(f) = n
OBVIOUS

(* A cell that the filter accepts is appended to the memory, which drops   *)
(* the oldest one once it is full.                                         *)
LEMMA AutoIsAccept ==
  ASSUME ReplayTypeOK, WindowInv, WindowIsFull, ReplayTypeOK', WindowInv', WindowIsFull',
         ~mixed, UNCHANGED mixed,
         NEW d \in Directions, NEW c \in Digests, ValidateAndTrackAuto(d, c)
  PROVE  Recent!Accept(d, c)
<1> DEFINE n == Tracked(d)
           n2 == Tracked(d)'
           s == nextSeq[d]
           r == remembered[d]
           r2 == remembered'[d]
<1>1. s \in Nat /\ WindowSize \in Nat
  BY WindowSizeAssumption DEF ReplayTypeOK, WindowSizeAssumption
<1>2. AcceptEffect(d, s, c, s, s + 1)
  BY <1>1, AcceptSteps, AcceptHasEffect
<1>3. nextSeq'[d] = s + 1 /\ s + 1 \in Nat /\ ~mixed'
  BY <1>1, <1>2 DEF AcceptEffect
<1>4. n = IF s <= WindowSize + 1 THEN s ELSE WindowSize + 1
  <2>1. Cardinality(window[d]) = IF s <= WindowSize + 1 THEN s ELSE WindowSize + 1
    BY <1>1, WindowCounts DEF ReplayTypeOK, WindowIsFull
  <2> QED BY <2>1 DEF Tracked
<1>5. n2 = IF s + 1 <= WindowSize + 1 THEN s + 1 ELSE WindowSize + 1
  <2>1. /\ window'[d] \in SUBSET Nat
        /\ \A m \in Nat : m \in window'[d] <=> m < s + 1 /\ s + 1 <= m + WindowSize + 1
    BY <1>3 DEF ReplayTypeOK, WindowIsFull
  <2>2. Cardinality(window'[d]) =
          IF s + 1 <= WindowSize + 1 THEN s + 1 ELSE WindowSize + 1
    BY <1>3, <2>1, WindowCounts
  <2> QED BY <1>3, <2>2 DEF Tracked
<1>6. ASSUME NEW m \in Nat, m < s, s <= m + WindowSize + 1
      PROVE  Holder(d, m) \in Digests /\ digests[d][Holder(d, m)] = m
  <2>1. \E e \in Digests : digests[d][e] = m
    BY <1>6 DEF WindowIsFull
  <2> QED BY <2>1 DEF Holder
<1>7. ASSUME NEW m \in Nat, m < s, s <= m + WindowSize
      PROVE  Found(digests'[d], m) = Holder(d, m)
  <2> DEFINE e == Holder(d, m)
  <2>1. e \in Digests /\ digests[d][e] = m
    BY <1>1, <1>6, <1>7
  <2> HIDE DEF e
  <2>2. digests'[d][e] = m
    <3>1. e # c
      BY <1>2, <2>1 DEF AcceptEffect, Untracked
    <3>2. digests'[d][e] = IF digests[d][e] # Untracked /\ digests[d][e] + WindowSize < s
                             THEN Untracked ELSE digests[d][e]
      BY <1>2, <2>1, <3>1 DEF AcceptEffect
    <3>3. ~(m + WindowSize < s)
      BY <1>1, <1>7
    <3> QED BY <2>1, <3>2, <3>3
  <2>3. \A x \in Digests : digests'[d][x] = m => x = e
    BY <2>1, <2>2 DEF WindowInv, MemoryBounded, Untracked
  <2>4. Found(digests'[d], m) = e
    BY <2>1, <2>2, <2>3, FoundIs
  <2> QED BY <2>4 DEF e
<1>8. Found(digests'[d], s) = c
  <2>1. digests'[d][c] = s
    BY <1>1, <1>2 DEF AcceptEffect
  <2>2. \A x \in Digests : digests'[d][x] = s => x = c
    BY <1>1, <2>1 DEF WindowInv, MemoryBounded, Untracked
  <2> QED BY <2>1, <2>2, FoundIs
<1>9. /\ n \in Nat /\ n2 \in Nat
      /\ r = [i \in 1 .. n |-> r[i]] /\ r2 = [i \in 1 .. n2 |-> r2[i]]
      /\ \A i \in 1 .. n : r[i] = Holder(d, s - n + i - 1)
      /\ \A i \in 1 .. n2 : r2[i] = Found(digests'[d], s + 1 - n2 + i - 1)
  <2>1. n \in Nat /\ n2 \in Nat
    BY <1>1, <1>4, <1>5
  <2>2. r = [i \in 1 .. n |-> Holder(d, s - n + i - 1)]
    BY DEF remembered
  <2>3. r2 = [i \in 1 .. n2 |-> Found(digests'[d], nextSeq'[d] - n2 + i - 1)]
    BY DEF remembered, Holder, Found
  <2>4. nextSeq'[d] = s + 1
    BY <1>3
  <2> HIDE DEF n, n2, s, r, r2
  <2>5. \A i \in 1 .. n2 : r2[i] = Found(digests'[d], s + 1 - n2 + i - 1)
    <3> SUFFICES ASSUME NEW i \in 1 .. n2
                 PROVE  r2[i] = Found(digests'[d], s + 1 - n2 + i - 1)
      OBVIOUS
    <3>1. r2[i] = Found(digests'[d], nextSeq'[d] - n2 + i - 1)
      BY <2>3, Zenon
    <3>2. nextSeq'[d] - n2 + i - 1 = s + 1 - n2 + i - 1
      BY <1>1, <2>1, <2>4
    <3> QED BY <3>1, <3>2, Zenon
  <2> QED BY <2>1, <2>2, <2>3, <2>5
<1> HIDE DEF n, n2, s, r, r2
<1>bounds. /\ n \in Nat /\ n <= s /\ n <= WindowSize + 1
           /\ n2 \in Nat /\ n2 <= s + 1 /\ n2 <= WindowSize + 1
  BY <1>1, <1>4, <1>5
<1>10. \A i \in 1 .. n : s - n + i - 1 \in Nat /\ s - n + i - 1 < s
                         /\ s <= s - n + i - 1 + WindowSize + 1
  BY <1>1, <1>bounds
<1>11. \A i \in 1 .. n : r[i] \in Digests /\ digests[d][r[i]] # Untracked
  BY <1>6, <1>9, <1>10 DEF Untracked
<1>12. r \in Seq(Digests) /\ Len(r) = n
  <2>1. n \in Nat /\ r = [i \in 1 .. n |-> r[i]] /\ \A i \in 1 .. n : r[i] \in Digests
    BY <1>9, <1>11
  <2> QED BY <2>1, Numbered
<1>13. r2 \in Seq(Digests) /\ Len(r2) = n2
  <2>1. ASSUME NEW i \in 1 .. n2 PROVE r2[i] \in Digests
    <3> DEFINE m == s + 1 - n2 + i - 1
    <3>0. i \in Int /\ 1 <= i /\ i <= n2
      BY <1>bounds
    <3>1. m \in Nat /\ m <= s /\ s <= m + WindowSize /\ s <= m + WindowSize + 1
      <4>1. m \in Int /\ m = s - n2 + i
        BY <1>1, <1>bounds, <3>0
      <4> HIDE DEF m
      <4> QED BY <1>1, <1>bounds, <3>0, <4>1
    <3>2. r2[i] = Found(digests'[d], m)
      BY <1>9
    <3> HIDE DEF m
    <3>3. CASE m = s
      BY <1>8, <3>2, <3>3
    <3>4. CASE m < s
      <4>1. Found(digests'[d], m) = Holder(d, m)
        BY <1>7, <3>1, <3>4
      <4>2. Holder(d, m) \in Digests
        BY <1>6, <3>1, <3>4
      <4> QED BY <3>2, <4>1, <4>2
    <3> QED BY <1>1, <3>1, <3>3, <3>4
  <2>2. n2 \in Nat /\ r2 = [i \in 1 .. n2 |-> r2[i]]
    BY <1>9
  <2> QED BY <2>1, <2>2, Numbered
<1>14. ~Recent!Remembers(d, c)
  <2>1. digests[d][c] = Untracked
    BY <1>2 DEF AcceptEffect
  <2>2. \A i \in DOMAIN r : r[i] # c
    BY <1>9, <1>11, <2>1
  <2> QED BY <2>2 DEF r, Recent!Remembers
<1>15. r2 = Append(IF Len(r) = WindowSize + 1 THEN Tail(r) ELSE r, c)
  <2>1. r2[n2] = c
    <3>1. n2 \in 1 .. n2 /\ s + 1 - n2 + n2 - 1 = s
      BY <1>1, <1>5
    <3> QED BY <1>8, <1>9, <3>1
  <2>2. ASSUME NEW i \in 1 .. n2 - 1
        PROVE  r2[i] = r[i + (n - (n2 - 1))]
    <3> DEFINE m == s + 1 - n2 + i - 1
               j == i + (n - (n2 - 1))
    <3>1. /\ m \in Nat /\ m < s /\ s <= m + WindowSize
          /\ j \in 1 .. n /\ m = s - n + j - 1 /\ i \in 1 .. n2
      <4>1. i \in Int /\ 1 <= i /\ i <= n2 - 1 /\ n2 <= n + 1
        BY <1>1, <1>4, <1>5, <1>bounds
      <4>2. i \in 1 .. n2 /\ j \in 1 .. n /\ m = s - n + j - 1
        BY <1>1, <1>bounds, <4>1
      <4>3. m \in Int /\ m = s - n2 + i
        BY <1>1, <1>bounds, <4>1
      <4>4. m \in Nat /\ m < s /\ s <= m + WindowSize
        <5> HIDE DEF m
        <5> QED BY <1>1, <1>bounds, <4>1, <4>3
      <4> QED BY <4>2, <4>4
    <3> HIDE DEF m, j
    <3>2. Found(digests'[d], m) = Holder(d, m)
      BY <1>7, <3>1
    <3>3. r2[i] = Found(digests'[d], m) /\ r[j] = Holder(d, m)
      BY <1>9, <3>1 DEF m
    <3> QED BY <3>2, <3>3 DEF j
  <2>3. CASE n = WindowSize + 1
    <3>1. n2 = n /\ n - (n2 - 1) = 1 /\ n > 0
      BY <1>1, <1>4, <1>5, <2>3
    <3>2. Tail(r) \in Seq(Digests) /\ Len(Tail(r)) = n - 1
          /\ \A i \in 1 .. n - 1 : Tail(r)[i] = r[i + 1]
      BY <1>9, <1>12, <3>1
    <3>3. /\ n2 - 1 = n - 1 /\ r2[n - 1 + 1] = c /\ n - 1 + 1 = n2
          /\ \A i \in 1 .. n - 1 : i \in 1 .. n2 - 1 /\ i + (n - (n2 - 1)) = i + 1
      BY <1>9, <2>1, <3>1
    <3>4. \A i \in 1 .. n - 1 : r2[i] = r[i + 1]
      BY <2>2, <3>3
    <3>5. /\ \A i \in 1 .. Len(Tail(r)) : r2[i] = Tail(r)[i]
          /\ Len(r2) = Len(Tail(r)) + 1 /\ r2[Len(Tail(r)) + 1] = c
      BY <1>13, <3>2, <3>3, <3>4
    <3>6. r2 = Append(Tail(r), c)
      BY <1>13, <3>2, <3>5, GrownByOne
    <3> QED BY <1>12, <2>3, <3>6
  <2>4. CASE n # WindowSize + 1
    <3>1. n2 = n + 1 /\ n - (n2 - 1) = 0
      BY <1>1, <1>4, <1>5, <2>4
    <3>2. /\ r2[n + 1] = c
          /\ \A i \in 1 .. n : i \in 1 .. n2 - 1 /\ i + (n - (n2 - 1)) = i
      BY <1>9, <2>1, <3>1
    <3>3. \A i \in 1 .. n : r2[i] = r[i]
      BY <2>2, <3>2
    <3>4. /\ \A i \in 1 .. Len(r) : r2[i] = r[i]
          /\ Len(r2) = Len(r) + 1 /\ r2[Len(r) + 1] = c
      BY <1>12, <1>13, <3>1, <3>2, <3>3
    <3>5. r2 = Append(r, c)
      BY <1>12, <1>13, <3>4, GrownByOne
    <3> QED BY <1>12, <2>4, <3>5
  <2> QED BY <2>3, <2>4
<1>16. \A x \in Directions : x # d => remembered'[x] = remembered[x]
  <2> SUFFICES ASSUME NEW x \in Directions, x # d PROVE remembered'[x] = remembered[x]
    OBVIOUS
  <2>1. nextSeq'[x] = nextSeq[x] /\ window'[x] = window[x] /\ digests'[x] = digests[x]
    BY <1>2 DEF AcceptEffect
  <2>2. Tracked(x)' = Tracked(x)
    BY <2>1 DEF Tracked
  <2>3. \A m : Holder(x, m)' = Holder(x, m)
    BY <2>1 DEF Holder
  <2> QED BY <2>1, <2>2, <2>3 DEF remembered
<1>17. remembered' = [remembered EXCEPT ![d] =
         Append(IF Len(@) = WindowSize + 1 THEN Tail(@) ELSE @, c)]
  <2>1. /\ remembered = [x \in Directions |-> remembered[x]]
        /\ remembered' = [x \in Directions |-> remembered'[x]]
    BY DEF remembered
  <2> QED BY <1>15, <1>16, <2>1 DEF r, r2
<1> QED BY <1>14, <1>17 DEF Recent!Accept

(* A memory of no cells is the empty one.                                  *)
LEMMA NothingIsEmpty ==
  ASSUME NEW f, f = [i \in 1 .. 0 |-> f[i]]
  PROVE  f = << >>
<1>1. \A i \in 1 .. 0 : f[i] \in Digests
  OBVIOUS
<1>2. f \in Seq(Digests) /\ Len(f) = 0
  BY <1>1
<1> QED BY <1>2, EmptySeq

(* While callers use numbers of their own, and after a Reset, the memory   *)
(* is empty.                                                               *)
LEMMA EmptyMemory ==
  /\ (\A d \in Directions : Tracked(d) = 0)
       => remembered = [d \in Directions |-> << >>]
  /\ (\A d \in Directions : Tracked(d)' = 0)
       => remembered' = [d \in Directions |-> << >>]
<1>1. ASSUME \A d \in Directions : Tracked(d) = 0
      PROVE  remembered = [d \in Directions |-> << >>]
  <2>1. ASSUME NEW d \in Directions PROVE remembered[d] = << >>
    <3>1. remembered[d] = [i \in 1 .. 0 |-> remembered[d][i]]
      BY <1>1 DEF remembered
    <3> QED BY <3>1, NothingIsEmpty
  <2>2. remembered = [d \in Directions |-> remembered[d]]
    BY DEF remembered
  <2> QED BY <2>1, <2>2
<1>2. ASSUME \A d \in Directions : Tracked(d)' = 0
      PROVE  remembered' = [d \in Directions |-> << >>]
  <2>1. ASSUME NEW d \in Directions PROVE remembered'[d] = << >>
    <3>1. remembered'[d] = [i \in 1 .. 0 |-> remembered'[d][i]]
      BY <1>2 DEF remembered
    <3> QED BY <3>1, NothingIsEmpty
  <2>2. remembered' = [d \in Directions |-> remembered'[d]]
    BY DEF remembered
  <2> QED BY <2>1, <2>2
<1> QED BY <1>1, <1>2

(* Each step of the filter is one of the memory: a cell accepted, all      *)
(* forgotten, or nothing changed.                                          *)
LEMMA StepRefines ==
  ASSUME ReplayTypeOK, WindowInv, WindowIsFull, ReplayTypeOK', WindowInv', WindowIsFull',
         [UseNext]_<<replayVars, mixed>>
  PROVE  [Recent!Next]_remembered
<1>1. CASE mixed'
  <2>1. remembered' = [d \in Directions |-> << >>]
    BY <1>1, EmptyMemory DEF Tracked
  <2> QED BY <2>1 DEF Recent!Next, Recent!Forget
<1>2. CASE Reset
  <2>1. \A d \in Directions : Cardinality(window'[d]) = 0
    BY <1>2, FS_EmptySet DEF Reset
  <2>2. remembered' = [d \in Directions |-> << >>]
    BY <2>1, EmptyMemory DEF Tracked
  <2> QED BY <2>2 DEF Recent!Next, Recent!Forget
<1>3. ASSUME NEW d \in Directions, NEW c \in Digests,
             ValidateAndTrackAuto(d, c), UNCHANGED mixed, ~mixed
      PROVE  Recent!Next
  BY <1>3, AutoIsAccept DEF Recent!Next
<1>4. CASE UNCHANGED <<replayVars, mixed>>
  BY <1>4 DEF remembered, Tracked, Holder, replayVars
<1> QED BY <1>1, <1>2, <1>3, <1>4 DEF UseNext

(* Used as a circuit uses it, the filter implements the abstract memory of *)
(* the last WindowSize + 1 cells, for every window size and any contents:  *)
(* it accepts no cell that is in it and forgets none earlier               *)
(* (replay.go:307-398, circuit.go:858-862).                                *)
THEOREM FilterIsAMemory == UseSpec => ImplementsRecentCells
<1>1. UseInit => Recent!Init
  <2>1. ASSUME UseInit, NEW d \in Directions PROVE Tracked(d) = 0
    BY <2>1, FS_EmptySet DEF UseInit, ReplayInit, Tracked
  <2> QED BY <2>1, EmptyMemory DEF Recent!Init
<1>2. (ReplayTypeOK /\ WindowInv /\ WindowIsFull) /\ (ReplayTypeOK /\ WindowInv /\ WindowIsFull)'
        /\ [UseNext]_<<replayVars, mixed>> => [Recent!Next]_remembered
  BY StepRefines
<1> QED BY <1>1, <1>2, WindowStaysFull, PTL
        DEF UseSpec, ImplementsRecentCells, Recent!Spec
=============================================================================
