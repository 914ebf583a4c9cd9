-------------------------- MODULE ReplayProtection --------------------------
(***************************************************************************)
(* The sliding-window replay filter of pkg/cell/replay.go, which every     *)
(* circuit keeps (Circuit.replayProtection) and consults in                *)
(* DeliverRelayCell.  Each direction has the next expected sequence number,*)
(* the set of sequence numbers seen in the window and the digests of the   *)
(* cells that carried them.  All operations hold the filter's mutex, so    *)
(* each is one step; callers interleave them in any order, with sequence   *)
(* numbers of their own (ValidateAndTrack), with numbers handed out        *)
(* earlier (GetNextSequence) or with the filter's (ValidateAndTrackAuto).  *)
(* A rejected cell changes nothing but the statistics, which are left out. *)
(***************************************************************************)
EXTENDS Integers, FiniteSets, Sequences

CONSTANTS
  Directions,   (* ReplayForward, ReplayBackward                           *)
  Digests,      (* truncated SHA-256 digests of cell contents              *)
  WindowSize,   (* ReplayProtection.windowSize, 32 by default              *)
  MaxSeq,       (* bound: highest sequence number                          *)
  MaxCells      (* bound: cells accepted per direction between resets      *)

ASSUME WindowSizeAssumption == WindowSize \in Nat

ASSUME SeqBoundAssumption == MaxSeq \in Nat /\ MaxCells \in Nat

Untracked == -1

VARIABLES
  nextSeq,  (* forwardSeq, backwardSeq: next expected sequence number      *)
  window,   (* forwardWindow, backwardWindow: numbers seen                 *)
  digests,  (* forwardDigests, backwardDigests: digest -> its number       *)
  log       (* history: what was accepted since the last Reset             *)

replayVars == <<nextSeq, window, digests, log>>

Accepted == [seq : Nat, digest : Digests, expected : Nat]

ReplayTypeOK ==
  /\ nextSeq \in [Directions -> Nat]
  /\ window \in [Directions -> SUBSET Nat]
  /\ digests \in [Directions -> [Digests -> Nat \cup {Untracked}]]
  /\ log \in [Directions -> Seq(Accepted)]

ReplayInit ==
  /\ nextSeq = [d \in Directions |-> 0]
  /\ window = [d \in Directions |-> {}]
  /\ digests = [d \in Directions |-> [c \in Digests |-> Untracked]]
  /\ log = [d \in Directions |-> <<>>]

(* Mutant: the window is one number shorter.                               *)
AtOrBelowWindow(n, expected) == expected > WindowSize /\ n <= expected - WindowSize

(* A number below the window (only once the window has moved off 0).       *)
TooOld(n, expected) == expected > WindowSize /\ n < expected - WindowSize

(* Mutant: a number below the window is not refused.                       *)
validateUnseen(d, n) == n \notin window[d] /\ n <= nextSeq[d] + 2 * WindowSize

validateSequence(d, n) ==
  /\ n \notin window[d]
  /\ ~TooOld(n, nextSeq[d])
  /\ n <= nextSeq[d] + 2 * WindowSize

(* Mutant: only the digests are cleaned.                                   *)
trackWithoutCleanup(d, n, c, expected) ==
  /\ window' = [window EXCEPT ![d] = @ \cup {n}]
  /\ digests' = [digests EXCEPT ![d] =
       [e \in Digests |->
          LET m == IF e = c THEN n ELSE @[e]
          IN  IF m # Untracked /\ TooOld(m, expected) THEN Untracked ELSE m]]
  /\ log' = [log EXCEPT ![d] =
       Append(@, [seq |-> n, digest |-> c, expected |-> nextSeq[d]])]

(* Record number and digest, then drop what lies below the window that     *)
(* ends at "expected".                                                     *)
trackAndCleanup(d, n, c, expected) ==
  /\ window' = [window EXCEPT ![d] = {m \in @ \cup {n} : ~TooOld(m, expected)}]
  /\ digests' = [digests EXCEPT ![d] =
       [e \in Digests |->
          LET m == IF e = c THEN n ELSE @[e]
          IN  IF m # Untracked /\ TooOld(m, expected) THEN Untracked ELSE m]]
  /\ log' = [log EXCEPT ![d] =
       Append(@, [seq |-> n, digest |-> c, expected |-> nextSeq[d]])]

ValidateAndTrack(d, n, c) ==
  /\ Len(log[d]) < MaxCells
  /\ n <= MaxSeq
  /\ digests[d][c] = Untracked
  /\ validateSequence(d, n)
  /\ LET expected == IF n >= nextSeq[d] THEN n + 1 ELSE nextSeq[d]
     IN  /\ nextSeq' = [nextSeq EXCEPT ![d] = expected]
         /\ trackAndCleanup(d, n, c, expected)

(* Mutant: the window is cleaned for the number that comes next.           *)
CleanupAhead(d, c) ==
  /\ Len(log[d]) < MaxCells
  /\ nextSeq[d] <= MaxSeq
  /\ digests[d][c] = Untracked
  /\ validateSequence(d, nextSeq[d])
  /\ trackAndCleanup(d, nextSeq[d], c, nextSeq[d] + 1)
  /\ nextSeq' = [nextSeq EXCEPT ![d] = @ + 1]

(* The number is the expected one; the window is cleaned before it moves.  *)
ValidateAndTrackAuto(d, c) ==
  /\ Len(log[d]) < MaxCells
  /\ nextSeq[d] <= MaxSeq
  /\ digests[d][c] = Untracked
  /\ validateSequence(d, nextSeq[d])
  /\ trackAndCleanup(d, nextSeq[d], c, nextSeq[d])
  /\ nextSeq' = [nextSeq EXCEPT ![d] = @ + 1]

GetNextSequence(d) ==
  /\ nextSeq[d] <= MaxSeq
  /\ nextSeq' = [nextSeq EXCEPT ![d] = @ + 1]
  /\ UNCHANGED <<window, digests, log>>

Reset ==
  /\ nextSeq' = [d \in Directions |-> 0]
  /\ window' = [d \in Directions |-> {}]
  /\ digests' = [d \in Directions |-> [c \in Digests |-> Untracked]]
  /\ log' = [d \in Directions |-> <<>>]

ReplayNext ==
  \/ \E d \in Directions, n \in 0 .. MaxSeq, c \in Digests : ValidateAndTrack(d, n, c)
  \/ \E d \in Directions, c \in Digests : ValidateAndTrackAuto(d, c)
  \/ \E d \in Directions : GetNextSequence(d)
  \/ Reset

ReplaySpec == ReplayInit /\ [][ReplayNext]_replayVars

(* What a circuit does: it never picks a sequence number itself.           *)
AutoNext ==
  \/ \E d \in Directions, c \in Digests : ValidateAndTrackAuto(d, c)
  \/ Reset

AutoSpec == ReplayInit /\ [][AutoNext]_replayVars

-----------------------------------------------------------------------------
(* Properties.                                                             *)

(* No sequence number is accepted twice, although the filter forgets the   *)
(* numbers below its window and callers choose numbers freely: a forgotten *)
(* number is too old by the same bound.                                    *)
SequenceAcceptedOnce ==
  \A d \in Directions : \A i, j \in 1 .. Len(log[d]) :
    log[d][i].seq = log[d][j].seq => i = j

(* A cell content is accepted a second time only once the window has moved *)
(* past its first acceptance.                                              *)
ReplayOnlyPastWindow ==
  \A d \in Directions : \A i, j \in 1 .. Len(log[d]) :
    (i < j /\ log[d][i].digest = log[d][j].digest)
      => log[d][i].seq + WindowSize < log[d][j].expected

(* The number the filter would hand out next is never refused, so a cell   *)
(* with new content always passes ValidateAndTrackAuto whatever numbers    *)
(* other callers used before: the filter cannot wedge a circuit.           *)
FreshCellAccepted == \A d \in Directions : validateSequence(d, nextSeq[d])

(* The filter's memory is bounded by its window on every circuit, however  *)
(* far callers jump ahead: tracked numbers span at most the window, and    *)
(* each tracked digest belongs to one of them and to no other.             *)
MemoryBounded ==
  \A d \in Directions :
    /\ \A m, n \in window[d] : m <= n + WindowSize
    /\ \A c \in Digests : digests[d][c] # Untracked => digests[d][c] \in window[d]
    /\ \A b, c \in Digests :
         (digests[d][b] = digests[d][c] /\ digests[d][b] # Untracked) => b = c
=============================================================================
