----------------------------- MODULE Consensus -----------------------------
(***************************************************************************)
(* How the directory client reads a consensus (pkg/directory/directory.go) *)
(* and what the path selector keeps of it (pkg/path/path.go).              *)
(*                                                                         *)
(* A document is a sequence of lines.  An "r" line starts the entry of a   *)
(* relay, unless it has too few fields; an "s" line gives flags.  All other*)
(* lines are skipped and left out.  Addresses and ports are left out: a    *)
(* port that does not parse is logged and the entry is kept.               *)
(***************************************************************************)
EXTENDS Integers, SequencesExt

CONSTANTS
  Relays,          (* fingerprints                                          *)
  NoRelay,         (* nil                                                   *)
  MalformedRate    (* maxMalformedEntryRate, a percentage                   *)

ASSUME NoRelayAssumption == NoRelay \notin Relays
ASSUME RateAssumption == MalformedRate \in 0 .. 100

Flags == {"Guard", "Exit", "Stable", "Running", "Valid"}

(* An "r" line whose relay is NoRelay has too few fields.                  *)
EntryLine(r) == [kind |-> "r", relay |-> r]
FlagsLine(F) == [kind |-> "s", flags |-> F]

Scanning == [listed : SUBSET Relays, current : Relays \cup {NoRelay},
             flags : [Relays -> SUBSET Flags], entries : Nat, malformed : Nat]

StartScan ==
  [listed |-> {}, current |-> NoRelay, flags |-> [r \in Relays |-> {}],
   entries |-> 0, malformed |-> 0]

(* The relay before is listed.  A malformed line leaves it current, so it  *)
(* is listed once more later, and the flags that follow become its own.    *)
ScanEntry(s, r) ==
  LET listed == s.listed \cup ({s.current} \ {NoRelay}) IN
  IF r = NoRelay
    THEN [s EXCEPT !.listed = listed, !.entries = @ + 1, !.malformed = @ + 1]
    ELSE [s EXCEPT !.listed = listed, !.entries = @ + 1,
                   !.current = r, !.flags[r] = {}]

ScanFlags(s, F) ==
  IF s.current = NoRelay THEN s ELSE [s EXCEPT !.flags[s.current] = F]

ScanLine(s, line) ==
  IF line.kind = "r" THEN ScanEntry(s, line.relay) ELSE ScanFlags(s, line.flags)

TooMalformed(s) == s.malformed > (s.entries * MalformedRate) \div 100

(* parseConsensus: the relays, or nothing when too much is malformed.      *)
Parsed(doc) ==
  LET s == FoldLeft(ScanLine, StartScan, doc)
      listed == s.listed \cup ({s.current} \ {NoRelay})
  IN  [ok |-> ~TooMalformed(s),
       relays |-> {[relay |-> r, flags |-> s.flags[r]] : r \in listed}]

(* FetchConsensus: the first authority that gives a document that parses.  *)
(* Unreachable also stands for a wrong status and a body that breaks off.  *)
Unreachable == <<[kind |-> "none"]>>

Fetch(served) ==
  LET good == {i \in DOMAIN served : served[i] # Unreachable /\ Parsed(served[i]).ok}
  IN  IF good = {} THEN [ok |-> FALSE, relays |-> {}]
      ELSE Parsed(served[CHOOSE i \in good : \A j \in good : i <= j])

(* What UpdateConsensus keeps.                                             *)
Usable(relays) == {e \in relays : {"Running", "Valid"} \subseteq e.flags}
GuardsOf(relays) == {e \in Usable(relays) : {"Guard", "Stable"} \subseteq e.flags}

=============================================================================
