--------------------------- MODULE PathSelection ---------------------------
(***************************************************************************)
(* Path selection and the persistent guards (pkg/path/path.go, guards.go), *)
(* used by the goroutines that build circuits (client.go:357-420).         *)
(*                                                                         *)
(* Two read-write locks order everything.  The selector's is held for      *)
(* reading through a selection, the save of a new guard included, and for  *)
(* writing by UpdateConsensus.  The guard manager's is held for reading    *)
(* through a Save, so that saves overlap, and for writing by whatever      *)
(* changes the list.                                                       *)
(*                                                                         *)
(* The state file is two names, the file and its ".tmp", on numbered       *)
(* contents: a Save truncates whatever ".tmp" names, writes it and renames *)
(* it.  The process may stop at any point and start again.                 *)
(***************************************************************************)
EXTENDS Consensus, FiniteSets

CONSTANTS
  Builders,     (* goroutines that build circuits                           *)
  Documents,    (* bound: what an authority may serve                       *)
  Authorities,  (* number of directory authorities                          *)
  MaxGuards,    (* GuardManager.maxGuards, 3                                *)
  MaxEpoch      (* bound: guardExpiry periods that go by                    *)

ASSUME BuildersAssumption == IsFiniteSet(Builders)
ASSUME GuardLimitAssumption == MaxGuards \in Nat \ {0}
ASSUME AuthoritiesAssumption == Authorities \in Nat \ {0}
ASSUME EpochAssumption == MaxEpoch \in Nat

VARIABLES
  relays,     (* Selector.relays                                            *)
  guards,     (* Selector.guards                                            *)
  list,       (* GuardManager.state.Guards                                  *)
  epoch,      (* the time, in periods of guardExpiry                        *)
  pc,         (* where each builder is                                      *)
  selecting,  (* the builders that hold the selector's lock                 *)
  guard,      (* the guard of each builder's path                           *)
  path,       (* its path, once selected                                    *)
  data,       (* the list that its Save has marshalled                      *)
  fd,         (* the content it writes                                      *)
  tmp,        (* the content ".tmp" names                                   *)
  file,       (* the content the state file names                           *)
  content,    (* the list in each content                                   *)
  torn,       (* contents that do not parse: truncated or mixed             *)
  overlapped, (* history: two Saves have run at once                        *)
  acked       (* history: guards whose confirmation has been saved          *)

selectorVars == <<relays, guards>>
builderVars  == <<pc, selecting, guard, path>>
fileVars     == <<data, fd, tmp, file, content, torn, overlapped>>
vars == <<selectorVars, list, epoch, builderVars, fileVars, acked>>

Entry == [relay : Relays, confirmed : BOOLEAN, used : 0 .. MaxEpoch]
ConsensusEntry == [relay : Relays, flags : SUBSET Flags]
NoFile == 0

(* One content per Save that may be running, one for the state file and    *)
(* one that a stopped process leaves behind.                               *)
Contents == 1 .. Cardinality(Builders) + 2

Saving == {b \in Builders : pc[b] \in {"writing", "renaming"}}

TypeOK ==
  /\ relays \subseteq ConsensusEntry /\ guards \subseteq relays
  /\ list \in Seq(Entry)
  /\ epoch \in 0 .. MaxEpoch
  /\ pc \in [Builders -> {"idle", "adding", "saving", "writing", "renaming",
                          "choosing", "building", "confirming"}]
  /\ selecting \subseteq Builders
  /\ guard \in [Builders -> Relays \cup {NoRelay}]
  /\ \A b \in Builders : path[b] \in Seq(Relays) /\ Len(path[b]) \in {0, 3}
  /\ \A b \in Builders : data[b] \in Seq(Entry)
  /\ fd \in [Builders -> Contents \cup {NoFile}]
  /\ tmp \in Contents \cup {NoFile} /\ file \in Contents \cup {NoFile}
  /\ \A i \in Contents : content[i] \in Seq(Entry)
  /\ torn \subseteq Contents
  /\ overlapped \in BOOLEAN
  /\ acked \subseteq Relays

Init ==
  /\ relays = {} /\ guards = {}
  /\ list = << >> /\ epoch = 0
  /\ pc = [b \in Builders |-> "idle"] /\ selecting = {}
  /\ guard = [b \in Builders |-> NoRelay]
  /\ path = [b \in Builders |-> << >>]
  /\ data = [b \in Builders |-> << >>]
  /\ fd = [b \in Builders |-> NoFile]
  /\ tmp = NoFile /\ file = NoFile
  /\ content = [i \in Contents |-> << >>]
  /\ torn = {}
  /\ overlapped = FALSE
  /\ acked = {}

-----------------------------------------------------------------------------
(* The guard manager.                                                      *)

IndexOf(l, r) == {i \in DOMAIN l : l[i].relay = r}
Unconfirmed(l) == {i \in DOMAIN l : ~l[i].confirmed}
First(S) == CHOOSE i \in S : \A j \in S : i <= j

(* GetGuards: the entries that have not expired, in order.                 *)
Unexpired(l) ==
  LET kept == {i \in DOMAIN l : l[i].used = epoch}
      Place(i) == Cardinality({j \in kept : j <= i})
  IN  [k \in 1 .. Cardinality(kept) |-> l[CHOOSE i \in kept : Place(i) = k]]

(* Mutant: Save gives the lock back once it has marshalled the list.       *)
ListFreeEarly == Saving \subseteq Builders

(* Whatever changes the list holds the lock that running Saves share.      *)
ListFree == Saving = {}

Touched(l, r) ==
  [i \in DOMAIN l |-> IF l[i].relay = r
                        THEN [l[i] EXCEPT !.confirmed = TRUE, !.used = epoch]
                        ELSE l[i]]

NewEntry(r) == [relay |-> r, confirmed |-> FALSE, used |-> epoch]

(* Mutant: a full list makes room by its first entry.                      *)
AddedOverFirst(l, r) ==
  CASE IndexOf(l, r) # {} -> Touched(l, r)
    [] IndexOf(l, r) = {} /\ Len(l) < MaxGuards -> Append(l, NewEntry(r))
    [] OTHER -> Append(Tail(l), NewEntry(r))

(* AddGuard: an entry that is there is confirmed; a full list makes room   *)
(* by its first unconfirmed entry, or stays as it is.                      *)
Added(l, r) ==
  CASE IndexOf(l, r) # {} -> Touched(l, r)
    [] IndexOf(l, r) = {} /\ Len(l) < MaxGuards -> Append(l, NewEntry(r))
    [] IndexOf(l, r) = {} /\ Len(l) >= MaxGuards /\ Unconfirmed(l) # {} ->
         Append(RemoveAt(l, First(Unconfirmed(l))), NewEntry(r))
    [] OTHER -> l

RemoveGuard(r) ==
  /\ ListFree
  /\ IndexOf(list, r) # {}
  /\ list' = RemoveAt(list, First(IndexOf(list, r)))
  /\ acked' = acked \ {r}
  /\ UNCHANGED <<selectorVars, epoch, builderVars, fileVars>>

CleanupExpired ==
  /\ ListFree
  /\ list' = Unexpired(list)
  /\ acked' = acked \ {list[i].relay : i \in {j \in DOMAIN list : list[j].used # epoch}}
  /\ UNCHANGED <<selectorVars, epoch, builderVars, fileVars>>

Tick ==
  /\ epoch < MaxEpoch
  /\ epoch' = epoch + 1
  /\ UNCHANGED <<selectorVars, list, builderVars, fileVars, acked>>

-----------------------------------------------------------------------------
(* Save, in the steps that other processes and a crash can see.            *)

Fresh == First(Contents \ ({fd[b] : b \in Saving} \cup {tmp, file}))

(* Marshal, then open and truncate what ".tmp" names.                      *)
SaveOpen(b) ==
  /\ pc[b] = "saving"
  /\ LET i == IF tmp = NoFile THEN Fresh ELSE tmp IN
       /\ tmp' = i
       /\ fd' = [fd EXCEPT ![b] = i]
       /\ content' = [content EXCEPT ![i] = << >>]
       /\ torn' = torn \cup {i}
  /\ data' = [data EXCEPT ![b] = list]
  /\ pc' = [pc EXCEPT ![b] = "writing"]
  /\ overlapped' = (overlapped \/ Saving # {})
  /\ UNCHANGED <<selectorVars, list, epoch, selecting, guard, path, file, acked>>

(* Two Saves that write one content mix it if their lengths differ, which  *)
(* the time in the file decides.                                           *)
SaveWrite(b) ==
  /\ pc[b] = "writing"
  /\ content' = [content EXCEPT ![fd[b]] = data[b]]
  /\ \/ torn' = torn \ {fd[b]}
     \/ fd[b] \notin torn /\ torn' = torn \cup {fd[b]}
  /\ pc' = [pc EXCEPT ![b] = "renaming"]
  /\ UNCHANGED <<selectorVars, list, epoch, selecting, guard, path, data, fd,
                 tmp, file, overlapped, acked>>

AfterSave(b) ==
  /\ pc' = [pc EXCEPT ![b] = IF b \in selecting THEN "choosing" ELSE "idle"]
  /\ fd' = [fd EXCEPT ![b] = NoFile]
  /\ data' = [data EXCEPT ![b] = << >>]
  /\ guard' = [guard EXCEPT ![b] = IF b \in selecting THEN @ ELSE NoRelay]

(* The write or the marshalling fails: logged, and the path is used.       *)
SaveFails(b) ==
  /\ pc[b] = "writing"
  /\ AfterSave(b)
  /\ UNCHANGED <<selectorVars, list, epoch, selecting, path, tmp, file, content,
                 torn, overlapped, acked>>

Confirmed(l) == {l[i].relay : i \in DOMAIN l \ Unconfirmed(l)}

(* Without ".tmp", which another Save has renamed, the rename fails.  A    *)
(* content that loses its name counts as empty.                            *)
SaveRename(b) ==
  /\ pc[b] = "renaming"
  /\ tmp' = NoFile
  /\ file' = IF tmp = NoFile THEN file ELSE tmp
  /\ acked' = IF tmp = NoFile THEN acked ELSE acked \cup Confirmed(data[b])
  /\ content' = [i \in Contents |-> IF i = file /\ tmp # NoFile THEN << >> ELSE content[i]]
  /\ torn' = IF tmp = NoFile THEN torn ELSE torn \ {file}
  /\ AfterSave(b)
  /\ UNCHANGED <<selectorVars, list, epoch, selecting, path, overlapped>>

-----------------------------------------------------------------------------
(* Selecting a path and building a circuit along it.                       *)

(* Mutant: the selector's lock is released between guard and exit.         *)
UpdateAnyTime(fetched) ==
  /\ fetched.ok
  /\ relays' = Usable(fetched.relays)
  /\ guards' = GuardsOf(fetched.relays)
  /\ UNCHANGED <<list, epoch, builderVars, fileVars, acked>>

(* FetchConsensus needs no lock; its result is stored under the selector's.*)
UpdateConsensus(fetched) ==
  /\ selecting = {}
  /\ fetched.ok
  /\ relays' = Usable(fetched.relays)
  /\ guards' = GuardsOf(fetched.relays)
  /\ UNCHANGED <<list, epoch, builderVars, fileVars, acked>>

RelaysOf(es) == {e.relay : e \in es}

(* The first persistent guard of the consensus, or any guard of it.        *)
SelectGuard(b) ==
  /\ pc[b] = "idle"
  /\ guards # {}
  /\ selecting' = selecting \cup {b}
  /\ LET kept == Unexpired(list)
         usable == {i \in DOMAIN kept : kept[i].relay \in RelaysOf(guards)}
     IN  IF usable # {}
           THEN /\ guard' = [guard EXCEPT ![b] = kept[First(usable)].relay]
                /\ pc' = [pc EXCEPT ![b] = "choosing"]
           ELSE /\ \E r \in RelaysOf(guards) : guard' = [guard EXCEPT ![b] = r]
                /\ pc' = [pc EXCEPT ![b] = "adding"]
  /\ UNCHANGED <<selectorVars, list, epoch, path, fileVars, acked>>

AddGuard(b) ==
  /\ pc[b] = "adding"
  /\ ListFree
  /\ list' = Added(list, guard[b])
  /\ pc' = [pc EXCEPT ![b] = "saving"]
  /\ UNCHANGED <<selectorVars, epoch, selecting, guard, path, fileVars, acked>>

(* selectExit falls back to any other relay.                               *)
ExitsFor(g) ==
  LET others == {e \in relays : e.relay # g}
      exits == {e \in others : "Exit" \in e.flags}
  IN  RelaysOf(IF exits = {} THEN others ELSE exits)

MiddlesFor(g, x) == RelaysOf(relays) \ {g, x}

SelectRest(b) ==
  /\ pc[b] = "choosing"
  /\ selecting' = selecting \ {b}
  /\ \/ \E x \in ExitsFor(guard[b]) : \E m \in MiddlesFor(guard[b], x) :
          /\ path' = [path EXCEPT ![b] = <<guard[b], m, x>>]
          /\ pc' = [pc EXCEPT ![b] = "building"]
          /\ UNCHANGED guard
     \/ /\ \/ ExitsFor(guard[b]) = {}
           \/ \E x \in ExitsFor(guard[b]) : MiddlesFor(guard[b], x) = {}
        /\ guard' = [guard EXCEPT ![b] = NoRelay]
        /\ pc' = [pc EXCEPT ![b] = "idle"]
        /\ UNCHANGED path
  /\ UNCHANGED <<selectorVars, list, epoch, fileVars, acked>>

(* BuildCircuit, which CircuitManager models.                              *)
BuildEnds(b, built) ==
  /\ pc[b] = "building"
  /\ pc' = [pc EXCEPT ![b] = IF built THEN "confirming" ELSE "idle"]
  /\ guard' = [guard EXCEPT ![b] = IF built THEN @ ELSE NoRelay]
  /\ path' = [path EXCEPT ![b] = << >>]
  /\ UNCHANGED <<selectorVars, list, epoch, selecting, fileVars, acked>>

(* ConfirmGuard saves only what it found.                                  *)
ConfirmGuard(b) ==
  /\ pc[b] = "confirming"
  /\ ListFree
  /\ list' = Touched(list, guard[b])
  /\ IF IndexOf(list, guard[b]) # {}
       THEN pc' = [pc EXCEPT ![b] = "saving"] /\ UNCHANGED guard
       ELSE /\ pc' = [pc EXCEPT ![b] = "idle"]
            /\ guard' = [guard EXCEPT ![b] = NoRelay]
  /\ UNCHANGED <<selectorVars, epoch, selecting, path, fileVars, acked>>

(* The process stops, wherever it is, and starts again: NewGuardManager    *)
(* loads the file, or begins with no guards if it cannot.                  *)
Restart ==
  /\ relays' = {} /\ guards' = {}
  /\ list' = IF file = NoFile \/ file \in torn THEN << >> ELSE content[file]
  /\ pc' = [b \in Builders |-> "idle"] /\ selecting' = {}
  /\ guard' = [b \in Builders |-> NoRelay]
  /\ path' = [b \in Builders |-> << >>]
  /\ data' = [b \in Builders |-> << >>]
  /\ fd' = [b \in Builders |-> NoFile]
  /\ acked' = acked \cap Confirmed(list')
  /\ UNCHANGED <<epoch, tmp, file, content, torn, overlapped>>

Fetches == {Fetch(served) : served \in [1 .. Authorities -> Documents \cup {Unreachable}]}

Next ==
  \/ \E fetched \in Fetches : UpdateConsensus(fetched)
  \/ \E b \in Builders :
       \/ SelectGuard(b) \/ AddGuard(b) \/ SelectRest(b) \/ ConfirmGuard(b)
       \/ SaveOpen(b) \/ SaveWrite(b) \/ SaveFails(b) \/ SaveRename(b)
       \/ \E built \in BOOLEAN : BuildEnds(b, built)
  \/ \E r \in Relays : RemoveGuard(r)
  \/ CleanupExpired
  \/ Tick
  \/ Restart

Spec == Init /\ [][Next]_vars

-----------------------------------------------------------------------------
(* Properties.                                                             *)

(* The three relays of a path differ and belong to one consensus, the one  *)
(* in force when the path is complete, although the guard was picked some  *)
(* locks and a file write earlier, and its guard is a guard of that        *)
(* consensus (path.go:111-148; UpdateConsensus waits for selections).      *)
PathOfOneConsensus ==
  [][\A b \in Builders :
       path'[b] # path[b] /\ path'[b] # << >> =>
         /\ path'[b][1] \in RelaysOf(guards)
         /\ {path'[b][2], path'[b][3]} \subseteq RelaysOf(relays)
         /\ Cardinality({path'[b][i] : i \in 1 .. 3}) = 3]_vars

(* A guard whose confirmation a Save has stored is confirmed in the state  *)
(* file at every moment from then on, so also after a crash in the middle  *)
(* of a later Save, unless it was removed or expired.  Only Saves that     *)
(* overlap, and share the temporary file, can leave a file that does not   *)
(* parse (guards.go:95-118).                                               *)
SavedGuardSurvives ==
  /\ file \in torn => overlapped
  /\ file \notin torn =>
       acked \subseteq (IF file = NoFile THEN {} ELSE Confirmed(content[file]))

(* While the process runs, a confirmed guard leaves the list only by       *)
(* RemoveGuard or by expiry: no selection that finds its guards missing    *)
(* from one consensus, and no two selections at once, push it out          *)
(* (guards.go:157-174, path.go:163).                                       *)
ConfirmedGuardKept ==
  [][\A r \in Confirmed(list) :
       \/ r \in Confirmed(list')
       \/ RemoveGuard(r) \/ CleanupExpired \/ Restart]_vars
=============================================================================
