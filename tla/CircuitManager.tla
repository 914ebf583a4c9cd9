--------------------------- MODULE CircuitManager ---------------------------
(***************************************************************************)
(* The circuit registry and the circuit builders of pkg/circuit.           *)
(*                                                                         *)
(* A Manager hands out circuit ids and maps each to its Circuit under one  *)
(* lock.  A Builder creates a circuit, connects to the guard, adds three   *)
(* hops and marks the circuit OPEN, each in a lock of the Circuit and none *)
(* in the Manager's, so that CloseCircuit and Close run between its steps. *)
(* The client makes a Builder per build: builders are concurrent.          *)
(*                                                                         *)
(* CloseCircuit and Close change a circuit's state and drop it from the    *)
(* map inside the Manager's lock.  Circuits do not affect each other and   *)
(* the map is read only under that lock, so each is a single action.       *)
(***************************************************************************)
EXTENDS Integers

CONSTANTS
  Builders,     (* Builder objects, one BuildCircuit at a time each         *)
  Creators,     (* callers of CreateCircuitWithContext                      *)
  Circuits,     (* bound: the Circuit objects that are ever made            *)
  IdLimit,      (* 2^32: ids are 1 .. IdLimit - 1, 0 is reserved            *)
  NoCircuit     (* nil                                                      *)

ASSUME CircuitsAssumption == NoCircuit \notin Circuits
ASSUME IdLimitAssumption == IdLimit \in Nat \ {0, 1}

VARIABLES
  registry,     (* Manager.circuits                                         *)
  nextID,       (* Manager.nextID                                           *)
  closed,       (* Manager.closed                                           *)
  id,           (* Circuit.ID                                               *)
  state,        (* Circuit.State, "unmade" before NewCircuit                *)
  hops,         (* len(Circuit.Hops)                                        *)
  closedAt,     (* hops the circuit had when the Manager closed it, or -1   *)
  pc,           (* where each Builder is in BuildCircuit                    *)
  circ,         (* the circuit a Builder works on                           *)
  creator,      (* where each caller of CreateCircuitWithContext is         *)
  made          (* the circuit that caller's goroutine created              *)

managerVars == <<registry, nextID, closed>>
circuitVars == <<id, state, hops, closedAt>>
builderVars == <<pc, circ>>
creatorVars == <<creator, made>>
vars == <<managerVars, circuitVars, builderVars, creatorVars>>

Ids == 1 .. IdLimit - 1

TypeOK ==
  /\ registry \in [Ids -> Circuits \cup {NoCircuit}]
  /\ nextID \in Ids
  /\ closed \in BOOLEAN
  /\ id \in [Circuits -> Ids \cup {0}]
  /\ state \in [Circuits -> {"unmade", "BUILDING", "OPEN", "CLOSED", "FAILED"}]
  /\ hops \in [Circuits -> 0 .. 3]
  /\ closedAt \in [Circuits -> -1 .. 3]
  /\ pc \in [Builders -> {"idle", "connecting", "extending", "opening"}]
  /\ circ \in [Builders -> Circuits \cup {NoCircuit}]
  /\ creator \in [Creators -> {"idle", "waiting", "cancelled", "returned"}]
  /\ made \in [Creators -> Circuits \cup {NoCircuit}]

Init ==
  /\ registry = [i \in Ids |-> NoCircuit]
  /\ nextID = 1
  /\ closed = FALSE
  /\ id = [c \in Circuits |-> 0]
  /\ state = [c \in Circuits |-> "unmade"]
  /\ hops = [c \in Circuits |-> 0]
  /\ closedAt = [c \in Circuits |-> -1]
  /\ pc = [b \in Builders |-> "idle"]
  /\ circ = [b \in Builders |-> NoCircuit]
  /\ creator = [w \in Creators |-> "idle"]
  /\ made = [w \in Creators |-> NoCircuit]

-----------------------------------------------------------------------------
(* The Manager.                                                            *)

FreeIds == {i \in Ids : registry[i] = NoCircuit}

Succ(i) == IF i + 1 = IdLimit THEN 1 ELSE i + 1

(* How many ids the search of CreateCircuit looks at before it reaches i.  *)
Ahead(i) == IF i >= nextID THEN i - nextID ELSE i - nextID + (IdLimit - 1)

(* Mutants: the circuit is given nextID whatever id was found; nextID is   *)
(* taken without a search.                                                 *)
CreateWithNextID(c) ==
  /\ ~closed
  /\ state[c] = "unmade"
  /\ \E i \in FreeIds :
       /\ \A j \in FreeIds : Ahead(i) <= Ahead(j)
       /\ registry' = [registry EXCEPT ![i] = c]
       /\ nextID' = Succ(i)
  /\ id' = [id EXCEPT ![c] = nextID]
  /\ state' = [state EXCEPT ![c] = "BUILDING"]
  /\ UNCHANGED <<closed, hops, closedAt>>

CreateWithoutSearch(c) ==
  /\ ~closed
  /\ state[c] = "unmade"
  /\ registry' = [registry EXCEPT ![nextID] = c]
  /\ nextID' = Succ(nextID)
  /\ id' = [id EXCEPT ![c] = nextID]
  /\ state' = [state EXCEPT ![c] = "BUILDING"]
  /\ UNCHANGED <<closed, hops, closedAt>>

(* The first free id from nextID on, around the end of the id space; no    *)
(* step when the Manager is closed or every id is taken.                   *)
CreateCircuit(c) ==
  /\ ~closed
  /\ state[c] = "unmade"
  /\ \E i \in FreeIds :
       /\ \A j \in FreeIds : Ahead(i) <= Ahead(j)
       /\ registry' = [registry EXCEPT ![i] = c]
       /\ nextID' = Succ(i)
       /\ id' = [id EXCEPT ![c] = i]
  /\ state' = [state EXCEPT ![c] = "BUILDING"]
  /\ UNCHANGED <<closed, hops, closedAt>>

Registered == {registry[i] : i \in Ids} \ {NoCircuit}

Shut(C) ==
  /\ state' = [c \in Circuits |-> IF c \in C THEN "CLOSED" ELSE state[c]]
  /\ closedAt' = [c \in Circuits |-> IF c \in C THEN hops[c] ELSE closedAt[c]]

CloseCircuit(i) ==
  /\ registry[i] # NoCircuit
  /\ Shut({registry[i]})
  /\ registry' = [registry EXCEPT ![i] = NoCircuit]
  /\ UNCHANGED <<nextID, closed, id, hops, builderVars, creatorVars>>

Close ==
  /\ ~closed
  /\ closed' = TRUE
  /\ Shut(Registered)
  /\ registry' = [i \in Ids |-> NoCircuit]
  /\ UNCHANGED <<nextID, id, hops, builderVars, creatorVars>>

(* The circuit pool closes a circuit it was given without telling the      *)
(* Manager; it only ever holds circuits that a Builder has finished.       *)
SetStateClosed(c) ==
  /\ state[c] = "OPEN"
  /\ state' = [state EXCEPT ![c] = "CLOSED"]
  /\ UNCHANGED <<managerVars, id, hops, closedAt, builderVars, creatorVars>>

-----------------------------------------------------------------------------
(* A Builder.                                                              *)

BuildCircuit(b, c) ==
  /\ pc[b] = "idle"
  /\ CreateCircuit(c)
  /\ pc' = [pc EXCEPT ![b] = "connecting"]
  /\ circ' = [circ EXCEPT ![b] = c]
  /\ UNCHANGED creatorVars

Return(b) ==
  /\ pc' = [pc EXCEPT ![b] = "idle"]
  /\ circ' = [circ EXCEPT ![b] = NoCircuit]

(* An error return of BuildCircuit: SetState(StateFailed), whatever the    *)
(* state was.                                                              *)
Fail(b) ==
  /\ state' = [state EXCEPT ![circ[b]] = "FAILED"]
  /\ Return(b)

(* Mutant: a connection error returns without SetState(StateFailed).       *)
connectWithoutFail(b) ==
  /\ pc[b] = "connecting"
  /\ \/ pc' = [pc EXCEPT ![b] = "extending"] /\ UNCHANGED <<state, circ>>
     \/ Return(b) /\ UNCHANGED state
  /\ UNCHANGED <<managerVars, id, hops, closedAt, creatorVars>>

connectToRelay(b) ==
  /\ pc[b] = "connecting"
  /\ \/ pc' = [pc EXCEPT ![b] = "extending"] /\ UNCHANGED <<state, circ>>
     \/ Fail(b)
  /\ UNCHANGED <<managerVars, id, hops, closedAt, creatorVars>>

(* Mutant: AddHop does not look at the state.                              *)
AddHopUnchecked(b) ==
  /\ pc[b] = "extending"
  /\ hops' = [hops EXCEPT ![circ[b]] = @ + 1]
  /\ pc' = [pc EXCEPT ![b] = IF hops'[circ[b]] = 3 THEN "opening" ELSE @]
  /\ UNCHANGED <<state, circ, managerVars, id, closedAt, creatorVars>>

AddHop(b) ==
  /\ pc[b] = "extending"
  /\ IF state[circ[b]] = "BUILDING"
       THEN /\ hops' = [hops EXCEPT ![circ[b]] = @ + 1]
            /\ pc' = [pc EXCEPT ![b] = IF hops'[circ[b]] = 3 THEN "opening" ELSE @]
            /\ UNCHANGED <<state, circ>>
       ELSE Fail(b) /\ UNCHANGED hops
  /\ UNCHANGED <<managerVars, id, closedAt, creatorVars>>

(* SetState(StateOpen), whatever the state was.                            *)
MarkOpen(b) ==
  /\ pc[b] = "opening"
  /\ state' = [state EXCEPT ![circ[b]] = "OPEN"]
  /\ Return(b)
  /\ UNCHANGED <<managerVars, id, hops, closedAt, creatorVars>>

-----------------------------------------------------------------------------
(* CreateCircuitWithContext: a goroutine creates the circuit while the     *)
(* caller waits for it or for the end of its context.                      *)

CreateCircuitWithContext(w) ==
  /\ creator[w] = "idle"
  /\ creator' = [creator EXCEPT ![w] = "waiting"]
  /\ UNCHANGED <<managerVars, circuitVars, builderVars, made>>

CreateInBackground(w, c) ==
  /\ creator[w] \in {"waiting", "cancelled"}
  /\ made[w] = NoCircuit
  /\ CreateCircuit(c)
  /\ made' = [made EXCEPT ![w] = c]
  /\ UNCHANGED <<builderVars, creator>>

(* The circuit, or the error of a CreateCircuit that could make none.      *)
ReturnCreated(w) ==
  /\ creator[w] = "waiting"
  /\ made[w] # NoCircuit \/ closed \/ FreeIds = {}
  /\ creator' = [creator EXCEPT ![w] = "returned"]
  /\ UNCHANGED <<managerVars, circuitVars, builderVars, made>>

CancelCreate(w) ==
  /\ creator[w] = "waiting"
  /\ creator' = [creator EXCEPT ![w] = "cancelled"]
  /\ UNCHANGED <<managerVars, circuitVars, builderVars, made>>

-----------------------------------------------------------------------------
BuilderStep(b) == connectToRelay(b) \/ AddHop(b) \/ MarkOpen(b)

Next ==
  \/ \E b \in Builders, c \in Circuits : BuildCircuit(b, c)
  \/ \E b \in Builders : connectToRelay(b) \/ AddHop(b) \/ MarkOpen(b)
  \/ \E i \in Ids : CloseCircuit(i)
  \/ Close
  \/ \E c \in Circuits : SetStateClosed(c)
  \/ \E w \in Creators : \/ CreateCircuitWithContext(w)
                         \/ ReturnCreated(w)
                         \/ CancelCreate(w)
  \/ \E w \in Creators, c \in Circuits : CreateInBackground(w, c)

Spec == Init /\ [][Next]_vars

(* BuildCircuit never waits for anything but the connection, which its own *)
(* timeout bounds, so a Builder that can step does.                        *)
Fairness == \A b \in Builders : WF_vars(BuilderStep(b))

FairSpec == Spec /\ Fairness

-----------------------------------------------------------------------------
(* Properties.                                                             *)

(* What an id names in the Manager is the circuit that bears the id, so    *)
(* that CloseCircuit(circ.ID) closes circ: the id search, its wrap around  *)
(* 2^32 and the deletes never leave a circuit under another one's id       *)
(* (CreateCircuit, circuit.go:199).                                        *)
IdNamesItsCircuit ==
  \A i \in Ids : registry[i] # NoCircuit =>
    id[registry[i]] = i /\ state[registry[i]] # "unmade"

(* CreateCircuit never takes the id of a circuit the Manager still holds,  *)
(* also after nextID has wrapped: an entry only ever changes to nil        *)
(* (circuit.go:208).                                                       *)
EntryNeverOverwritten ==
  [][\A i \in Ids : registry[i] # NoCircuit => registry'[i] \in {registry[i], NoCircuit}]_vars

(* An OPEN circuit has its three hops, although any of the three AddHop    *)
(* calls may find the circuit closed by someone else (builder.go:68-107).  *)
OpenHasThreeHops == \A c \in Circuits : state[c] = "OPEN" => hops[c] = 3

(* A circuit can be alive without the Manager knowing it only if it was    *)
(* closed after its last hop and before the Builder marked it OPEN: a      *)
(* close before the third AddHop is noticed (circuit.go:143).              *)
LiveUnlessClosedLate ==
  \A c \in Circuits : state[c] \in {"BUILDING", "OPEN"} =>
    registry[id[c]] = c \/ closedAt[c] = 3

(* A Builder never leaves its circuit BUILDING: whatever fails, and        *)
(* whoever closes the circuit meanwhile, the build ends in another state   *)
(* (the SetState calls of BuildCircuit).                                   *)
BuildSettles ==
  \A c \in Circuits :
    (\E b \in Builders : circ[b] = c) ~> state[c] \in {"OPEN", "FAILED", "CLOSED"}
=============================================================================
