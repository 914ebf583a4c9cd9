------------------------ MODULE CircuitManagerProofs ------------------------
(***************************************************************************)
(* Proofs about CircuitManager, for every number of builders, creators,    *)
(* circuits and ids.  The invariant that carries them says, besides the    *)
(* types, what each Builder knows of its own circuit: nobody else builds   *)
(* it, its hops match the Builder's place, and it is BUILDING or has been  *)
(* CLOSED, after its last hop if the Builder is about to open it.          *)
(***************************************************************************)
EXTENDS CircuitManager, TLAPS

(* A Builder at work has a circuit of its own.                             *)
Owned ==
  /\ \A b \in Builders : (pc[b] = "idle") <=> (circ[b] = NoCircuit)
  /\ \A a, b \in Builders : (circ[a] = circ[b] /\ circ[a] # NoCircuit) => a = b

(* How far the circuit of a Builder is.                                    *)
Progress ==
  \A b \in Builders : circ[b] # NoCircuit =>
    /\ state[circ[b]] \in {"BUILDING", "CLOSED"}
    /\ pc[b] = "connecting" => hops[circ[b]] = 0
    /\ pc[b] = "extending" => hops[circ[b]] < 3
    /\ pc[b] = "opening" => hops[circ[b]] = 3
    /\ (pc[b] = "opening" /\ state[circ[b]] = "CLOSED") => closedAt[circ[b]] = 3

Fresh == \A c \in Circuits : state[c] = "unmade" => hops[c] = 0

HasId == \A c \in Circuits : state[c] # "unmade" => id[c] \in Ids

IInv == TypeOK /\ Owned /\ Progress /\ Fresh /\ HasId
          /\ IdNamesItsCircuit /\ OpenHasThreeHops /\ LiveUnlessClosedLate

(* A circuit id is a natural number, and so is the next one.               *)
LEMMA IdsNat == /\ Ids \subseteq Nat
                /\ 1 \in Ids
                /\ \A i \in Ids : Succ(i) \in Ids
  BY IdLimitAssumption DEF IdLimitAssumption, Ids, Succ

(* The state before the first circuit satisfies the invariant.             *)
LEMMA InitIInv == Init => IInv
<1> SUFFICES ASSUME Init PROVE IInv
  OBVIOUS
<1> USE DEF Init
<1>1. TypeOK
  <2>1. registry \in [Ids -> Circuits \cup {NoCircuit}] /\ nextID \in Ids
    BY IdsNat
  <2>2. closed \in BOOLEAN
    OBVIOUS
  <2>3. /\ id \in [Circuits -> Ids \cup {0}]
        /\ state \in [Circuits -> {"unmade", "BUILDING", "OPEN", "CLOSED", "FAILED"}]
    OBVIOUS
  <2>4. hops \in [Circuits -> 0 .. 3] /\ closedAt \in [Circuits -> -1 .. 3]
    OBVIOUS
  <2>5. /\ pc \in [Builders -> {"idle", "connecting", "extending", "opening"}]
        /\ circ \in [Builders -> Circuits \cup {NoCircuit}]
    OBVIOUS
  <2>6. /\ creator \in [Creators -> {"idle", "waiting", "cancelled", "returned"}]
        /\ made \in [Creators -> Circuits \cup {NoCircuit}]
    OBVIOUS
  <2> QED
    BY <2>1, <2>2, <2>3, <2>4, <2>5, <2>6 DEF TypeOK
<1>2. Owned /\ Progress /\ Fresh /\ HasId
  BY DEF Owned, Progress, Fresh, HasId
<1>3. IdNamesItsCircuit /\ OpenHasThreeHops /\ LiveUnlessClosedLate
  BY DEF IdNamesItsCircuit, OpenHasThreeHops, LiveUnlessClosedLate
<1> QED
  BY <1>1, <1>2, <1>3 DEF IInv

-----------------------------------------------------------------------------
(* What CreateCircuit does, with the id it found.                          *)
CreateEffect(c, i) ==
  /\ i \in Ids /\ registry[i] = NoCircuit
  /\ state[c] = "unmade"
  /\ registry' = [registry EXCEPT ![i] = c]
  /\ nextID' = Succ(i)
  /\ id' = [id EXCEPT ![c] = i]
  /\ state' = [state EXCEPT ![c] = "BUILDING"]
  /\ UNCHANGED <<closed, hops, closedAt>>

(* CreateCircuit registers the circuit under a free id.                    *)
LEMMA CreateIsEffect ==
  ASSUME NEW c \in Circuits, CreateCircuit(c)
  PROVE  \E i \in Ids : CreateEffect(c, i)
  BY DEF CreateCircuit, CreateEffect, FreeIds

(* Creating a circuit keeps what does not speak of the Builders.           *)
LEMMA CreateKeeps ==
  ASSUME IInv, NEW c \in Circuits, CreateCircuit(c)
  PROVE  /\ registry' \in [Ids -> Circuits \cup {NoCircuit}]
         /\ nextID' \in Ids
         /\ closed' \in BOOLEAN
         /\ id' \in [Circuits -> Ids \cup {0}]
         /\ state' \in [Circuits -> {"unmade", "BUILDING", "OPEN", "CLOSED", "FAILED"}]
         /\ state[c] = "unmade" /\ state' = [state EXCEPT ![c] = "BUILDING"]
         /\ hops' = hops /\ closedAt' = closedAt
         /\ Fresh' /\ HasId'
         /\ IdNamesItsCircuit' /\ OpenHasThreeHops' /\ LiveUnlessClosedLate'
<1>1. PICK i \in Ids : CreateEffect(c, i)
  BY CreateIsEffect
<1> USE <1>1 DEF CreateEffect
<1>2. /\ registry' \in [Ids -> Circuits \cup {NoCircuit}]
      /\ nextID' \in Ids
      /\ closed' \in BOOLEAN
      /\ id' \in [Circuits -> Ids \cup {0}]
      /\ state' \in [Circuits -> {"unmade", "BUILDING", "OPEN", "CLOSED", "FAILED"}]
  BY IdsNat DEF IInv, TypeOK
<1>3. Fresh' /\ HasId' /\ OpenHasThreeHops'
  BY DEF IInv, TypeOK, Fresh, HasId, OpenHasThreeHops
<1>4. IdNamesItsCircuit'
  BY CircuitsAssumption DEF CircuitsAssumption, IInv, TypeOK, IdNamesItsCircuit
<1>5. LiveUnlessClosedLate'
  BY CircuitsAssumption DEF CircuitsAssumption, IInv, TypeOK, LiveUnlessClosedLate, HasId
<1> QED
  BY <1>2, <1>3, <1>4, <1>5

(* BuildCircuit: a new circuit, and a builder that works on it.            *)
LEMMA BuildCircuitKeeps ==
  ASSUME IInv, NEW b \in Builders, NEW c \in Circuits, BuildCircuit(b, c)
  PROVE  IInv'
<1> USE DEF BuildCircuit
<1>1. CreateCircuit(c)
  OBVIOUS
<1>2. /\ registry' \in [Ids -> Circuits \cup {NoCircuit}]
      /\ nextID' \in Ids /\ closed' \in BOOLEAN
      /\ id' \in [Circuits -> Ids \cup {0}]
      /\ state' \in [Circuits -> {"unmade", "BUILDING", "OPEN", "CLOSED", "FAILED"}]
      /\ state[c] = "unmade" /\ state' = [state EXCEPT ![c] = "BUILDING"]
      /\ hops' = hops /\ closedAt' = closedAt
      /\ Fresh' /\ HasId'
      /\ IdNamesItsCircuit' /\ OpenHasThreeHops' /\ LiveUnlessClosedLate'
  BY <1>1, CreateKeeps
<1>3. TypeOK'
  BY <1>2 DEF IInv, TypeOK, creatorVars
<1>4. \A a \in Builders : circ[a] # c
  BY <1>2, CircuitsAssumption DEF CircuitsAssumption, IInv, TypeOK, Progress
<1>5. Owned'
  BY <1>4, CircuitsAssumption DEF CircuitsAssumption, IInv, TypeOK, Owned
<1>6. Progress'
  <2> SUFFICES ASSUME NEW a \in Builders, circ'[a] # NoCircuit
               PROVE  /\ state'[circ'[a]] \in {"BUILDING", "CLOSED"}
                      /\ pc'[a] = "connecting" => hops'[circ'[a]] = 0
                      /\ pc'[a] = "extending" => hops'[circ'[a]] < 3
                      /\ pc'[a] = "opening" => hops'[circ'[a]] = 3
                      /\ (pc'[a] = "opening" /\ state'[circ'[a]] = "CLOSED")
                           => closedAt'[circ'[a]] = 3
    BY DEF Progress
  <2>1. CASE a = b
    BY <1>2, <2>1 DEF IInv, TypeOK, Fresh
  <2>2. CASE a # b
    BY <1>2, <1>4, <2>2 DEF IInv, TypeOK, Progress
  <2> QED
    BY <2>1, <2>2
<1> QED
  BY <1>2, <1>3, <1>5, <1>6 DEF IInv

(* A circuit that another caller creates.                                  *)
LEMMA CreateInBackgroundKeeps ==
  ASSUME IInv, NEW w \in Creators, NEW c \in Circuits, CreateInBackground(w, c)
  PROVE  IInv'
<1> USE DEF CreateInBackground
<1>1. CreateCircuit(c)
  OBVIOUS
<1>2. /\ registry' \in [Ids -> Circuits \cup {NoCircuit}]
      /\ nextID' \in Ids /\ closed' \in BOOLEAN
      /\ id' \in [Circuits -> Ids \cup {0}]
      /\ state' \in [Circuits -> {"unmade", "BUILDING", "OPEN", "CLOSED", "FAILED"}]
      /\ state[c] = "unmade" /\ state' = [state EXCEPT ![c] = "BUILDING"]
      /\ hops' = hops /\ closedAt' = closedAt
      /\ Fresh' /\ HasId'
      /\ IdNamesItsCircuit' /\ OpenHasThreeHops' /\ LiveUnlessClosedLate'
  BY <1>1, CreateKeeps
<1>3. TypeOK'
  BY <1>2 DEF IInv, TypeOK, builderVars
<1>4. \A a \in Builders : circ[a] # c
  BY <1>2, CircuitsAssumption DEF CircuitsAssumption, IInv, TypeOK, Progress
<1>5. Owned' /\ Progress'
  BY <1>2, <1>4 DEF IInv, TypeOK, Owned, Progress, builderVars
<1> QED
  BY <1>2, <1>3, <1>5 DEF IInv

(* Closing a set of registered circuits.  The Manager forgets them.        *)
LEMMA ShutKeeps ==
  ASSUME IInv, NEW C, C \subseteq Circuits, Shut(C),
         \A c \in C : state[c] # "unmade",
         registry' \in [Ids -> Circuits \cup {NoCircuit}],
         \A i \in Ids : registry'[i] # registry[i] => registry'[i] = NoCircuit,
         \A i \in Ids : registry'[i] # registry[i] => registry[i] \in C,
         closed' \in BOOLEAN,
         UNCHANGED <<nextID, id, hops, builderVars, creatorVars>>
  PROVE  IInv'
<1> USE DEF Shut, builderVars, creatorVars
<1>1. TypeOK'
  <2>1. state' \in [Circuits -> {"unmade", "BUILDING", "OPEN", "CLOSED", "FAILED"}]
    BY DEF IInv, TypeOK
  <2>2. closedAt' \in [Circuits -> -1 .. 3]
    BY DEF IInv, TypeOK
  <2> QED
    BY <2>1, <2>2 DEF IInv, TypeOK
<1>2. Owned'
  BY DEF IInv, Owned
<1>3. Progress'
  BY DEF IInv, TypeOK, Progress
<1>4. Fresh' /\ HasId' /\ OpenHasThreeHops'
  BY DEF IInv, TypeOK, Fresh, HasId, OpenHasThreeHops
<1>5. IdNamesItsCircuit'
  BY DEF IInv, TypeOK, IdNamesItsCircuit
<1>6. LiveUnlessClosedLate'
  BY DEF IInv, TypeOK, HasId, LiveUnlessClosedLate
<1> QED
  BY <1>1, <1>2, <1>3, <1>4, <1>5, <1>6 DEF IInv

(* CloseCircuit takes one circuit out of the registry.                     *)
LEMMA CloseCircuitKeeps ==
  ASSUME IInv, NEW i \in Ids, CloseCircuit(i)
  PROVE  IInv'
<1> USE DEF CloseCircuit
<1>1. registry[i] \in Circuits /\ state[registry[i]] # "unmade"
  BY DEF IInv, TypeOK, IdNamesItsCircuit
<1>2. /\ registry' \in [Ids -> Circuits \cup {NoCircuit}]
      /\ \A j \in Ids : registry'[j] # registry[j]
           => registry'[j] = NoCircuit /\ registry[j] \in {registry[i]}
  BY DEF IInv, TypeOK
<1>3. closed' \in BOOLEAN
  BY DEF IInv, TypeOK
<1> QED
  BY <1>1, <1>2, <1>3, ShutKeeps

(* Close takes all of them out.                                            *)
LEMMA CloseKeeps ==
  ASSUME IInv, Close
  PROVE  IInv'
<1> USE DEF Close
<1>1. Registered \subseteq Circuits /\ \A c \in Registered : state[c] # "unmade"
  BY DEF IInv, TypeOK, IdNamesItsCircuit, Registered
<1>2. /\ registry' \in [Ids -> Circuits \cup {NoCircuit}]
      /\ \A j \in Ids : registry'[j] # registry[j]
           => registry'[j] = NoCircuit /\ registry[j] \in Registered
  BY DEF IInv, TypeOK, Registered
<1> QED
  BY <1>1, <1>2, ShutKeeps

(* A circuit that is closed from outside the manager stays where it is.    *)
LEMMA SetStateClosedKeeps ==
  ASSUME IInv, NEW c \in Circuits, SetStateClosed(c)
  PROVE  IInv'
<1> USE DEF SetStateClosed, managerVars, builderVars, creatorVars
<1>1. TypeOK'
  BY DEF IInv, TypeOK
<1>2. \A b \in Builders : circ[b] # c
  BY CircuitsAssumption DEF CircuitsAssumption, IInv, Progress
<1>3. Owned' /\ Progress'
  BY <1>2 DEF IInv, TypeOK, Owned, Progress
<1>4. Fresh' /\ HasId' /\ OpenHasThreeHops' /\ IdNamesItsCircuit' /\ LiveUnlessClosedLate'
  BY DEF IInv, TypeOK, Fresh, HasId, OpenHasThreeHops, IdNamesItsCircuit, LiveUnlessClosedLate
<1> QED
  BY <1>1, <1>3, <1>4 DEF IInv

-----------------------------------------------------------------------------
(* A Builder returns, leaving its circuit in a final state.                *)
LEMMA ReturnKeeps ==
  ASSUME IInv, NEW b \in Builders, circ[b] # NoCircuit, Return(b),
         NEW s \in {"OPEN", "FAILED"}, state' = [state EXCEPT ![circ[b]] = s],
         s = "OPEN" => pc[b] = "opening",
         UNCHANGED <<managerVars, id, hops, closedAt, creatorVars>>
  PROVE  IInv'
<1> USE DEF Return, managerVars, creatorVars
<1>0. circ[b] \in Circuits
  BY DEF IInv, TypeOK
<1>1. TypeOK'
  BY DEF IInv, TypeOK
<1>2. Owned'
  BY DEF IInv, TypeOK, Owned
<1>3. \A a \in Builders : a # b => circ'[a] = circ[a] /\ pc'[a] = pc[a]
  BY DEF IInv, TypeOK
<1>4. \A a \in Builders : (a # b /\ circ[a] # NoCircuit) => circ[a] # circ[b]
  BY DEF IInv, Owned
<1>5. circ'[b] = NoCircuit
  BY DEF IInv, TypeOK
<1>6. Progress'
  BY <1>0, <1>3, <1>4, <1>5 DEF IInv, TypeOK, Progress
<1>7. Fresh' /\ HasId' /\ IdNamesItsCircuit'
  BY <1>0 DEF IInv, TypeOK, Progress, Fresh, HasId, IdNamesItsCircuit
<1>8. OpenHasThreeHops' /\ LiveUnlessClosedLate'
  BY <1>0 DEF IInv, TypeOK, Progress, OpenHasThreeHops, LiveUnlessClosedLate
<1> QED
  BY <1>1, <1>2, <1>6, <1>7, <1>8 DEF IInv

(* A Builder's circuit exists whenever it is not idle.                     *)
LEMMA AtWork ==
  ASSUME IInv, NEW b \in Builders, pc[b] # "idle"
  PROVE  circ[b] \in Circuits /\ circ[b] # NoCircuit
  BY DEF IInv, TypeOK, Owned

(* A builder connects, or fails and returns.                               *)
LEMMA connectToRelayKeeps ==
  ASSUME IInv, NEW b \in Builders, connectToRelay(b)
  PROVE  IInv'
<1> USE DEF connectToRelay, managerVars, creatorVars
<1>0. circ[b] \in Circuits /\ circ[b] # NoCircuit
  BY AtWork
<1>1. CASE Fail(b)
  BY <1>0, <1>1, ReturnKeeps DEF Fail
<1>2. CASE pc' = [pc EXCEPT ![b] = "extending"] /\ UNCHANGED <<state, circ>>
  <2>1. TypeOK'
    BY <1>2 DEF IInv, TypeOK
  <2>2. Owned'
    BY <1>0, <1>2 DEF IInv, TypeOK, Owned
  <2>3. Progress'
    BY <1>2 DEF IInv, TypeOK, Progress
  <2>4. Fresh' /\ HasId' /\ OpenHasThreeHops' /\ IdNamesItsCircuit' /\ LiveUnlessClosedLate'
    BY <1>2 DEF IInv, Fresh, HasId, OpenHasThreeHops, IdNamesItsCircuit, LiveUnlessClosedLate
  <2> QED
    BY <2>1, <2>2, <2>3, <2>4 DEF IInv
<1> QED
  BY <1>1, <1>2

(* A builder adds a hop, or fails and returns.                             *)
LEMMA AddHopKeeps ==
  ASSUME IInv, NEW b \in Builders, AddHop(b)
  PROVE  IInv'
<1> USE DEF AddHop, managerVars, creatorVars
<1>0. circ[b] \in Circuits /\ circ[b] # NoCircuit
  BY AtWork
<1>1. CASE state[circ[b]] # "BUILDING"
  BY <1>0, <1>1, ReturnKeeps DEF Fail
<1>2. CASE state[circ[b]] = "BUILDING"
  <2>1. hops[circ[b]] \in 0 .. 2
    BY <1>0 DEF IInv, TypeOK, Progress
  <2>2. /\ hops' = [hops EXCEPT ![circ[b]] = hops[circ[b]] + 1]
        /\ UNCHANGED <<state, circ>>
    BY <1>2
  <2>3. hops'[circ[b]] = hops[circ[b]] + 1
    BY <1>0, <2>2 DEF IInv, TypeOK
  <2>4. pc' = [pc EXCEPT ![b] = IF hops[circ[b]] + 1 = 3 THEN "opening" ELSE "extending"]
    BY <1>2, <2>3
  <2>5. TypeOK'
    <3>1. hops' \in [Circuits -> 0 .. 3]
      <4>1. hops \in [Circuits -> 0 .. 3] /\ hops[circ[b]] + 1 \in 0 .. 3
        BY <2>1 DEF IInv, TypeOK
      <4> HIDE DEF AddHop
      <4> QED
        BY <2>2, <4>1
    <3>2. pc' \in [Builders -> {"idle", "connecting", "extending", "opening"}]
      <4>1. pc' = [pc EXCEPT ![b] = "opening"] \/ pc' = [pc EXCEPT ![b] = "extending"]
        BY <2>4
      <4> QED
        BY <4>1 DEF IInv, TypeOK
    <3> QED
      BY <2>2, <3>1, <3>2 DEF IInv, TypeOK
  <2>6. Owned'
    BY <1>0, <2>2, <2>4 DEF IInv, TypeOK, Owned
  <2>7. Progress'
    <3> SUFFICES ASSUME NEW a \in Builders, circ'[a] # NoCircuit
                 PROVE  /\ state'[circ'[a]] \in {"BUILDING", "CLOSED"}
                        /\ pc'[a] = "connecting" => hops'[circ'[a]] = 0
                        /\ pc'[a] = "extending" => hops'[circ'[a]] < 3
                        /\ pc'[a] = "opening" => hops'[circ'[a]] = 3
                        /\ (pc'[a] = "opening" /\ state'[circ'[a]] = "CLOSED")
                             => closedAt'[circ'[a]] = 3
      BY DEF Progress
    <3>1. CASE a = b
      BY <1>2, <2>1, <2>2, <2>3, <2>4, <3>1 DEF IInv, TypeOK, Progress
    <3>2. CASE a # b
      <4>1. circ[a] \in Circuits /\ circ[a] # circ[b]
        BY <2>2, <3>2 DEF IInv, TypeOK, Owned
      <4>2. hops'[circ[a]] = hops[circ[a]] /\ pc'[a] = pc[a]
        BY <2>2, <2>4, <3>2, <4>1 DEF IInv, TypeOK
      <4> QED
        BY <2>2, <4>1, <4>2 DEF IInv, Progress
    <3> QED
      BY <3>1, <3>2
  <2>8. Fresh' /\ HasId' /\ OpenHasThreeHops' /\ IdNamesItsCircuit' /\ LiveUnlessClosedLate'
    BY <1>0, <1>2, <2>2
       DEF IInv, TypeOK, Fresh, HasId, OpenHasThreeHops, IdNamesItsCircuit, LiveUnlessClosedLate
  <2> QED
    BY <2>5, <2>6, <2>7, <2>8 DEF IInv
<1> QED
  BY <1>1, <1>2

(* A builder opens its circuit, or finds it closed.                        *)
LEMMA MarkOpenKeeps ==
  ASSUME IInv, NEW b \in Builders, MarkOpen(b)
  PROVE  IInv'
  BY AtWork, ReturnKeeps DEF MarkOpen

-----------------------------------------------------------------------------
(* The invariant is inductive: one step per action.                        *)
LEMMA NextIInv == IInv /\ [Next]_vars => IInv'
<1> SUFFICES ASSUME IInv, [Next]_vars PROVE IInv'
  OBVIOUS
<1>1. ASSUME NEW b \in Builders, NEW c \in Circuits, BuildCircuit(b, c) PROVE IInv'
  BY <1>1, BuildCircuitKeeps
<1>2. ASSUME NEW b \in Builders, connectToRelay(b) PROVE IInv'
  BY <1>2, connectToRelayKeeps
<1>3. ASSUME NEW b \in Builders, AddHop(b) PROVE IInv'
  BY <1>3, AddHopKeeps
<1>4. ASSUME NEW b \in Builders, MarkOpen(b) PROVE IInv'
  BY <1>4, MarkOpenKeeps
<1>5. ASSUME NEW i \in Ids, CloseCircuit(i) PROVE IInv'
  BY <1>5, CloseCircuitKeeps
<1>6. CASE Close
  BY <1>6, CloseKeeps
<1>7. ASSUME NEW c \in Circuits, SetStateClosed(c) PROVE IInv'
  BY <1>7, SetStateClosedKeeps
<1>8. ASSUME NEW w \in Creators, NEW c \in Circuits, CreateInBackground(w, c) PROVE IInv'
  BY <1>8, CreateInBackgroundKeeps
<1>9. ASSUME NEW w \in Creators,
             CreateCircuitWithContext(w) \/ ReturnCreated(w) \/ CancelCreate(w)
      PROVE IInv'
  <2> USE <1>9 DEF CreateCircuitWithContext, ReturnCreated, CancelCreate,
                   managerVars, circuitVars, builderVars
  <2>1. TypeOK'
    BY DEF IInv, TypeOK
  <2>2. Owned' /\ Progress' /\ Fresh' /\ HasId'
    BY DEF IInv, Owned, Progress, Fresh, HasId
  <2>3. IdNamesItsCircuit' /\ OpenHasThreeHops' /\ LiveUnlessClosedLate'
    BY DEF IInv, IdNamesItsCircuit, OpenHasThreeHops, LiveUnlessClosedLate
  <2> QED
    BY <2>1, <2>2, <2>3 DEF IInv
<1>10. CASE UNCHANGED vars
  <2> USE <1>10 DEF vars, managerVars, circuitVars, builderVars, creatorVars
  <2>1. TypeOK'
    BY DEF IInv, TypeOK
  <2>2. Owned' /\ Progress' /\ Fresh' /\ HasId'
    BY DEF IInv, Owned, Progress, Fresh, HasId
  <2>3. IdNamesItsCircuit' /\ OpenHasThreeHops' /\ LiveUnlessClosedLate'
    BY DEF IInv, IdNamesItsCircuit, OpenHasThreeHops, LiveUnlessClosedLate
  <2> QED
    BY <2>1, <2>2, <2>3 DEF IInv
<1> QED
  BY <1>1, <1>2, <1>3, <1>4, <1>5, <1>6, <1>7, <1>8, <1>9, <1>10 DEF Next

(* The inductive invariant holds in every state: the registry, the         *)
(* circuits and the builders agree.                                        *)
THEOREM Invariance == Spec => []IInv
  BY InitIInv, NextIInv, PTL DEF Spec

(* Type correctness of the manager and its builders.                       *)
THEOREM TypeCorrect == Spec => []TypeOK
<1>1. IInv => TypeOK
  BY DEF IInv
<1> QED
  BY <1>1, Invariance, PTL

(* CloseCircuit(circ.ID) closes circ: an id in the manager's map always    *)
(* names the circuit that bears it, for every size of the id space.        *)
THEOREM IdsNameTheirCircuits == Spec => []IdNamesItsCircuit
<1>1. IInv => IdNamesItsCircuit
  BY DEF IInv
<1> QED
  BY <1>1, Invariance, PTL

(* An OPEN circuit has three hops, however many builders and closers race. *)
THEOREM OpenCircuitsComplete == Spec => []OpenHasThreeHops
<1>1. IInv => OpenHasThreeHops
  BY DEF IInv
<1> QED
  BY <1>1, Invariance, PTL

(* The only way to a live circuit that the manager does not know is a      *)
(* close between the last AddHop and SetState(StateOpen).                  *)
THEOREM EscapesOnlyLate == Spec => []LiveUnlessClosedLate
<1>1. IInv => LiveUnlessClosedLate
  BY DEF IInv
<1> QED
  BY <1>1, Invariance, PTL

(* An entry of the manager's map is never overwritten by another circuit.  *)
THEOREM EntriesStable == Spec => EntryNeverOverwritten
<1> DEFINE Stable == \A i \in Ids : registry[i] # NoCircuit => registry'[i] \in {registry[i], NoCircuit}
<1>1. IInv /\ [Next]_vars => [Stable]_vars
  <2> SUFFICES ASSUME IInv, Next PROVE Stable
    OBVIOUS
  <2>1. ASSUME NEW c \in Circuits, CreateCircuit(c) PROVE Stable
    <3>1. PICK i \in Ids : CreateEffect(c, i)
      BY <2>1, CreateIsEffect
    <3> QED
      BY <3>1 DEF CreateEffect, IInv, TypeOK
  <2>2. ASSUME NEW i \in Ids, CloseCircuit(i) PROVE Stable
    BY <2>2 DEF CloseCircuit, IInv, TypeOK
  <2>3. CASE Close
    BY <2>3 DEF Close
  <2>4. ASSUME UNCHANGED registry PROVE Stable
    BY <2>4
  <2> QED
    BY <2>1, <2>2, <2>3, <2>4
       DEF Next, BuildCircuit, connectToRelay, AddHop, MarkOpen, SetStateClosed,
           CreateCircuitWithContext, ReturnCreated, CancelCreate, CreateInBackground, managerVars
<1> QED
  BY <1>1, Invariance, PTL DEF Spec, EntryNeverOverwritten
=============================================================================
