--------------------------- MODULE ServicesProofs ---------------------------
(***************************************************************************)
(* Theorems about circuit-level flow control, the circuit breaker, the     *)
(* reload of the configuration and the events of the control server, for   *)
(* every window and increment and any number of senders, callers, reloads, *)
(* callbacks, files, connections and events.                               *)
(*                                                                         *)
(* These components share no state.  Each has names of its own, so that    *)
(* what is proved of them stands in one module, one part after the other.  *)
(***************************************************************************)
EXTENDS CircuitFlow, ConfigReload, ControlEvents, CircuitBreaker,
        FiniteSetTheorems, SequenceTheorems, TLAPS

(* Flow control.                                                           *)

(* Every variable keeps its type; that the deliver window stays a natural  *)
(* number is the guard of decrementDeliverWindow.                          *)
THEOREM TypeCorrect == Spec => []TypeOK
<1>1. Init => TypeOK
  <2> SUFFICES ASSUME Init PROVE TypeOK
    OBVIOUS
  <2>1. conn \in BOOLEAN
    BY DEF Init
  <2>2. 0 \in 0 .. QueueCap
    BY BoundAssumption DEF BoundAssumption
  <2>3. sender \in [Senders -> {"idle", "credited", "checked"}]
    BY DEF Init
  <2> QED BY <2>1, <2>2, <2>3, WindowAssumption
          DEF WindowAssumption, Init, TypeOK, States
<1>2. TypeOK /\ [Next]_vars => TypeOK'
  <2> SUFFICES ASSUME TypeOK, [Next]_vars PROVE TypeOK'
    OBVIOUS
  <2> USE WindowAssumption, BoundAssumption
      DEF WindowAssumption, BoundAssumption, TypeOK, States, circuitVars, outVars, countVars, sendmeVars, readVars
  <2>1. ASSUME NEW s \in States, SetState(s) PROVE TypeOK'
    BY <2>1 DEF SetState
  <2>2. CASE SetConnection
    BY <2>2 DEF SetConnection
  <2>3. ASSUME NEW s \in Senders, SendRelayCell(s) PROVE TypeOK'
    <3>1. CASE decrementPackageWindow(s)
      BY <3>1 DEF decrementPackageWindow
    <3>2. CASE CheckOpen(s)
      BY <3>2 DEF CheckOpen
    <3>3. CASE SendCell(s)
      BY <3>3 DEF SendCell
    <3> QED BY <2>3, <3>1, <3>2, <3>3 DEF SendRelayCell
  <2>4. CASE sendCircuitSendme
    <3>1. CASE CreditSendme
      BY <3>1 DEF CreditSendme
    <3>2. CASE CheckOpenSendme
      BY <3>2 DEF CheckOpenSendme
    <3>3. CASE WireSendme
      BY <3>3 DEF WireSendme
    <3>4. CASE FailSendme
      BY <3>4 DEF FailSendme
    <3> QED BY <2>4, <3>1, <3>2, <3>3, <3>4 DEF sendCircuitSendme
  <2>5. CASE DeliverRelayCell
    <3>1. CASE DeliverData
      BY <3>1 DEF DeliverData, decrementDeliverWindow
    <3>2. CASE CheckSendme
      BY <3>2 DEF CheckSendme
    <3>3. CASE DeliverSendme
      BY <3>3 DEF DeliverSendme, incrementPackageWindow
    <3>4. CASE PushCell
      BY <3>4 DEF PushCell
    <3> QED BY <2>5, <3>1, <3>2, <3>3, <3>4 DEF DeliverRelayCell
  <2>6. CASE ReceiveRelayCell
    BY <2>6 DEF ReceiveRelayCell
  <2>7. CASE PeerSendData
    BY <2>7 DEF PeerSendData
  <2>8. CASE PeerSendSendme
    BY <2>8 DEF PeerSendSendme
  <2>9. CASE UNCHANGED vars
    BY <2>9 DEF vars
  <2> QED BY <2>1, <2>2, <2>3, <2>4, <2>5, <2>6, <2>7, <2>8, <2>9 DEF Next
<1> QED BY <1>1, <1>2, PTL DEF Spec

-----------------------------------------------------------------------------
(* The receiving side reads and writes the count, the deliver window and   *)
(* the goroutines only; what the other actions leave alone is stated once. *)
ReceiveView == <<deliverWindow, sendmeReceived, armed, reader, overtaken>>

(* Only four actions touch what the receiving side looks at.               *)
LEMMA ReceiveSteps ==
  Next => \/ CreditSendme \/ DeliverData \/ CheckSendme \/ PushCell
          \/ UNCHANGED ReceiveView
  BY DEF Next, SetState, SetConnection, SendRelayCell, decrementPackageWindow,
         CheckOpen, SendCell, sendCircuitSendme, CheckOpenSendme, WireSendme,
         FailSendme, DeliverRelayCell, DeliverSendme, ReceiveRelayCell,
         PeerSendData, PeerSendSendme, ReceiveView, circuitVars, outVars,
         countVars, sendmeVars, readVars

(* A count that has reached the increment has a goroutine waiting for it   *)
(* or is about to start one, and window and count together never hold less *)
(* than one increment.                                                     *)
StallInv ==
  /\ deliverWindow + sendmeReceived >= Increment
  /\ sendmeReceived >= Increment => armed > 0 \/ reader = "check"

(* The deliver window never stays exhausted: resetting the count instead   *)
(* of subtracting from it cannot stall the circuit (NoStall).              *)
THEOREM NeverStalls == Spec => []NoStall
<1>1. Init => StallInv
  BY WindowAssumption DEF WindowAssumption, Init, StallInv
<1>2. TypeOK /\ StallInv /\ [Next]_vars => StallInv'
  <2> SUFFICES ASSUME TypeOK, StallInv, [Next]_vars PROVE StallInv'
    OBVIOUS
  <2> USE WindowAssumption DEF WindowAssumption, TypeOK, StallInv
  <2>1. CASE CreditSendme
    BY <2>1 DEF CreditSendme, readVars
  <2>2. CASE DeliverData
    BY <2>2 DEF DeliverData, decrementDeliverWindow, sendmeVars
  <2>3. CASE CheckSendme
    BY <2>3 DEF CheckSendme, shouldSendCircuitSendme, countVars
  <2>4. CASE PushCell
    BY <2>4 DEF PushCell, countVars, sendmeVars
  <2>5. CASE UNCHANGED ReceiveView
    BY <2>5 DEF ReceiveView
  <2> QED BY <2>1, <2>2, <2>3, <2>4, <2>5, ReceiveSteps
          DEF vars, ReceiveView, countVars, sendmeVars, readVars
<1>3. TypeOK /\ StallInv => NoStall
  BY WindowAssumption DEF WindowAssumption, TypeOK, StallInv, NoStall, shouldSendCircuitSendme
<1> QED BY <1>1, <1>2, <1>3, TypeCorrect, PTL DEF Spec

(* The race between a cell's count and its check is the only way the       *)
(* deliver window loses credit, one credit a time (CreditFloor).           *)
THEOREM CreditLossBounded == Spec => []CreditFloor
<1>1. Init => CreditFloor
  BY WindowAssumption DEF WindowAssumption, Init, CreditFloor, shouldSendCircuitSendme
<1>2. TypeOK /\ CreditFloor /\ [Next]_vars => CreditFloor'
  <2> SUFFICES ASSUME TypeOK, CreditFloor, [Next]_vars PROVE CreditFloor'
    OBVIOUS
  <2> USE WindowAssumption DEF WindowAssumption, TypeOK, CreditFloor, shouldSendCircuitSendme
  <2>1. CASE CreditSendme
    BY <2>1 DEF CreditSendme, readVars
  <2>2. CASE DeliverData
    BY <2>2 DEF DeliverData, decrementDeliverWindow, sendmeVars
  <2>3. CASE CheckSendme
    BY <2>3 DEF CheckSendme, countVars
  <2>4. CASE PushCell
    BY <2>4 DEF PushCell, countVars, sendmeVars
  <2>5. CASE UNCHANGED ReceiveView
    BY <2>5 DEF ReceiveView
  <2> QED BY <2>1, <2>2, <2>3, <2>4, <2>5, ReceiveSteps
          DEF vars, ReceiveView, countVars, sendmeVars, readVars
<1> QED BY <1>1, <1>2, TypeCorrect, PTL DEF Spec
-----------------------------------------------------------------------------
(* Multiplication by the increment, for the provers.                       *)
LEMMA IncrementStep ==
  ASSUME NEW n \in Nat
  PROVE  /\ Increment * (n + 1) = Increment * n + Increment
         /\ Increment * n \in Nat
  BY WindowAssumption DEF WindowAssumption

(* More increments are more credits.                                       *)
LEMMA IncrementMonotone ==
  ASSUME NEW m \in Nat, NEW n \in Nat
  PROVE  Increment * (m + n) >= Increment * m
<1>1. Increment * (m + n) = Increment * m + Increment * n
  BY WindowAssumption DEF WindowAssumption
<1>2. Increment * n \in Nat /\ Increment * m \in Nat
  BY IncrementStep
<1> QED BY <1>1, <1>2

(* The deliver window is what the peer was granted minus what it used; the *)
(* SENDMEs credited are those on the wire, on their way there or failed.   *)
ConformInv ==
  /\ deliverWindow = InitWindow + Increment * sendmeSent - dataIn
  /\ sendmeSent = sendmeWired + sending + credited + sendmeLost
  /\ peerData <= InitWindow + Increment * sendmeWired

(* No DATA cell of a conforming peer is ever refused, in whatever order    *)
(* the SENDME goroutines run and whichever of them fail.                   *)
THEOREM ConformingPeerAccepted == Spec => []NoConformingCellRefused
<1>1. Init => ConformInv
  BY WindowAssumption DEF WindowAssumption, Init, ConformInv
<1>2. TypeOK /\ ConformInv /\ [Next]_vars => ConformInv'
  <2> SUFFICES ASSUME TypeOK, ConformInv, [Next]_vars PROVE ConformInv'
    OBVIOUS
  <2> USE WindowAssumption DEF WindowAssumption, TypeOK, ConformInv
  <2>1. CASE CreditSendme
    <3>1. Increment * (sendmeSent + 1) = Increment * sendmeSent + Increment
      BY IncrementStep
    <3> QED BY <2>1, <3>1, IncrementStep DEF CreditSendme
  <2>2. CASE CheckOpenSendme
    BY <2>2 DEF CheckOpenSendme, countVars
  <2>3. CASE WireSendme
    <3>1. /\ Increment * (sendmeWired + 1) = Increment * sendmeWired + Increment
          /\ Increment * sendmeWired \in Nat
      BY IncrementStep
    <3> QED BY <2>3, <3>1 DEF WireSendme, countVars
  <2>4. CASE FailSendme
    BY <2>4 DEF FailSendme, countVars
  <2>5. CASE DeliverData
    BY <2>5, IncrementStep DEF DeliverData, decrementDeliverWindow, sendmeVars
  <2>6. CASE PeerSendData
    BY <2>6, IncrementStep DEF PeerSendData, peerWindow, countVars, sendmeVars
  <2>7. CASE UNCHANGED <<deliverWindow, sendmeSent, dataIn, sendmeWired, sending,
                         credited, sendmeLost, peerData>>
    BY <2>7
  <2>8. \/ CreditSendme \/ CheckOpenSendme \/ WireSendme \/ FailSendme
        \/ DeliverData \/ PeerSendData
        \/ UNCHANGED <<deliverWindow, sendmeSent, dataIn, sendmeWired, sending,
                        credited, sendmeLost, peerData>>
    BY DEF Next, vars, SetState, SetConnection, SendRelayCell, CheckOpen,
           decrementPackageWindow, SendCell, sendCircuitSendme,
           DeliverRelayCell, CheckSendme, DeliverSendme, PushCell,
           ReceiveRelayCell, PeerSendSendme, countVars, sendmeVars
  <2> QED BY <2>1, <2>2, <2>3, <2>4, <2>5, <2>6, <2>7, <2>8
<1>3. TypeOK /\ ConformInv => NoConformingCellRefused
  <2> SUFFICES ASSUME TypeOK, ConformInv PROVE NoConformingCellRefused
    OBVIOUS
  <2> DEFINE rest == sending + credited + sendmeLost
  <2>1. rest \in Nat /\ sendmeSent = sendmeWired + rest
    BY DEF TypeOK, ConformInv
  <2>2. Increment * sendmeSent >= Increment * sendmeWired
    BY <2>1, IncrementMonotone DEF TypeOK
  <2>3. Increment * sendmeSent \in Nat /\ Increment * sendmeWired \in Nat
    BY IncrementStep DEF TypeOK
  <2> QED BY <2>2, <2>3, WindowAssumption
          DEF WindowAssumption, TypeOK, ConformInv, NoConformingCellRefused
<1> QED BY <1>1, <1>2, <1>3, TypeCorrect, PTL DEF Spec

-----------------------------------------------------------------------------
(* The senders in flight are a finite set, which a sender enters with its  *)
(* credit and leaves with its outcome.                                     *)
LEMMA InFlightFinite == IsFiniteSet(InFlight) /\ Cardinality(InFlight) \in Nat
<1>1. InFlight \subseteq Senders
  BY DEF InFlight
<1> QED BY <1>1, WindowAssumption, FS_Subset, FS_CardinalityType
        DEF WindowAssumption

(* The number of senders in flight changes by one when one of them starts  *)
(* or ends.                                                                *)
LEMMA InFlightChange ==
  ASSUME TypeOK, NEW s \in Senders, NEW p \in {"idle", "credited", "checked"},
         sender' = [sender EXCEPT ![s] = p]
  PROVE  /\ (sender[s] = "idle" /\ p # "idle") =>
                Cardinality(InFlight') = Cardinality(InFlight) + 1
         /\ (sender[s] # "idle" /\ p = "idle") =>
                Cardinality(InFlight') = Cardinality(InFlight) - 1
         /\ (sender[s] # "idle" /\ p # "idle") => InFlight' = InFlight
<1> USE DEF InFlight, TypeOK
<1>1. CASE sender[s] = "idle" /\ p # "idle"
  <2>1. InFlight' = InFlight \cup {s} /\ s \notin InFlight
    BY <1>1
  <2> HIDE DEF InFlight, TypeOK
  <2> QED BY <1>1, <2>1, InFlightFinite, FS_AddElement
<1>2. CASE sender[s] # "idle" /\ p = "idle"
  <2>1. s \in InFlight
    BY <1>2
  <2>2. \A r \in Senders : r \in InFlight' <=> r \in InFlight \ {s}
    BY <1>2
  <2>3. InFlight' = InFlight \ {s}
    <3>1. InFlight' \subseteq Senders /\ InFlight \subseteq Senders
      OBVIOUS
    <3> HIDE DEF InFlight
    <3> QED BY <2>2, <3>1
  <2> HIDE DEF InFlight, TypeOK
  <2>4. Cardinality(InFlight \ {s}) = Cardinality(InFlight) - 1
    BY <2>1, InFlightFinite, FS_RemoveElement
  <2> QED BY <1>2, <2>3, <2>4
<1>3. CASE sender[s] # "idle" /\ p # "idle"
  <2>0. \A r \in Senders : r \in InFlight' <=> r \in InFlight
    BY <1>3
  <2>1. InFlight' = InFlight
    <3>1. InFlight' \subseteq Senders /\ InFlight \subseteq Senders
      OBVIOUS
    <3> HIDE DEF InFlight
    <3> QED BY <2>0, <3>1
  <2> QED BY <1>3, <2>1
<1> QED BY <1>1, <1>2, <1>3

(* No package credit is lost, duplicated or taken twice, however many      *)
(* goroutines send at once (PackageCreditsConserved).                      *)
THEOREM CreditsConserved == Spec => []PackageCreditsConserved
<1>1. Init => PackageCreditsConserved
  <2> SUFFICES ASSUME Init PROVE PackageCreditsConserved
    OBVIOUS
  <2>1. InFlight = {}
    BY DEF Init, InFlight
  <2> QED BY <2>1, FS_EmptySet, WindowAssumption
          DEF WindowAssumption, Init, PackageCreditsConserved
<1>2. TypeOK /\ PackageCreditsConserved /\ [Next]_vars => PackageCreditsConserved'
  <2> SUFFICES ASSUME TypeOK, PackageCreditsConserved, [Next]_vars
               PROVE  PackageCreditsConserved'
    OBVIOUS
  <2> USE WindowAssumption, InFlightFinite
      DEF WindowAssumption, PackageCreditsConserved
  <2>1. ASSUME NEW s \in Senders, decrementPackageWindow(s)
        PROVE  PackageCreditsConserved'
    <3>1. Cardinality(InFlight') = Cardinality(InFlight) + 1
      BY <2>1, InFlightChange DEF decrementPackageWindow
    <3> QED BY <2>1, <3>1, IncrementStep DEF decrementPackageWindow, TypeOK
  <2>2. ASSUME NEW s \in Senders, CheckOpen(s) PROVE PackageCreditsConserved'
    <3>1. CASE state = "OPEN" /\ conn
      <4>1. InFlight' = InFlight
        BY <2>2, <3>1, InFlightChange DEF CheckOpen
      <4> QED BY <2>2, <3>1, <4>1 DEF CheckOpen
    <3>2. CASE ~(state = "OPEN" /\ conn)
      <4>1. Cardinality(InFlight') = Cardinality(InFlight) - 1
        BY <2>2, <3>2, InFlightChange DEF CheckOpen
      <4> QED BY <2>2, <3>2, <4>1, IncrementStep DEF CheckOpen, TypeOK
    <3> QED BY <3>1, <3>2
  <2>3. ASSUME NEW s \in Senders, SendCell(s) PROVE PackageCreditsConserved'
    <3>1. Cardinality(InFlight') = Cardinality(InFlight) - 1
      BY <2>3, InFlightChange DEF SendCell
    <3>2. /\ UNCHANGED <<packageWindow, sendmeIn>>
          /\ \/ dataSent' = dataSent + 1 /\ UNCHANGED wasted
             \/ wasted' = wasted + 1 /\ UNCHANGED dataSent
      BY <2>3 DEF SendCell
    <3> QED BY <3>1, <3>2, IncrementStep DEF TypeOK
  <2>4. CASE DeliverSendme
    <3>1. /\ Increment * (sendmeIn + 1) = Increment * sendmeIn + Increment
          /\ Increment * sendmeIn \in Nat
      BY IncrementStep DEF TypeOK
    <3>2. InFlight' = InFlight
      BY <2>4 DEF DeliverSendme, InFlight
    <3>3. /\ packageWindow' = packageWindow + Increment /\ sendmeIn' = sendmeIn + 1
          /\ UNCHANGED <<dataSent, wasted>>
      BY <2>4 DEF DeliverSendme, incrementPackageWindow
    <3> DEFINE before == Increment * sendmeIn
               after == Increment * sendmeIn'
    <3>4. /\ after = before + Increment /\ before \in Nat
          /\ packageWindow + Cardinality(InFlight) + dataSent + wasted = InitWindow + before
      BY <3>1, <3>3
    <3>5. packageWindow \in Nat /\ dataSent \in Nat /\ wasted \in Nat
      BY DEF TypeOK
    <3> HIDE DEF before, after
    <3>6. packageWindow' + Cardinality(InFlight') + dataSent' + wasted' = InitWindow + after
      BY <3>2, <3>3, <3>4, <3>5
    <3> QED BY <3>6 DEF after
  <2>5. CASE UNCHANGED <<packageWindow, sender, dataSent, wasted, sendmeIn>>
    <3>1. InFlight' = InFlight
      BY <2>5 DEF InFlight
    <3> QED BY <2>5, <3>1
  <2>6. \/ \E s \in Senders :
              decrementPackageWindow(s) \/ CheckOpen(s) \/ SendCell(s)
        \/ DeliverSendme
        \/ UNCHANGED <<packageWindow, sender, dataSent, wasted, sendmeIn>>
    BY DEF Next, vars, SetState, SetConnection, SendRelayCell,
           sendCircuitSendme, CreditSendme, CheckOpenSendme, WireSendme,
           FailSendme, DeliverRelayCell, DeliverData, CheckSendme, PushCell,
           ReceiveRelayCell, PeerSendData, PeerSendSendme, outVars
  <2> QED BY <2>1, <2>2, <2>3, <2>4, <2>5, <2>6
<1> QED BY <1>1, <1>2, TypeCorrect, PTL DEF Spec

(* The circuit respects its peer's window (NeverOverrunsPeer): what was    *)
(* sent cannot exceed the credits that were ever given.                    *)
THEOREM PeerNeverOverrun == Spec => []NeverOverrunsPeer
<1>1. TypeOK /\ PackageCreditsConserved => NeverOverrunsPeer
  <2> SUFFICES ASSUME TypeOK, PackageCreditsConserved PROVE NeverOverrunsPeer
    OBVIOUS
  <2> QED BY InFlightFinite, IncrementStep, WindowAssumption
          DEF WindowAssumption, TypeOK, PackageCreditsConserved, NeverOverrunsPeer
<1> QED BY <1>1, TypeCorrect, CreditsConserved, PTL

-----------------------------------------------------------------------------
(* The circuit breaker.                                                    *)

Phases == {"idle", "calling", "backoff"}

BreakerTypeOK ==
  /\ breaker \in {"closed", "open", "halfOpen"}
  /\ halfOpenRequests \in Nat
  /\ phase \in [Callers -> Phases]
  /\ letThrough \subseteq Callers
  /\ probe \subseteq letThrough

(* All that were let through are still calling, so that none of them is    *)
(* let through twice, and the counter is one short of their number.        *)
HalfOpenCounted ==
  breaker = "halfOpen" =>
    /\ probe # {}
    /\ \A c \in letThrough : phase[c] = "calling"
    /\ Cardinality(letThrough) <= halfOpenRequests + 1
    /\ halfOpenRequests <= HalfOpenMaxRequests

BreakerInv == BreakerTypeOK /\ HalfOpenCounted

-----------------------------------------------------------------------------
(* The calls let through are a finite set, and one more call makes it      *)
(* larger by one at most.                                                  *)
LEMMA LetThroughFinite ==
  ASSUME BreakerTypeOK, NEW c \in Callers
  PROVE  /\ IsFiniteSet(letThrough)
         /\ Cardinality(letThrough) \in Nat
         /\ Cardinality(letThrough \cup {c}) \in Nat
         /\ Cardinality(letThrough \cup {c}) <= Cardinality(letThrough) + 1
<1>1. IsFiniteSet(Callers) /\ letThrough \subseteq Callers
  BY BreakerAssumption DEF BreakerAssumption, BreakerTypeOK
<1>2. IsFiniteSet(letThrough)
  BY <1>1, FS_Subset
<1>3. /\ IsFiniteSet(letThrough \cup {c})
      /\ Cardinality(letThrough \cup {c}) =
           IF c \in letThrough THEN Cardinality(letThrough) ELSE Cardinality(letThrough) + 1
  BY <1>2, FS_AddElement
<1>4. Cardinality(letThrough) \in Nat
  BY <1>2, FS_CardinalityType
<1>5. QED
  BY <1>2, <1>3, <1>4

(* The invariant holds at the start, when the breaker is closed.           *)
LEMMA BreakerInitInv == BreakerInit => BreakerInv
BY DEF BreakerInit, BreakerInv, BreakerTypeOK, HalfOpenCounted, Phases

(* What a caller does before and after its call keeps the invariant.       *)
LEMMA CallerStep ==
  ASSUME BreakerInv, NEW c \in Callers, Before(c) \/ After(c) \/ GiveUp(c)
  PROVE  BreakerInv'
<1> USE DEF BreakerInv, BreakerTypeOK, HalfOpenCounted, Phases, counters
<1>1. CASE AllowClosed(c)
  BY <1>1 DEF AllowClosed, Starts, Calls
<1>2. CASE Probe(c)
  <2>1. Cardinality({c}) = 1
    BY FS_Singleton
  <2>2. phase' = [phase EXCEPT ![c] = "calling"]
    BY <1>2 DEF Probe, Calls
  <2>3. breaker' = "halfOpen" /\ halfOpenRequests' = 0 /\ letThrough' = {c} /\ probe' = {c}
    BY <1>2 DEF Probe
  <2>4. HalfOpenMaxRequests \in Nat
    BY BreakerAssumption DEF BreakerAssumption
  <2>5. QED
    BY <2>1, <2>2, <2>3, <2>4
<1>3. CASE AllowHalfOpen(c)
  <2>1. /\ breaker = "halfOpen" /\ breaker' = breaker
        /\ halfOpenRequests < HalfOpenMaxRequests
        /\ halfOpenRequests' = halfOpenRequests + 1
        /\ letThrough' = letThrough \cup {c} /\ probe' = probe
        /\ phase' = [phase EXCEPT ![c] = "calling"]
    BY <1>3 DEF AllowHalfOpen, Calls
  <2>2. /\ Cardinality(letThrough) \in Nat
        /\ Cardinality(letThrough \cup {c}) \in Nat
        /\ Cardinality(letThrough \cup {c}) <= Cardinality(letThrough) + 1
    BY LetThroughFinite
  <2>3. HalfOpenMaxRequests \in Nat
    BY BreakerAssumption DEF BreakerAssumption
  <2>4. Cardinality(letThrough') <= halfOpenRequests' + 1
    BY <2>1, <2>2
  <2>5. halfOpenRequests' \in Nat /\ halfOpenRequests' <= HalfOpenMaxRequests
    BY <2>1, <2>3
  <2>6. phase' \in [Callers -> Phases] /\ \A d \in letThrough' : phase'[d] = "calling"
    BY <2>1
  <2>7. QED
    BY <2>1, <2>4, <2>5, <2>6
<1>4. CASE Refused(c)
  <2>1. breaker = "halfOpen" => c \notin letThrough
    BY <1>4 DEF Refused, Starts
  <2>2. phase' = [phase EXCEPT ![c] = "backoff"] \/ phase' = [phase EXCEPT ![c] = "idle"]
    BY <1>4 DEF Refused, Again
  <2>3. UNCHANGED <<breaker, halfOpenRequests, letThrough, probe>>
    BY <1>4 DEF Refused
  <2>4. QED
    BY <2>1, <2>2, <2>3
<1>5. CASE GiveUp(c)
  <2>1. breaker = "halfOpen" => c \notin letThrough
    BY <1>5 DEF GiveUp
  <2>2. QED
    BY <1>5, <2>1 DEF GiveUp
<1>6. CASE Succeeds(c)
  <2>1. phase' = [phase EXCEPT ![c] = "idle"]
    BY <1>6 DEF Succeeds
  <2>2. \/ breaker' = "closed" /\ UNCHANGED <<halfOpenRequests, letThrough, probe>>
        \/ breaker' = "closed" /\ halfOpenRequests' = 0 /\ letThrough' = {} /\ probe' = {}
        \/ breaker' = "open" /\ UNCHANGED <<halfOpenRequests, letThrough, probe>>
    BY <1>6 DEF Succeeds, NotHalfOpen, ResetCounters
  <2>3. QED
    BY <2>1, <2>2
<1>7. ASSUME NEW retryable \in BOOLEAN, Fails(c, retryable)
      PROVE  BreakerInv'
  <2>1. phase' = [phase EXCEPT ![c] = "backoff"] \/ phase' = [phase EXCEPT ![c] = "idle"]
    BY <1>7 DEF Fails, Again
  <2>2. /\ breaker' \in {"open", "closed"}
        /\ halfOpenRequests' = halfOpenRequests
        /\ \/ letThrough' = {} /\ probe' = {}
           \/ letThrough' = letThrough /\ probe' = probe
    BY <1>7 DEF Fails, NotHalfOpen
  <2>3. QED
    BY <2>1, <2>2
<1>8. QED
  BY <1>1, <1>2, <1>3, <1>4, <1>5, <1>6, <1>7 DEF Before, After

(* The invariant is inductive.                                             *)
LEMMA BreakerNextInv == BreakerInv /\ [BreakerNext]_breakerVars => BreakerInv'
<1> SUFFICES ASSUME BreakerInv, [BreakerNext]_breakerVars
             PROVE  BreakerInv'
  OBVIOUS
<1>1. CASE \E c \in Callers : Before(c) \/ After(c) \/ GiveUp(c)
  BY <1>1, CallerStep
<1>2. CASE TimeoutPasses
  BY <1>2 DEF TimeoutPasses, BreakerInv, BreakerTypeOK, HalfOpenCounted
<1>3. CASE Reset
  BY <1>3 DEF Reset, ResetCounters, NotHalfOpen, BreakerInv, BreakerTypeOK, HalfOpenCounted
<1>4. CASE ForceOpen
  BY <1>4 DEF ForceOpen, NotHalfOpen, BreakerInv, BreakerTypeOK, HalfOpenCounted
<1>5. CASE UNCHANGED breakerVars
  BY <1>5 DEF breakerVars, BreakerInv, BreakerTypeOK, HalfOpenCounted
<1>6. QED
  BY <1>1, <1>2, <1>3, <1>4, <1>5 DEF BreakerNext

(* The inductive invariant of the breaker holds in every state.            *)
THEOREM BreakerInvariant == BreakerSpec => []BreakerInv
BY BreakerInitInv, BreakerNextInv, PTL DEF BreakerSpec

(* A half-open breaker always has its first call still running, so that a  *)
(* result will end that state (breaker.go:129-157, 186-196).               *)
THEOREM HalfOpenAlwaysTried == BreakerSpec => []HalfOpenIsTried
<1>1. BreakerInv => HalfOpenIsTried
  BY DEF BreakerInv, BreakerTypeOK, HalfOpenCounted, HalfOpenIsTried
<1>2. QED
  BY <1>1, BreakerInvariant, PTL

OneAboveLimit == breaker = "halfOpen" => Cardinality(letThrough) <= HalfOpenMaxRequests + 1

(* A half-open breaker lets through more calls than HalfOpenMaxRequests    *)
(* allows, but, however many callers there are, only the one that made it  *)
(* half-open more (breaker.go:129-157).                                    *)
THEOREM OneAboveLimitAtMost == BreakerSpec => []OneAboveLimit
<1>1. BreakerInv => OneAboveLimit
  <2> SUFFICES ASSUME BreakerInv, breaker = "halfOpen"
               PROVE  Cardinality(letThrough) <= HalfOpenMaxRequests + 1
    BY DEF OneAboveLimit
  <2>1. PICK c \in Callers : TRUE
    BY DEF BreakerInv, BreakerTypeOK, HalfOpenCounted
  <2>2. Cardinality(letThrough) \in Nat
    BY <2>1, LetThroughFinite DEF BreakerInv
  <2>3. HalfOpenMaxRequests \in Nat
    BY BreakerAssumption DEF BreakerAssumption
  <2>4. QED
    BY <2>2, <2>3 DEF BreakerInv, BreakerTypeOK, HalfOpenCounted
<1>2. QED
  BY <1>1, BreakerInvariant, PTL
-----------------------------------------------------------------------------
(* The reload of the configuration.                                        *)

ReloadTyped ==
  /\ file \in [lines : Files, modTime : Nat]
  /\ lastModTime \in Nat /\ seen \in Nat
  /\ registered \in 0 .. NumCallbacks
  /\ doing \in [Reloads -> {"idle", "load", "merge", "call", "stored"}]
  /\ DOMAIN new = Reloads
  /\ calls \in [Reloads -> Nat] /\ called \in [Reloads -> Nat]
  /\ DOMAIN told = 1 .. NumCallbacks
  /\ hidden \in BOOLEAN /\ torn \in BOOLEAN
  /\ doing[Watcher] # "idle" => watching = "checking"

(* A reload that has met no other is alone.                                *)
AloneUnlessMet == \A r \in Busy : r \notin met => Busy = {r}

(* What a callback knows is in force, or comes from a reload that calls    *)
(* them still and will leave the rest as it is only with torn set.         *)
Telling(r, c) == doing[r] = "call" /\ c <= called[r]
ToldByWhom ==
  /\ \A c \in 1 .. NumCallbacks : c > registered => told[c] = NotTold
  /\ \A r \in Reloads : doing[r] = "call" => called[r] <= calls[r] /\ calls[r] <= registered
  /\ \A r \in Reloads \ met : doing[r] = "call" =>
       \A c \in 1 .. NumCallbacks :
         /\ c <= called[r] => told[c] = new[r]
         /\ c > calls[r] => told[c] = NotTold
  /\ ~torn => \A c \in 1 .. NumCallbacks :
       told[c] \in {NotTold, config} \/ \E r \in Reloads : Telling(r, c)

CallbacksInv == ReloadTyped /\ AloneUnlessMet /\ ToldByWhom

(* What r has read is the file, or, if r is the watcher, it will keep a    *)
(* time that is too early for the file.                                    *)
InForce(lines) == \E ports \in DefaultPorts : config = MergeReloadableFields(config, Loaded(lines, ports))
HasRead(r, lines) ==
  \/ doing[r] = "load"
  \/ doing[r] = "merge" /\ \E ports \in DefaultPorts : new[r] = Loaded(lines, ports)
  \/ doing[r] = "call" /\ \E ports \in DefaultPorts :
       new[r] = MergeReloadableFields(config, Loaded(lines, ports))
  \/ doing[r] = "stored" /\ InForce(lines)
TooEarly(r) == r = Watcher /\ seen < file.modTime /\ lastModTime < file.modTime

SeenInTime ==
  ~hidden =>
    /\ \A r, s \in Busy : r = s
    /\ file.lines # Absent =>
         /\ lastModTime < file.modTime \/ InForce(file.lines)
         /\ \A r \in Busy : HasRead(r, file.lines) \/ TooEarly(r)

ChangesInv == ReloadTyped /\ SeenInTime
-----------------------------------------------------------------------------
(* The types hold in the first state.                                      *)
LEMMA ReloadInitTyped == ReloadInit => ReloadTyped
<1> SUFFICES ASSUME ReloadInit PROVE ReloadTyped
  OBVIOUS
<1>1. file \in [lines : Files, modTime : Nat] /\ lastModTime \in Nat /\ seen \in Nat
  BY DEF ReloadInit
<1>2. registered \in 0 .. NumCallbacks
  BY ReloadAssumption DEF ReloadAssumption, ReloadInit
<1>3. doing[Watcher] = "idle"
  BY DEF ReloadInit, Reloads
<1>4. /\ doing \in [Reloads -> {"idle", "load", "merge", "call", "stored"}]
      /\ DOMAIN new = Reloads
      /\ calls \in [Reloads -> Nat] /\ called \in [Reloads -> Nat]
      /\ DOMAIN told = 1 .. NumCallbacks
  BY DEF ReloadInit
<1>5. hidden \in BOOLEAN /\ torn \in BOOLEAN
  BY DEF ReloadInit
<1>6. QED
  BY <1>1, <1>2, <1>3, <1>4, <1>5 DEF ReloadTyped

(* Where a reload goes in one of its steps.                                *)
LEMMA EndEffect ==
  ASSUME ReloadTyped, NEW r \in Reloads, End(r)
  PROVE  /\ doing' \in [Reloads -> {"idle", "load", "merge", "call", "stored"}]
         /\ DOMAIN new' = Reloads /\ seen' \in Nat
         /\ calls' \in [Reloads -> Nat] /\ called' \in [Reloads -> Nat]
         /\ doing'[r] = "idle" /\ met' = met \ {r}
         /\ \A s \in Reloads \ {r} :
              doing'[s] = doing[s] /\ new'[s] = new[s] /\ calls'[s] = calls[s] /\ called'[s] = called[s]
         /\ r # Watcher => seen' = seen
BY DEF End, ReloadTyped

(* A reload begins, alone or while others are at work.                     *)
LEMMA BeginEffect ==
  ASSUME ReloadTyped, NEW r \in Reloads, Begin(r)
  PROVE  /\ doing' \in [Reloads -> {"idle", "load", "merge", "call", "stored"}]
         /\ doing'[r] = "load" /\ \A s \in Reloads \ {r} : doing'[s] = doing[s]
         /\ Busy' = Busy \cup {r}
         /\ met' = IF Busy = {} THEN met ELSE met \cup Busy \cup {r}
         /\ hidden' = (hidden \/ Busy # {})
<1>1. /\ doing' = [doing EXCEPT ![r] = "load"]
      /\ met' = IF Busy = {} THEN met ELSE met \cup Busy \cup {r}
      /\ hidden' = (hidden \/ Busy # {})
  BY DEF Begin
<1>2. /\ doing' \in [Reloads -> {"idle", "load", "merge", "call", "stored"}]
      /\ doing'[r] = "load" /\ \A s \in Reloads \ {r} : doing'[s] = doing[s]
  BY <1>1 DEF ReloadTyped
<1>3. Busy' = Busy \cup {r}
  BY <1>2 DEF Busy
<1>4. QED
  BY <1>1, <1>2, <1>3

(* Check and Reload begin a reload that was idle.                          *)
LEMMA BeginsIdle ==
  ASSUME ReloadTyped, Check \/ \E r \in Manual : Reload(r)
  PROVE  /\ \E r \in Reloads : doing[r] = "idle" /\ Begin(r)
         /\ Watcher \in Reloads
<1>1. CASE Check
  BY <1>1 DEF Check, Reloads, ReloadTyped
<1>2. CASE \E r \in Manual : Reload(r)
  BY <1>2 DEF Reload, Reloads
<1>3. QED
  BY <1>1, <1>2

(* A reload goes on: its own state moves, that of the others does not.     *)
LEMMA StepEffect ==
  ASSUME ReloadTyped, NEW r \in Reloads, ReloadStep(r), ~End(r)
  PROVE  /\ doing[r] # "idle" /\ doing'[r] \in {"merge", "call", "stored"}
         /\ doing' \in [Reloads -> {"idle", "load", "merge", "call", "stored"}]
         /\ \A s \in Reloads \ {r} :
              doing'[s] = doing[s] /\ new'[s] = new[s] /\ calls'[s] = calls[s] /\ called'[s] = called[s]
         /\ Busy' = Busy
         /\ UNCHANGED <<met, hidden, file, registered, seen, watching, lastModTime>>
<1>1. ReloadStep(r) => Load(r) \/ Merge(r) \/ CallbackAccepts(r) \/ Store(r)
  BY DEF ReloadStep, CallbackRefuses, Finish
<1>2. \/ Load(r) /\ doing' = [doing EXCEPT ![r] = "merge"]
      \/ Merge(r) /\ doing' = [doing EXCEPT ![r] = "call"]
      \/ CallbackAccepts(r) /\ doing' = doing
      \/ Store(r) /\ doing' = [doing EXCEPT ![r] = "stored"]
  BY <1>1 DEF Load, Merge, CallbackAccepts, Store
<1>3. /\ doing[r] # "idle" /\ doing'[r] \in {"merge", "call", "stored"}
      /\ doing' \in [Reloads -> {"idle", "load", "merge", "call", "stored"}]
      /\ \A s \in Reloads \ {r} : doing'[s] = doing[s]
  BY <1>2 DEF Load, Merge, CallbackAccepts, Store, ReloadTyped
<1>4. Busy' = Busy
  BY <1>3 DEF Busy
<1>5. \A s \in Reloads \ {r} : new'[s] = new[s] /\ calls'[s] = calls[s] /\ called'[s] = called[s]
  BY <1>1 DEF Load, Merge, CallbackAccepts, Store, ReloadTyped
<1>6. UNCHANGED <<met, hidden, file, registered, seen, watching, lastModTime>>
  BY <1>1 DEF Load, Merge, CallbackAccepts, Store, watchVars, fileVars
<1>7. QED
  BY <1>3, <1>4, <1>5, <1>6

(* Every step keeps the types.                                             *)
LEMMA ReloadTypedStep == ReloadTyped /\ [ReloadNext]_reloadVars => ReloadTyped'
<1> SUFFICES ASSUME ReloadTyped, [ReloadNext]_reloadVars PROVE ReloadTyped'
  OBVIOUS
<1> USE ReloadAssumption DEF ReloadAssumption
<1>1. CASE Write
  <2>1. file' \in [lines : Files, modTime : Nat] /\ hidden' \in BOOLEAN
    BY <1>1 DEF Write
  <2>2. UNCHANGED <<lastModTime, seen, registered, doing, new, calls, called, told, torn, watching>>
    BY <1>1 DEF Write, watchVars
  <2>3. QED
    BY <2>1, <2>2 DEF ReloadTyped
<1>2. CASE OnReload \/ StartWatcher \/ WatcherEnds \/ Stop \/ StopEnds \/ UNCHANGED reloadVars
  BY <1>2 DEF OnReload, StartWatcher, WatcherEnds, Stop, StopEnds, WatchOnly, reloadVars, fileVars,
       watchVars, ReloadTyped
<1>3. CASE Check \/ \E r \in Manual : Reload(r)
  <2>1. hidden' \in BOOLEAN /\ doing' \in [Reloads -> {"idle", "load", "merge", "call", "stored"}]
    BY <1>3, BeginsIdle, BeginEffect DEF ReloadTyped
  <2>2. seen' \in Nat
    BY <1>3 DEF Check, Reload, ReloadTyped
  <2>3. doing'[Watcher] # "idle" => watching' = "checking"
    BY <1>3, BeginEffect, BeginsIdle DEF Check, Reload, Reloads, watchVars, ReloadTyped
  <2>4. QED
    BY <1>3, <2>1, <2>2, <2>3 DEF Check, Reload, fileVars, ReloadTyped
<1>4. ASSUME NEW r \in Reloads, ReloadStep(r)
      PROVE  ReloadTyped'
  <2>1. UNCHANGED <<file, registered, hidden>> /\ torn' \in BOOLEAN /\ lastModTime' \in Nat
    <3>1. CASE Load(r) \/ Merge(r) \/ CallbackAccepts(r)
      BY <3>1 DEF Load, Merge, CallbackAccepts, fileVars, ReloadTyped
    <3>2. CASE Finish(r)
      BY <3>2 DEF Finish, fileVars, ReloadTyped
    <3>3. CASE CallbackRefuses(r) \/ Store(r)
      <4>1. torn' = (torn \/ called[r] > 0) \/ torn' = (r \in met)
        BY <3>3 DEF CallbackRefuses, Store
      <4>2. UNCHANGED <<file, registered, hidden, lastModTime>>
        BY <3>3 DEF CallbackRefuses, Store, fileVars
      <4>3. torn' \in BOOLEAN
        <5>1. CASE torn' = (torn \/ called[r] > 0)
          BY <5>1
        <5>2. CASE torn' = (r \in met)
          BY <5>2
        <5>3. QED
          BY <4>1, <5>1, <5>2
      <4>4. lastModTime \in Nat
        BY DEF ReloadTyped
      <4>5. QED
        BY <4>2, <4>3, <4>4
    <3>4. QED
      BY <1>4, <3>1, <3>2, <3>3 DEF ReloadStep
  <2>2. /\ DOMAIN told' = 1 .. NumCallbacks /\ DOMAIN new' = Reloads
        /\ calls' \in [Reloads -> Nat] /\ called' \in [Reloads -> Nat]
    <3>1. CASE End(r)
      <4>1. told' = told
        BY <1>4, <3>1, EndEffect
           DEF ReloadStep, Load, Merge, CallbackAccepts, CallbackRefuses, Store, Finish
      <4>2. QED
        BY <3>1, <4>1, EndEffect DEF ReloadTyped
    <3>2. CASE ~End(r)
      <4>1. CASE Load(r)
        BY <3>2, <4>1 DEF Load, ReloadTyped
      <4>2. CASE Merge(r)
        BY <4>2 DEF Merge, ReloadTyped
      <4>3. CASE CallbackAccepts(r)
        BY <4>3 DEF CallbackAccepts, ReloadTyped
      <4>4. CASE Store(r)
        BY <4>4 DEF Store, ReloadTyped
      <4>5. QED
        BY <1>4, <3>2, <4>1, <4>2, <4>3, <4>4 DEF ReloadStep, CallbackRefuses, Finish
    <3>3. QED
      BY <3>1, <3>2
  <2>3. /\ seen' \in Nat /\ doing' \in [Reloads -> {"idle", "load", "merge", "call", "stored"}]
        /\ doing'[Watcher] # "idle" => watching' = "checking"
    <3>1. CASE End(r)
      <4>1. r # Watcher => watching' = watching
        BY <3>1 DEF End
      <4>2. Watcher \in Reloads
        BY DEF Reloads
      <4>3. /\ seen' \in Nat /\ doing' \in [Reloads -> {"idle", "load", "merge", "call", "stored"}]
            /\ doing'[r] = "idle" /\ (Watcher # r => doing'[Watcher] = doing[Watcher])
        BY <3>1, <4>2, EndEffect
      <4>4. doing[Watcher] # "idle" => watching = "checking"
        BY DEF ReloadTyped
      <4>5. QED
        BY <4>1, <4>3, <4>4
    <3>2. CASE ~End(r)
      BY <1>4, <3>2, StepEffect DEF ReloadTyped, Reloads
    <3>3. QED
      BY <3>1, <3>2
  <2>4. QED
    BY <2>1, <2>2, <2>3 DEF ReloadTyped
<1>5. QED
  BY <1>1, <1>2, <1>3, <1>4 DEF ReloadNext

-----------------------------------------------------------------------------
(* Callbacks.                                                              *)

(* Before the first reload the invariant holds.                            *)
LEMMA CallbacksInitInv == ReloadInit => CallbacksInv
<1> SUFFICES ASSUME ReloadInit PROVE CallbacksInv
  OBVIOUS
<1>1. ReloadTyped
  BY ReloadInitTyped
<1>2. Busy = {} /\ \A r \in Reloads : doing[r] = "idle"
  BY DEF ReloadInit, Busy
<1>3. \A c \in 1 .. NumCallbacks : told[c] = NotTold
  BY DEF ReloadInit
<1>4. QED
  BY <1>1, <1>2, <1>3 DEF CallbacksInv, AloneUnlessMet, ToldByWhom

(* A reload that met no other one is alone, after every step.              *)
LEMMA AloneStep ==
  ASSUME ReloadTyped, AloneUnlessMet, [ReloadNext]_reloadVars
  PROVE  AloneUnlessMet'
<1>1. CASE Write \/ OnReload \/ StartWatcher \/ WatcherEnds \/ Stop \/ StopEnds \/ UNCHANGED reloadVars
  BY <1>1 DEF Write, OnReload, StartWatcher, WatcherEnds, Stop, StopEnds, WatchOnly, reloadVars,
       AloneUnlessMet, Busy
<1>2. CASE Check \/ \E r \in Manual : Reload(r)
  <2>1. PICK r \in Reloads : Begin(r)
    BY <1>2 DEF Check, Reload, Reloads
  <2>2. /\ Busy' = Busy \cup {r}
        /\ met' = IF Busy = {} THEN met ELSE met \cup Busy \cup {r}
    BY <2>1, BeginEffect
  <2>3. QED
    BY <2>2 DEF AloneUnlessMet
<1>3. ASSUME NEW r \in Reloads, ReloadStep(r)
      PROVE  AloneUnlessMet'
  <2>1. CASE End(r)
    <3>1. met' = met \ {r} /\ Busy' = Busy \ {r}
      BY <2>1, EndEffect DEF Busy
    <3>2. r \in Busy
      BY <1>3 DEF ReloadStep, Load, Merge, CallbackAccepts, CallbackRefuses, Store, Finish, Busy
    <3>3. QED
      BY <3>1, <3>2 DEF AloneUnlessMet
  <2>2. CASE ~End(r)
    BY <1>3, <2>2, StepEffect DEF AloneUnlessMet
  <2>3. QED
    BY <2>1, <2>2
<1>4. QED
  BY <1>1, <1>2, <1>3 DEF ReloadNext

(* Every step tells the callbacks what is stored, or by a reload that met  *)
(* another.                                                                *)
LEMMA ToldStep ==
  ASSUME CallbacksInv, [ReloadNext]_reloadVars
  PROVE  ToldByWhom'
<1> USE DEF CallbacksInv
<1>0. registered \in Nat /\ NumCallbacks \in Nat /\ registered <= NumCallbacks
  BY ReloadAssumption DEF ReloadAssumption, ReloadTyped
<1>1. CASE Write \/ OnReload \/ StartWatcher \/ WatcherEnds \/ Stop \/ StopEnds \/ UNCHANGED reloadVars
  <2>1. UNCHANGED <<config, doing, new, calls, called, told, met, torn>>
    BY <1>1 DEF Write, OnReload, StartWatcher, WatcherEnds, Stop, StopEnds, WatchOnly, reloadVars
  <2>2. registered' = registered \/ registered' = registered + 1
    BY <1>1 DEF Write, OnReload, StartWatcher, WatcherEnds, Stop, StopEnds, WatchOnly, reloadVars
  <2>3. \A r \in Reloads : calls[r] \in Nat
    BY DEF ReloadTyped
  <2>4. /\ \A c \in 1 .. NumCallbacks : c > registered' => told[c] = NotTold
        /\ \A r \in Reloads : doing[r] = "call" => called[r] <= calls[r] /\ calls[r] <= registered'
    BY <1>0, <2>2, <2>3 DEF ToldByWhom
  <2>5. QED
    BY <2>1, <2>4 DEF ToldByWhom, Telling
<1>2. CASE Check \/ \E r \in Manual : Reload(r)
  <2>1. PICK r \in Reloads : doing[r] = "idle" /\ Begin(r)
    BY <1>2, BeginsIdle
  <2>2. /\ doing'[r] = "load" /\ \A s \in Reloads \ {r} : doing'[s] = doing[s]
        /\ met \subseteq met'
    BY <2>1, BeginEffect
  <2>3. UNCHANGED <<config, registered, new, calls, called, told, torn>>
    BY <1>2 DEF Check, Reload
  <2>4. \A s \in Reloads : doing'[s] = "call" <=> doing[s] = "call"
    BY <2>1, <2>2
  <2>5. QED
    BY <2>2, <2>3, <2>4 DEF ToldByWhom, Telling
<1>3. ASSUME NEW r \in Reloads, End(r), UNCHANGED <<config, registered, told>>,
             ~torn' => ~torn /\ (doing[r] = "call" => called[r] = 0)
      PROVE  ToldByWhom'
  <2>1. /\ doing'[r] = "idle" /\ met' = met \ {r}
        /\ \A s \in Reloads \ {r} :
             doing'[s] = doing[s] /\ new'[s] = new[s] /\ calls'[s] = calls[s] /\ called'[s] = called[s]
    BY <1>3, EndEffect
  <2>2. \A s \in Reloads : doing'[s] = "call" => s # r
    BY <2>1
  <2>3. ~torn' => \A c \in 1 .. NumCallbacks, s \in Reloads : Telling(s, c) => Telling(s, c)'
    BY <1>3, <2>1 DEF Telling, ReloadTyped
  <2>4. /\ \A c \in 1 .. NumCallbacks : c > registered' => told'[c] = NotTold
        /\ \A s \in Reloads : doing'[s] = "call" => called'[s] <= calls'[s] /\ calls'[s] <= registered'
    BY <1>3, <2>1, <2>2 DEF ToldByWhom
  <2>5. \A s \in Reloads \ met' : doing'[s] = "call" => s \in Reloads \ met
    BY <2>1, <2>2
  <2>6. \A s \in Reloads \ met' : doing'[s] = "call" =>
          \A c \in 1 .. NumCallbacks :
            /\ c <= called'[s] => told'[c] = new'[s]
            /\ c > calls'[s] => told'[c] = NotTold
    BY <1>3, <2>1, <2>2, <2>5 DEF ToldByWhom
  <2>7. ~torn' => \A c \in 1 .. NumCallbacks :
          told'[c] \in {NotTold, config'} \/ \E s \in Reloads : Telling(s, c)'
    BY <1>3, <2>3 DEF ToldByWhom, ReloadTyped
  <2>8. QED
    BY <2>4, <2>6, <2>7 DEF ToldByWhom, Telling
<1>4. ASSUME NEW r \in Reloads, Load(r), ~End(r)
      PROVE  ToldByWhom'
  <2>1. /\ doing[r] = "load" /\ doing'[r] = "merge"
        /\ \A s \in Reloads \ {r} : doing'[s] = doing[s] /\ new'[s] = new[s]
        /\ UNCHANGED <<config, registered, calls, called, told, met, torn>>
    BY <1>4 DEF Load, ReloadTyped
  <2>2. \A s \in Reloads : (doing'[s] = "call" <=> doing[s] = "call") /\ (doing[s] = "call" => s # r)
    BY <2>1
  <2>3. QED
    BY <2>1, <2>2 DEF ToldByWhom, Telling
<1>5. ASSUME NEW r \in Reloads, Merge(r)
      PROVE  ToldByWhom'
  <2>1. /\ doing[r] = "merge" /\ doing'[r] = "call" /\ calls'[r] = registered /\ called'[r] = 0
        /\ \A s \in Reloads \ {r} :
             doing'[s] = doing[s] /\ new'[s] = new[s] /\ calls'[s] = calls[s] /\ called'[s] = called[s]
        /\ UNCHANGED <<config, registered, told, met, torn>>
    BY <1>5 DEF Merge, ReloadTyped
  <2>2. \A c \in 1 .. NumCallbacks, s \in Reloads : Telling(s, c) => Telling(s, c)'
    BY <2>1 DEF Telling
  <2>3. \A s \in Reloads : doing'[s] = "call" => called'[s] <= calls'[s] /\ calls'[s] <= registered
    BY <1>0, <2>1 DEF ToldByWhom
  <2>4. \A s \in Reloads \ met : doing'[s] = "call" =>
          \A c \in 1 .. NumCallbacks :
            /\ c <= called'[s] => told[c] = new'[s]
            /\ c > calls'[s] => told[c] = NotTold
    BY <1>0, <2>1 DEF ToldByWhom
  <2>5. QED
    BY <2>1, <2>2, <2>3, <2>4 DEF ToldByWhom
<1>6. ASSUME NEW r \in Reloads, CallbackAccepts(r)
      PROVE  ToldByWhom'
  <2>1. /\ doing[r] = "call" /\ called[r] < calls[r] /\ called[r] \in Nat /\ calls[r] \in Nat
        /\ calls[r] <= registered
    BY <1>6 DEF CallbackAccepts, ReloadTyped, ToldByWhom
  <2>2. PICK k \in 1 .. NumCallbacks : k = called[r] + 1
    BY <1>0, <2>1
  <2>3. /\ called'[r] = k /\ \A s \in Reloads \ {r} : called'[s] = called[s]
        /\ told' = [told EXCEPT ![called'[r]] = new[r]]
        /\ UNCHANGED <<config, registered, doing, new, calls, met, torn>>
    BY <1>6, <2>2 DEF CallbackAccepts, ReloadTyped
  <2>4. told'[k] = new[r] /\ \A c \in 1 .. NumCallbacks \ {k} : told'[c] = told[c]
    BY <2>3 DEF ReloadTyped
  <2>5. \A c \in 1 .. NumCallbacks, s \in Reloads : Telling(s, c) => Telling(s, c)'
    BY <2>1, <2>2, <2>3 DEF Telling
  <2>6. Telling(r, k)'
    BY <2>1, <2>3 DEF Telling
  <2>7. \A c \in 1 .. NumCallbacks : c > registered => told'[c] = NotTold
    BY <1>0, <2>1, <2>2, <2>4 DEF ToldByWhom
  <2>8. ASSUME NEW s \in Reloads \ met, doing[s] = "call", NEW c \in 1 .. NumCallbacks
        PROVE  /\ c <= called'[s] => told'[c] = new[s]
               /\ c > calls[s] => told'[c] = NotTold
    <3>1. s = r
      BY <2>1, <2>8 DEF AloneUnlessMet, Busy
    <3>2. QED
      BY <2>1, <2>2, <2>3, <2>4, <2>8, <3>1 DEF ToldByWhom
  <2>9. ~torn => \A c \in 1 .. NumCallbacks :
          told'[c] \in {NotTold, config} \/ \E s \in Reloads : Telling(s, c)'
    <3> SUFFICES ASSUME ~torn, NEW c \in 1 .. NumCallbacks
                 PROVE  told'[c] \in {NotTold, config} \/ \E s \in Reloads : Telling(s, c)'
      OBVIOUS
    <3>1. CASE c = k
      BY <2>6, <3>1
    <3>2. CASE c # k
      <4>1. told[c] \in {NotTold, config} \/ \E s \in Reloads : Telling(s, c)
        BY DEF ToldByWhom
      <4>2. QED
        BY <2>4, <2>5, <3>2, <4>1
    <3>3. QED
      BY <3>1, <3>2
  <2>10. \A s \in Reloads : doing[s] = "call" => called'[s] <= calls[s] /\ calls[s] <= registered
    BY <2>1, <2>2, <2>3 DEF ToldByWhom
  <2>11. QED
    BY <2>3, <2>7, <2>8, <2>9, <2>10 DEF ToldByWhom
<1>7. ASSUME NEW r \in Reloads, Store(r)
      PROVE  ToldByWhom'
  <2>1. /\ doing[r] = "call" /\ called[r] = calls[r] /\ called[r] \in Nat
        /\ config' = new[r] /\ torn' = (r \in met)
        /\ doing'[r] = "stored" /\ \A s \in Reloads \ {r} : doing'[s] = doing[s]
        /\ UNCHANGED <<registered, new, calls, called, told, met>>
    BY <1>7 DEF Store, ReloadTyped
  <2>2. \A s \in Reloads : doing'[s] = "call" => doing[s] = "call"
    BY <2>1
  <2>3. r \notin met => \A c \in 1 .. NumCallbacks : told[c] \in {NotTold, new[r]}
    BY <2>1 DEF ToldByWhom
  <2>4. QED
    BY <2>1, <2>2, <2>3 DEF ToldByWhom
<1>8. ASSUME NEW r \in Reloads, ReloadStep(r)
      PROVE  ToldByWhom'
  <2>1. CASE Load(r) /\ End(r)
    BY <1>3, <2>1 DEF Load
  <2>2. CASE CallbackRefuses(r)
    <3>1. called[r] \in Nat
      BY DEF ReloadTyped
    <3>2. End(r) /\ UNCHANGED <<config, registered, told>>
      BY <2>2 DEF CallbackRefuses
    <3>3. ~torn' => ~torn /\ ~(called[r] > 0)
      BY <2>2 DEF CallbackRefuses
    <3>4. QED
      BY <1>3, <3>1, <3>2, <3>3
  <2>3. CASE Finish(r)
    BY <1>3, <2>3 DEF Finish
  <2>4. QED
    BY <1>4, <1>5, <1>6, <1>7, <1>8, <2>1, <2>2, <2>3 DEF ReloadStep
<1>9. QED
  BY <1>1, <1>2, <1>8 DEF ReloadNext

(* At rest, what a callback has accepted last is the configuration in      *)
(* force, unless a later callback refused it or reloads overlapped, and    *)
(* until a reload has gone through alone, for any callbacks and any number *)
(* of reloads next to the watcher (reload.go:228-256).                     *)
THEOREM CallbacksStayAgreed == ReloadSpec => []CallbacksAgree
<1>1. CallbacksInv /\ [ReloadNext]_reloadVars => CallbacksInv'
  BY ReloadTypedStep, AloneStep, ToldStep DEF CallbacksInv
<1>2. CallbacksInv => CallbacksAgree
  <2> SUFFICES ASSUME CallbacksInv, Busy = {}, ~torn, NEW c \in 1 .. registered
               PROVE  told[c] \in {NotTold, config}
    BY DEF CallbacksAgree
  <2>1. c \in 1 .. NumCallbacks
    BY ReloadAssumption DEF ReloadAssumption, CallbacksInv, ReloadTyped
  <2>2. \A r \in Reloads : ~Telling(r, c)
    BY DEF Busy, Telling
  <2>3. QED
    BY <2>1, <2>2 DEF CallbacksInv, ToldByWhom
<1>3. QED
  BY <1>1, <1>2, CallbacksInitInv, PTL DEF ReloadSpec
-----------------------------------------------------------------------------
(* Changes of the file.                                                    *)

(* What has been merged stays so when it is merged again.                  *)
LEMMA MergeAgain ==
  ASSUME NEW old, NEW loaded
  PROVE  MergeReloadableFields(old, loaded)
           = MergeReloadableFields(MergeReloadableFields(old, loaded), loaded)
BY DEF MergeReloadableFields

(* A write to the file can be seen by its time.                            *)
LEMMA SeenAtWrite ==
  ASSUME ReloadTyped, SeenInTime, Write
  PROVE  SeenInTime'
<1> SUFFICES ASSUME ~hidden' PROVE SeenInTime'
  BY DEF SeenInTime
<1>1. PICK lines \in Files, m \in 1 .. MaxWrites + 1 :
        /\ file' = [lines |-> lines, modTime |-> m]
        /\ m > lastModTime /\ Busy \cap Manual = {} /\ (Watcher \in Busy => m > seen)
  BY DEF Write
<1>2. UNCHANGED <<doing, lastModTime, seen>> /\ Busy' = Busy
  BY DEF Write, Busy
<1>3. lastModTime \in Int /\ seen \in Int /\ m \in Int
  BY DEF ReloadTyped
<1>4. Busy \subseteq {Watcher}
  BY <1>1 DEF Busy, Reloads
<1>5. lastModTime' < file'.modTime
  BY <1>1, <1>2, <1>3
<1>6. \A r \in Busy' : TooEarly(r)'
  BY <1>1, <1>2, <1>3, <1>4, <1>5 DEF TooEarly
<1>7. \A r, s \in Busy' : r = s
  BY <1>2, <1>4
<1>8. QED
  BY <1>5, <1>6, <1>7 DEF SeenInTime

(* A reload that begins reads the file later.                              *)
LEMMA SeenAtBegin ==
  ASSUME ReloadTyped, SeenInTime, Check \/ \E r \in Manual : Reload(r)
  PROVE  SeenInTime'
<1> SUFFICES ASSUME ~hidden' PROVE SeenInTime'
  BY DEF SeenInTime
<1>1. PICK r \in Reloads : doing[r] = "idle" /\ Begin(r)
  BY BeginsIdle
<1>2. ~hidden /\ Busy' = {r} /\ doing'[r] = "load"
  BY <1>1, BeginEffect
<1>3. UNCHANGED <<file, config, lastModTime>>
  BY DEF Check, Reload, fileVars
<1>4. HasRead(r, file.lines)'
  BY <1>2 DEF HasRead
<1>5. QED
  BY <1>2, <1>3, <1>4 DEF SeenInTime, InForce

(* A reload that goes on brings in force what it has read.                 *)
LEMMA SeenAtStep ==
  ASSUME ReloadTyped, SeenInTime, NEW r \in Reloads, ReloadStep(r)
  PROVE  SeenInTime'
<1> SUFFICES ASSUME ~hidden' PROVE SeenInTime'
  BY DEF SeenInTime
<1>1. hidden' = hidden /\ file' = file
  BY DEF ReloadStep, Load, Merge, CallbackAccepts, CallbackRefuses, Store, Finish, fileVars
<1>2. doing[r] # "idle"
  BY DEF ReloadStep, Load, Merge, CallbackAccepts, CallbackRefuses, Store, Finish
<1>3. Busy = {r}
  BY <1>1, <1>2 DEF SeenInTime, Busy
<1>4. CASE End(r)
  <2>1. Busy' = {}
    BY <1>3, <1>4, EndEffect DEF Busy
  <2>2. config' = config
    BY <1>4, EndEffect DEF ReloadStep, Load, Merge, CallbackAccepts, CallbackRefuses, Store, Finish
  <2>3. ASSUME file.lines # Absent
        PROVE  lastModTime' < file.modTime \/ InForce(file.lines)
    <3>1. CASE Finish(r)
      <4>1. InForce(file.lines) \/ TooEarly(r)
        BY <1>1, <1>3, <2>3, <3>1 DEF SeenInTime, HasRead, Finish
      <4>2. TooEarly(r) => lastModTime' = seen
        BY <3>1 DEF Finish, TooEarly
      <4>3. QED
        BY <4>1, <4>2 DEF TooEarly
    <3>2. CASE ~Finish(r)
      <4>1. lastModTime' = lastModTime
        BY <1>4, <3>2 DEF ReloadStep, Load, Merge, CallbackAccepts, CallbackRefuses, Store
      <4>2. QED
        BY <1>1, <2>3, <4>1 DEF SeenInTime
    <3>3. QED
      BY <3>1, <3>2
  <2>4. QED
    BY <1>1, <2>1, <2>2, <2>3 DEF SeenInTime, InForce
<1>5. CASE ~End(r)
  <2>1. UNCHANGED <<file, seen, lastModTime>> /\ Busy' = Busy
    BY <1>5, StepEffect
  <2>2. TooEarly(r) => TooEarly(r)'
    BY <2>1 DEF TooEarly
  <2>3. ASSUME file.lines # Absent
        PROVE  /\ lastModTime < file.modTime \/ InForce(file.lines)'
               /\ HasRead(r, file.lines)' \/ TooEarly(r)'
    <3>1. HasRead(r, file.lines) \/ TooEarly(r)
      BY <1>1, <1>3, <2>3 DEF SeenInTime
    <3>2. lastModTime < file.modTime \/ InForce(file.lines)
      BY <1>1, <2>3 DEF SeenInTime
    <3>3. CASE Load(r)
      <4>1. config' = config /\ doing'[r] = "merge"
        BY <1>5, <3>3 DEF Load, ReloadTyped
      <4>2. \E ports \in DefaultPorts : new'[r] = Loaded(file.lines, ports)
        BY <1>5, <3>3 DEF Load, ReloadTyped
      <4>3. QED
        BY <2>1, <3>2, <4>1, <4>2 DEF HasRead, InForce
    <3>4. CASE Merge(r)
      <4>1. /\ config' = config /\ doing[r] = "merge" /\ doing'[r] = "call"
            /\ new'[r] = MergeReloadableFields(config, new[r])
        BY <3>4 DEF Merge, ReloadTyped
      <4>2. QED
        BY <2>1, <2>2, <3>1, <3>2, <4>1 DEF HasRead, InForce
    <3>5. CASE CallbackAccepts(r)
      <4>1. UNCHANGED <<config, doing, new>>
        BY <3>5 DEF CallbackAccepts
      <4>2. QED
        BY <2>1, <2>2, <3>1, <3>2, <4>1 DEF HasRead, InForce
    <3>6. CASE Store(r)
      <4>1. config' = new[r] /\ doing[r] = "call" /\ doing'[r] = "stored"
        BY <3>6 DEF Store, ReloadTyped
      <4>2. CASE HasRead(r, file.lines)
        <5>1. PICK ports \in DefaultPorts :
                config' = MergeReloadableFields(config, Loaded(file.lines, ports))
          BY <4>1, <4>2 DEF HasRead
        <5>2. config' = MergeReloadableFields(config', Loaded(file.lines, ports))
          BY <5>1, MergeAgain
        <5>3. InForce(file.lines)'
          BY <2>1, <5>2 DEF InForce
        <5>4. QED
          BY <4>1, <5>3 DEF HasRead
      <4>3. CASE TooEarly(r)
        BY <2>2, <4>3 DEF TooEarly
      <4>4. QED
        BY <3>1, <4>2, <4>3
    <3>7. QED
      BY <1>5, <3>3, <3>4, <3>5, <3>6 DEF ReloadStep, CallbackRefuses, Finish
  <2>4. QED
    BY <1>3, <2>1, <2>3 DEF SeenInTime
<1>6. QED
  BY <1>4, <1>5

(* Once nothing is under way, a file that the watcher will not look at     *)
(* again is in force, unless its change could not be seen, for any files   *)
(* and any number of reloads next to the watcher (reload.go:133-207,       *)
(* 228-256).                                                               *)
THEOREM ChangesAreSeen == ReloadSpec => []NoChangeMissed
<1>1. ReloadInit => ChangesInv
  BY ReloadInitTyped DEF ChangesInv, SeenInTime, ReloadInit
<1>2. ChangesInv /\ [ReloadNext]_reloadVars => ChangesInv'
  <2> SUFFICES ASSUME ChangesInv, [ReloadNext]_reloadVars PROVE SeenInTime'
    BY ReloadTypedStep DEF ChangesInv
  <2>1. CASE OnReload \/ StartWatcher \/ WatcherEnds \/ Stop \/ StopEnds \/ UNCHANGED reloadVars
    BY <2>1 DEF OnReload, StartWatcher, WatcherEnds, Stop, StopEnds, WatchOnly, reloadVars, fileVars,
         ChangesInv, SeenInTime, Busy, HasRead, InForce, TooEarly
  <2>2. QED
    BY <2>1, SeenAtWrite, SeenAtBegin, SeenAtStep DEF ReloadNext, ChangesInv
<1>3. ChangesInv => NoChangeMissed
  BY DEF ChangesInv, ReloadTyped, SeenInTime, NoChangeMissed, InForce
<1>4. QED
  BY <1>1, <1>2, <1>3, PTL DEF ReloadSpec
-----------------------------------------------------------------------------
(* The control server.                                                     *)

Places == {"none", "accepted", "loop", "read", "reply", "subscribe", "confirm", "quit",
           "unsubscribe", "unregister", "gone"}
Flights  == [to : Clients, type : Events, n : Nat, confirmed : Nat, behind : SUBSET Nat]
Received == [n : Nat, behind : SUBSET Nat]

ControlTyped ==
  /\ at \in [Clients -> Places]
  /\ DOMAIN wanted = Clients /\ DOMAIN subscribers \subseteq Clients
  /\ flying \subseteq Flights
  /\ got \in [Clients -> Seq(Received)]
  /\ dispatched \in Nat
  /\ confirmed \in [Clients -> Nat]

(* Between two commands the dispatcher has what the connection wants.      *)
Steady == {"loop", "read", "reply", "quit"}
SubscribersKnown ==
  \A c \in DOMAIN subscribers :
    /\ at[c] \notin {"none", "accepted", "unregister", "gone"}
    /\ at[c] \in Steady \cup {"confirm"} => subscribers[c] = wanted[c]

FlightsWanted ==
  \A e \in flying :
    /\ at[e.to] \notin {"none", "accepted"}
    /\ e.confirmed <= confirmed[e.to]
    /\ at[e.to] \in Steady /\ e.confirmed = confirmed[e.to] => e.type \in wanted[e.to]

(* g has been written before e was dispatched, or while e was under way.   *)
Precedes(g, e) == g.n < e.n \/ e.n \in g.behind

InTurn ==
  /\ \A e \in flying : e.n <= dispatched
  /\ \A e, f \in flying : e.to = f.to /\ e.n = f.n => e = f
  /\ \A e, f \in flying : e.to = f.to /\ e.n < f.n => e.n \in f.behind
  /\ \A c \in Clients : \A i \in DOMAIN got[c] : got[c][i].n <= dispatched
  /\ \A e \in flying : \A i \in DOMAIN got[e.to] : Precedes(got[e.to][i], e)
  /\ \A c \in Clients : \A j \in DOMAIN got[c] : \A i \in 1 .. j - 1 : Precedes(got[c][i], got[c][j])

EventsInv == ControlTyped /\ SubscribersKnown /\ FlightsWanted /\ InTurn
-----------------------------------------------------------------------------
(* Without connections the invariant holds.                                *)
LEMMA ControlInitInv == ControlInit => EventsInv
<1> SUFFICES ASSUME ControlInit PROVE EventsInv
  OBVIOUS
<1>1. /\ flying = {} /\ dispatched = 0 /\ DOMAIN subscribers = {}
      /\ at = [c \in Clients |-> "none"] /\ DOMAIN wanted = Clients
      /\ confirmed = [c \in Clients |-> 0]
  BY DEF ControlInit
<1>2. << >> \in Seq(Received)
  BY Zenon, EmptySeq
<1>3. got = [c \in Clients |-> << >>]
  BY DEF ControlInit
<1>4. got \in [Clients -> Seq(Received)]
  BY <1>2, <1>3
<1>5. ControlTyped
  BY <1>1, <1>4 DEF ControlTyped, Places
<1>6. \A c \in Clients : DOMAIN got[c] = {}
  BY <1>3
<1>7. QED
  BY <1>1, <1>5, <1>6 DEF EventsInv, SubscribersKnown, FlightsWanted, InTurn

(* What a handler can do to its own connection, and not to others.         *)
HandlerTurn(c) == Accept(c) \/ Command(c) \/ HandlerStep(c) \/ ReadDeadline(c)

Stays(c) ==
  /\ UNCHANGED <<wanted, subscribers, confirmed>>
  /\ \/ at[c] = "none" /\ at'[c] = "accepted"
     \/ at[c] = "accepted" /\ at'[c] = "loop"
     \/ at[c] \in Steady /\ at'[c] \in Steady \cup {"unsubscribe"}
     \/ at[c] = "unregister" /\ at'[c] = "gone"
Asks(c) ==
  /\ UNCHANGED <<subscribers, confirmed>>
  /\ at[c] = "read" /\ at'[c] = "subscribe"
  /\ DOMAIN wanted' = DOMAIN wanted /\ \A d \in Clients \ {c} : wanted'[d] = wanted[d]
Confirms(c) ==
  /\ UNCHANGED <<wanted, subscribers>>
  /\ at[c] = "confirm" /\ at'[c] = "loop"
  /\ confirmed' = [confirmed EXCEPT ![c] = @ + 1]

(* What one turn of a connection's handler can do.                         *)
LEMMA HandlerEffect ==
  ASSUME ControlTyped, NEW c \in Clients, HandlerTurn(c)
  PROVE  /\ at' \in [Clients -> Places] /\ \A d \in Clients \ {c} : at'[d] = at[d]
         /\ UNCHANGED eventVars
         /\ Stays(c) \/ Asks(c) \/ Subscribe(c) \/ Confirms(c) \/ Unsubscribe(c)
<1>1. /\ UNCHANGED eventVars /\ \E there \in Places : Go(c, there)
      /\ Stays(c) \/ Asks(c) \/ Subscribe(c) \/ Confirms(c) \/ Unsubscribe(c)
  <2> USE DEF Go, Places
  <2>1. CASE Accept(c)
    BY <2>1 DEF Accept, Stays, Steady, ControlTyped
  <2>2. CASE Register(c) \/ Unregister(c)
    BY <2>2 DEF Register, Unregister, HandlerOnly, Stays, Steady, ControlTyped
  <2>3. CASE Loop(c) \/ ReadFails(c) \/ ReadDeadline(c)
    BY <2>3 DEF Loop, ReadFails, ReadDeadline, HandlerOnly, Stays, Steady, ControlTyped
  <2>4. CASE HandleAuthenticate(c) \/ HandleOther(c) \/ HandleQuit(c)
    BY <2>4 DEF HandleAuthenticate, HandleOther, HandleQuit, Reads, HandlerOnly, Stays, Steady, ControlTyped
  <2>5. ASSUME NEW events \in SUBSET Events, HandleSetEvents(c, events)
        PROVE  Asks(c) /\ UNCHANGED eventVars /\ \E there \in Places : Go(c, there)
    BY <2>5 DEF HandleSetEvents, Reads, HandlerOnly, Asks, ControlTyped
  <2>6. CASE WriteReply(c)
    <3>1. /\ at[c] \in {"reply", "confirm", "quit"} /\ at' = [at EXCEPT ![c] = "loop"]
          /\ UNCHANGED <<wanted, subscribers, eventVars>>
          /\ confirmed' = [confirmed EXCEPT ![c] = IF at[c] = "confirm" THEN @ + 1 ELSE @]
      BY <2>6 DEF WriteReply, HandlerOnly
    <3>2. CASE at[c] = "confirm"
      BY <3>1, <3>2 DEF Confirms, ControlTyped
    <3>3. CASE at[c] # "confirm"
      <4>1. confirmed' = confirmed
        BY <3>1, <3>3 DEF ControlTyped
      <4>2. QED
        BY <3>1, <3>3, <4>1 DEF Stays, Steady, ControlTyped
    <3>4. QED
      BY <3>2, <3>3
  <2>7. CASE Subscribe(c)
    BY <2>7 DEF Subscribe, HandlerOnly
  <2>8. CASE Unsubscribe(c)
    BY <2>8 DEF Unsubscribe, HandlerOnly
  <2>9. QED
    BY <2>1, <2>2, <2>3, <2>4, <2>5, <2>6, <2>7, <2>8 DEF HandlerTurn, Command, HandlerStep
<1>2. at' \in [Clients -> Places] /\ \A d \in Clients \ {c} : at'[d] = at[d]
  BY <1>1 DEF Go, ControlTyped
<1>3. QED
  BY <1>1, <1>2

(* A turn of a handler keeps the types and who wants what.                 *)
LEMMA HandlerKeeps ==
  ASSUME ControlTyped, SubscribersKnown, FlightsWanted, NEW c \in Clients, HandlerTurn(c)
  PROVE  ControlTyped' /\ SubscribersKnown' /\ FlightsWanted'
<1>1. /\ at' \in [Clients -> Places] /\ \A d \in Clients \ {c} : at'[d] = at[d]
      /\ UNCHANGED <<flying, got, dispatched>>
  BY HandlerEffect DEF eventVars
<1>2. \A e \in flying : e.to \in Clients /\ e.confirmed \in Nat
  BY DEF ControlTyped, Flights
<1>3. CASE Stays(c)
  <2>1. ControlTyped'
    BY <1>1, <1>3 DEF ControlTyped, Stays
  <2>2. SubscribersKnown'
    BY <1>1, <1>3 DEF SubscribersKnown, Stays, Steady, ControlTyped
  <2>3. FlightsWanted'
    BY <1>1, <1>2, <1>3 DEF FlightsWanted, Stays, Steady
  <2>4. QED
    BY <2>1, <2>2, <2>3
<1>4. CASE Asks(c)
  <2>1. ControlTyped'
    BY <1>1, <1>4 DEF ControlTyped, Asks
  <2>2. SubscribersKnown'
    BY <1>1, <1>4 DEF SubscribersKnown, Asks, Steady, ControlTyped
  <2>3. FlightsWanted'
    BY <1>1, <1>2, <1>4 DEF FlightsWanted, Asks, Steady
  <2>4. QED
    BY <2>1, <2>2, <2>3
<1>5. CASE Confirms(c)
  <2>1. confirmed' \in [Clients -> Nat] /\ confirmed'[c] = confirmed[c] + 1
        /\ \A d \in Clients \ {c} : confirmed'[d] = confirmed[d]
    BY <1>5 DEF ControlTyped, Confirms
  <2>2. ControlTyped'
    BY <1>1, <1>5, <2>1 DEF ControlTyped, Confirms
  <2>3. SubscribersKnown'
    BY <1>1, <1>5 DEF SubscribersKnown, Confirms, Steady, ControlTyped
  <2>4. confirmed[c] \in Nat
    BY DEF ControlTyped
  <2>5. FlightsWanted'
    BY <1>1, <1>2, <1>5, <2>1, <2>4 DEF FlightsWanted, Confirms, Steady
  <2>6. QED
    BY <2>2, <2>3, <2>5
<1>6. CASE Subscribe(c)
  <2>1. /\ at[c] = "subscribe" /\ at'[c] = "confirm"
        /\ UNCHANGED <<wanted, confirmed>>
    BY <1>6 DEF Subscribe, Go, ControlTyped
  <2>2. /\ DOMAIN subscribers' = DOMAIN subscribers \cup {c}
        /\ subscribers'[c] = wanted[c]
        /\ \A d \in DOMAIN subscribers \ {c} : subscribers'[d] = subscribers[d]
    BY <1>6 DEF Subscribe, Subscribed
  <2>3. ControlTyped'
    BY <1>1, <2>1, <2>2 DEF ControlTyped
  <2>4. SubscribersKnown'
    BY <1>1, <2>1, <2>2 DEF SubscribersKnown, Steady, ControlTyped
  <2>5. FlightsWanted'
    BY <1>1, <1>2, <2>1 DEF FlightsWanted, Steady
  <2>6. QED
    BY <2>3, <2>4, <2>5
<1>7. CASE Unsubscribe(c)
  <2>1. /\ at[c] = "unsubscribe" /\ at'[c] = "unregister"
        /\ UNCHANGED <<wanted, confirmed>>
    BY <1>7 DEF Unsubscribe, Go, ControlTyped
  <2>2. /\ DOMAIN subscribers' = DOMAIN subscribers \ {c}
        /\ \A d \in DOMAIN subscribers \ {c} : subscribers'[d] = subscribers[d]
    BY <1>7 DEF Unsubscribe
  <2>3. ControlTyped'
    BY <1>1, <2>1, <2>2 DEF ControlTyped
  <2>4. SubscribersKnown'
    BY <1>1, <2>1, <2>2 DEF SubscribersKnown, Steady, ControlTyped
  <2>5. FlightsWanted'
    BY <1>1, <1>2, <2>1 DEF FlightsWanted, Steady
  <2>6. QED
    BY <2>3, <2>4, <2>5
<1>8. QED
  BY <1>3, <1>4, <1>5, <1>6, <1>7, HandlerEffect

(* An event goes to its subscribers, behind what is under way to each.     *)
LEMMA DispatchEffect ==
  ASSUME ControlTyped, NEW type \in Events, Dispatch(type)
  PROVE  /\ dispatched' = dispatched + 1 /\ got' = got /\ flying \subseteq flying'
         /\ UNCHANGED <<at, wanted, subscribers, confirmed>>
         /\ flying' \subseteq Flights
         /\ \A e \in flying' \ flying :
              /\ e.to \in DOMAIN subscribers /\ type \in subscribers[e.to] /\ e.type = type
              /\ e.n = dispatched + 1 /\ e.confirmed = confirmed[e.to]
              /\ \A g \in flying : g.to = e.to => g.n \in e.behind
         /\ \A e, f \in flying' \ flying : e.to = f.to => e = f
<1> DEFINE Behind(c) == {e.n : e \in {f \in flying : f.to = c}}
           New(c) == [to |-> c, type |-> type, n |-> dispatched + 1, confirmed |-> confirmed[c],
                      behind |-> Behind(c)]
           To == {d \in DOMAIN subscribers : type \in subscribers[d]}
<1>1. /\ dispatched' = dispatched + 1 /\ got' = got
      /\ UNCHANGED <<at, wanted, subscribers, confirmed>>
      /\ flying' = flying \cup {New(c) : c \in To}
  BY DEF Dispatch, EventOnly
<1>2. \A c \in To : Behind(c) \in SUBSET Nat
  BY DEF ControlTyped, Flights
<1>3. \A c \in To : c \in Clients /\ confirmed[c] \in Nat /\ dispatched + 1 \in Nat
  BY DEF ControlTyped
<1>4. \A g \in flying : g.n \in Behind(g.to)
  OBVIOUS
<1> HIDE DEF Behind
<1>5. \A c \in To : New(c) \in Flights
  BY <1>2, <1>3 DEF Flights
<1>6. \A c \in To : /\ New(c).to = c /\ New(c).type = type /\ New(c).n = dispatched + 1
                    /\ New(c).confirmed = confirmed[c] /\ New(c).behind = Behind(c)
  OBVIOUS
<1>7. \A c \in To : c \in DOMAIN subscribers /\ type \in subscribers[c]
  OBVIOUS
<1> HIDE DEF New, To
<1>8. flying \subseteq flying' /\ flying' \subseteq Flights
  BY <1>1, <1>5 DEF ControlTyped
<1>9. ASSUME NEW e \in flying' \ flying
      PROVE  /\ e.to \in DOMAIN subscribers /\ type \in subscribers[e.to] /\ e.type = type
             /\ e.n = dispatched + 1 /\ e.confirmed = confirmed[e.to]
             /\ \A g \in flying : g.to = e.to => g.n \in e.behind
             /\ e = New(e.to)
  <2>1. PICK c \in To : e = New(c)
    BY <1>1
  <2>2. QED
    BY <1>4, <1>6, <1>7, <2>1
<1>10. \A e, f \in flying' \ flying : e.to = f.to => e = f
  BY <1>9
<1>11. QED
  BY <1>1, <1>8, <1>9, <1>10

(* An event that is dispatched is later than all before it and goes to     *)
(* those that want it.                                                     *)
LEMMA DispatchKeeps ==
  ASSUME EventsInv, NEW type \in Events, Dispatch(type)
  PROVE  EventsInv'
<1> USE DEF EventsInv
<1>1. /\ dispatched' = dispatched + 1 /\ got' = got /\ flying \subseteq flying'
      /\ UNCHANGED <<at, wanted, subscribers, confirmed>>
      /\ flying' \subseteq Flights
  BY DispatchEffect
<1>2. \A e \in flying' \ flying :
        /\ e.to \in DOMAIN subscribers /\ type \in subscribers[e.to] /\ e.type = type
        /\ e.n = dispatched + 1 /\ e.confirmed = confirmed[e.to]
        /\ \A g \in flying : g.to = e.to => g.n \in e.behind
  BY DispatchEffect
<1>3. \A e, f \in flying' \ flying : e.to = f.to => e = f
  BY DispatchEffect
<1>4. \A e \in flying' : e.to \in Clients /\ e.n \in Nat /\ e.confirmed \in Nat
  BY <1>1 DEF Flights
<1>5. dispatched \in Nat /\ \A c \in DOMAIN subscribers : confirmed[c] \in Nat /\ c \in Clients
  BY DEF ControlTyped
<1>6. ControlTyped'
  BY <1>1, <1>5 DEF ControlTyped
<1>7. SubscribersKnown'
  BY <1>1 DEF SubscribersKnown
<1>8. FlightsWanted'
  <2> SUFFICES ASSUME NEW e \in flying'
               PROVE  /\ at[e.to] \notin {"none", "accepted"}
                      /\ e.confirmed <= confirmed[e.to]
                      /\ at[e.to] \in Steady /\ e.confirmed = confirmed[e.to] => e.type \in wanted[e.to]
    BY <1>1 DEF FlightsWanted
  <2>1. CASE e \in flying
    BY <2>1 DEF FlightsWanted
  <2>2. CASE e \notin flying
    BY <1>2, <1>5, <2>2 DEF SubscribersKnown
  <2>3. QED
    BY <2>1, <2>2
<1>9. InTurn'
  <2>1. \A e \in flying : e.n <= dispatched
    BY DEF InTurn
  <2>2. \A e \in flying' : e.n <= dispatched + 1
    BY <1>2, <1>4, <1>5, <2>1
  <2>3. ASSUME NEW e \in flying', NEW f \in flying', e.to = f.to
        PROVE  /\ e.n = f.n => e = f
               /\ e.n < f.n => e.n \in f.behind
    <3>1. CASE e \in flying /\ f \in flying
      BY <2>3, <3>1 DEF InTurn
    <3>2. CASE e \notin flying /\ f \notin flying
      BY <1>2, <1>3, <1>4, <2>3, <3>2
    <3>3. CASE e \in flying /\ f \notin flying
      <4>1. e.n # f.n
        BY <1>1, <1>2, <1>4, <1>5, <2>1, <3>3
      <4>2. e.n \in f.behind
        BY <1>2, <2>3, <3>3
      <4>3. QED
        BY <4>1, <4>2
    <3>4. CASE e \notin flying /\ f \in flying
      BY <1>1, <1>2, <1>4, <1>5, <2>1, <3>4
    <3>5. QED
      BY <3>1, <3>2, <3>3, <3>4
  <2>4. ASSUME NEW c \in Clients, NEW i \in DOMAIN got[c]
        PROVE  got[c][i].n <= dispatched /\ got[c][i].n \in Nat
    <3>1. got[c] \in Seq(Received)
      BY DEF ControlTyped
    <3>2. got[c][i] \in Received
      BY <3>1
    <3>3. QED
      BY <3>2 DEF InTurn, Received
  <2>5. \A c \in Clients : \A i \in DOMAIN got[c] : got[c][i].n <= dispatched + 1
    BY <1>5, <2>4
  <2>6. ASSUME NEW e \in flying', NEW i \in DOMAIN got[e.to]
        PROVE  Precedes(got[e.to][i], e)
    <3>1. CASE e \in flying
      BY <2>6, <3>1 DEF InTurn
    <3>2. CASE e \notin flying
      BY <1>2, <1>4, <1>5, <2>4, <2>6, <3>2 DEF Precedes
    <3>3. QED
      BY <3>1, <3>2
  <2>7. \A c \in Clients : \A j \in DOMAIN got[c] : \A i \in 1 .. j - 1 : Precedes(got[c][i], got[c][j])
    BY DEF InTurn
  <2>8. QED
    BY <1>1, <2>2, <2>3, <2>5, <2>6, <2>7 DEF InTurn
<1>10. QED
  BY <1>6, <1>7, <1>8, <1>9

(* An event that is written follows those it was behind, or was not.       *)
LEMMA WriteKeeps ==
  ASSUME EventsInv, NEW e \in flying, WriteEvent(e)
  PROVE  EventsInv'
<1> USE DEF EventsInv
<1> DEFINE c == e.to
           mark == [n |-> e.n, behind |-> e.behind]
<1>1. /\ flying' = flying \ {e} /\ UNCHANGED <<dispatched, at, wanted, subscribers, confirmed>>
      /\ got' = got \/ got' = [got EXCEPT ![c] = Append(@, mark)]
  BY DEF WriteEvent, EventOnly
<1>2. c \in Clients /\ mark \in Received /\ e.n \in Nat
  BY DEF ControlTyped, Flights, Received
<1>3. SubscribersKnown' /\ FlightsWanted'
  BY <1>1 DEF SubscribersKnown, FlightsWanted
<1>4. CASE got' = got
  <2>1. ControlTyped'
    BY <1>1, <1>4 DEF ControlTyped
  <2>2. InTurn'
    BY <1>1, <1>4 DEF InTurn
  <2>3. QED
    BY <1>3, <2>1, <2>2
<1>5. CASE got' = [got EXCEPT ![c] = Append(@, mark)]
  <2>1. got[c] \in Seq(Received)
    BY <1>2 DEF ControlTyped
  <2> DEFINE k == Len(got[c]) + 1
  <2>2. /\ got'[c] \in Seq(Received) /\ DOMAIN got[c] = 1 .. k - 1 /\ DOMAIN got'[c] = 1 .. k
        /\ got'[c][k] = mark /\ \A i \in 1 .. k - 1 : got'[c][i] = got[c][i]
        /\ k \in Nat
    <3> HIDE DEF mark
    <3>1. got'[c] = Append(got[c], mark)
      BY <1>2, <1>5 DEF ControlTyped
    <3>2. QED
      BY <1>2, <2>1, <3>1
  <2>3. \A d \in Clients \ {c} : got'[d] = got[d]
    BY <1>5 DEF ControlTyped
  <2>4. got' \in [Clients -> Seq(Received)]
    <3> HIDE DEF c, mark
    <3>1. DOMAIN got' = Clients /\ \A d \in Clients : got'[d] \in Seq(Received)
      BY <1>5, <2>2, <2>3 DEF ControlTyped
    <3>2. got' = [d \in Clients |-> got'[d]]
      BY <1>5, <3>1 DEF ControlTyped
    <3>3. QED
      BY <3>1, <3>2
  <2>5. ControlTyped'
    BY <1>1, <2>4 DEF ControlTyped
  <2>6. mark.n = e.n /\ mark.behind = e.behind
    OBVIOUS
  <2>7. \A f \in flying : f.n \in Nat /\ f.to \in Clients
    BY DEF ControlTyped, Flights
  <2> HIDE DEF k, c, mark
  <2>8. /\ \A f \in flying' : f.n <= dispatched'
        /\ \A f, g \in flying' : f.to = g.to /\ f.n = g.n => f = g
        /\ \A f, g \in flying' : f.to = g.to /\ f.n < g.n => f.n \in g.behind
    BY <1>1 DEF InTurn
  <2>9. \A d \in Clients : \A i \in DOMAIN got'[d] : got'[d][i].n <= dispatched'
    <3> SUFFICES ASSUME NEW d \in Clients, NEW i \in DOMAIN got'[d]
                 PROVE  got'[d][i].n <= dispatched
      BY <1>1
    <3>1. CASE d # c
      BY <2>3, <3>1 DEF InTurn
    <3>2. CASE d = c /\ i = k
      BY <2>2, <2>6, <3>2 DEF InTurn
    <3>3. CASE d = c /\ i # k
      <4>1. i \in DOMAIN got[c] /\ got'[c][i] = got[c][i]
        BY <2>2, <3>3
      <4>2. QED
        BY <1>2, <3>3, <4>1 DEF InTurn
    <3>4. QED
      BY <3>1, <3>2, <3>3
  <2>10. \A f \in flying' : \A i \in DOMAIN got'[f.to] : Precedes(got'[f.to][i], f)
    <3> SUFFICES ASSUME NEW f \in flying', NEW i \in DOMAIN got'[f.to]
                 PROVE  Precedes(got'[f.to][i], f)
      OBVIOUS
    <3>1. f \in flying /\ f # e
      BY <1>1
    <3>2. CASE f.to # c
      BY <2>3, <2>7, <3>1, <3>2 DEF InTurn
    <3>3. CASE f.to = c /\ i = k
      <4>1. f.n # e.n
        BY <3>1, <3>3 DEF InTurn, c
      <4>2. f.n < e.n => f.n \in e.behind
        BY <3>1, <3>3 DEF InTurn, c
      <4>3. QED
        BY <1>2, <2>2, <2>6, <2>7, <3>1, <3>3, <4>1, <4>2 DEF Precedes
    <3>4. CASE f.to = c /\ i # k
      <4>1. i \in DOMAIN got[c] /\ got'[c][i] = got[c][i]
        BY <2>2, <3>4
      <4>2. QED
        BY <3>1, <3>4, <4>1 DEF InTurn
    <3>5. QED
      BY <3>2, <3>3, <3>4
  <2>11. \A d \in Clients : \A j \in DOMAIN got'[d] : \A i \in 1 .. j - 1 :
           Precedes(got'[d][i], got'[d][j])
    <3> SUFFICES ASSUME NEW d \in Clients, NEW j \in DOMAIN got'[d], NEW i \in 1 .. j - 1
                 PROVE  Precedes(got'[d][i], got'[d][j])
      OBVIOUS
    <3>1. CASE d # c
      BY <2>3, <3>1 DEF InTurn
    <3>2. CASE d = c /\ j = k
      <4>1. i \in DOMAIN got[c] /\ got'[c][i] = got[c][i]
        BY <2>2, <3>2
      <4>2. Precedes(got[c][i], e)
        BY <4>1 DEF InTurn, c
      <4>3. QED
        BY <2>2, <2>6, <3>2, <4>1, <4>2 DEF Precedes
    <3>3. CASE d = c /\ j # k
      <4>1. /\ j \in DOMAIN got[c] /\ i \in 1 .. k - 1
            /\ got'[c][j] = got[c][j] /\ got'[c][i] = got[c][i]
        BY <2>2, <3>3
      <4>2. QED
        BY <1>2, <3>3, <4>1 DEF InTurn
    <3>4. QED
      BY <3>1, <3>2, <3>3
  <2>12. InTurn'
    BY <2>8, <2>9, <2>10, <2>11 DEF InTurn
  <2>13. QED
    BY <1>3, <2>5, <2>12
<1>6. QED
  BY <1>1, <1>4, <1>5

(* No event is written twice, a later one is written before an earlier one *)
(* only if both were under way together, one that the connection has not   *)
(* asked for can only be on its way since before the latest SETEVENTS was  *)
(* confirmed, and a handler that is gone has no subscription, for any      *)
(* number of clients, types of events, commands and events                 *)
(* (control.go:152-215, 367-391, events.go:243-291).                       *)
THEOREM EventsStayAsSubscribed == ControlSpec => []EventsAsSubscribed
<1>1. EventsInv /\ [ControlNext]_controlVars => EventsInv'
  <2> SUFFICES ASSUME EventsInv, [ControlNext]_controlVars PROVE EventsInv'
    OBVIOUS
  <2>1. CASE AcceptEnds \/ Cancel \/ StopStep \/ UNCHANGED controlVars
           \/ \E c \in Clients : ClientTurns(c)
    <3>1. UNCHANGED <<at, wanted, subscribers, flying, got, dispatched, confirmed>>
      BY <2>1 DEF AcceptEnds, Cancel, StopStep, CloseListener, CloseConns, StopReturns, StopOnly,
           ClientTurns, ClientOnly, controlVars, eventVars
    <3>2. QED
      BY <3>1 DEF EventsInv, ControlTyped, SubscribersKnown, FlightsWanted, InTurn
  <2>2. ASSUME NEW c \in Clients, HandlerTurn(c)
        PROVE  EventsInv'
    <3>1. UNCHANGED <<flying, got, dispatched>>
      BY <2>2, HandlerEffect DEF EventsInv, eventVars
    <3>2. InTurn'
      BY <3>1 DEF EventsInv, InTurn
    <3>3. QED
      BY <2>2, <3>2, HandlerKeeps DEF EventsInv
  <2>3. QED
    BY <2>1, <2>2, DispatchKeeps, WriteKeeps DEF ControlNext, HandlerTurn
<1>2. EventsInv => EventsAsSubscribed
  <2> SUFFICES ASSUME EventsInv PROVE EventsAsSubscribed
    OBVIOUS
  <2>1. \A c \in Clients : \A j \in DOMAIN got[c] : \A i \in 1 .. j - 1 :
          got[c][i].n < got[c][j].n \/ got[c][j].n \in got[c][i].behind
    BY DEF EventsInv, InTurn, Precedes
  <2>2. \A c \in Clients : at[c] \in {"none", "unregister", "gone"} => c \notin DOMAIN subscribers
    BY DEF EventsInv, SubscribersKnown
  <2>3. \A e \in flying :
          at[e.to] \in {"loop", "read", "reply"} /\ e.confirmed = confirmed[e.to] => e.type \in wanted[e.to]
    BY DEF EventsInv, FlightsWanted, Steady
  <2>4. QED
    BY <2>1, <2>2, <2>3 DEF EventsAsSubscribed
<1>3. QED
  BY <1>1, <1>2, ControlInitInv, PTL DEF ControlSpec
=============================================================================
