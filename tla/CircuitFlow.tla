---------------------------- MODULE CircuitFlow ----------------------------
(***************************************************************************)
(* Circuit-level flow control of pkg/circuit/circuit.go.                   *)
(*                                                                         *)
(* A Circuit keeps a package window (DATA cells it may still send) and a   *)
(* deliver window (DATA cells its peer may still send).  SendRelayCell is  *)
(* called by any number of goroutines and takes its window credit, reads   *)
(* the circuit's state and writes to the connection in three separately    *)
(* locked steps.  DeliverRelayCell is called by the one goroutine that     *)
(* reads the connection; it counts a DATA cell, then looks at the count    *)
(* under another lock, and starts a goroutine for each SENDME.             *)
(*                                                                         *)
(* The peer follows tor-spec section 7.4: it sends DATA only while its own *)
(* package window is open and acknowledges every Increment DATA cells.     *)
(* How long the network delays a cell is left open: a cell that has been   *)
(* sent is delivered at any later time or never.                           *)
(***************************************************************************)
EXTENDS Integers, FiniteSets

CONSTANTS
  Senders,       (* goroutines that call SendRelayCell with DATA cells     *)
  InitWindow,    (* 1000 in NewCircuit                                     *)
  Increment,     (* 100, the credit of one SENDME                          *)
  QueueCap,      (* 32, capacity of relayReceiveChan                       *)
  MaxOut,        (* bound: DATA cells the senders start                    *)
  MaxIn          (* bound: DATA cells the peer sends                       *)

ASSUME WindowAssumption ==
  /\ IsFiniteSet(Senders)
  /\ InitWindow \in Nat
  /\ Increment \in Nat \ {0}
  /\ Increment <= InitWindow

ASSUME BoundAssumption ==
  /\ QueueCap \in Nat \ {0}
  /\ MaxOut \in Nat
  /\ MaxIn \in Nat

VARIABLES
  state,           (* Circuit.State                                        *)
  conn,            (* Circuit.conn # nil                                   *)
  packageWindow,   (* Circuit.packageWindow                                *)
  deliverWindow,   (* Circuit.deliverWindow                                *)
  sendmeReceived,  (* Circuit.sendmeReceived: DATA cells since the last reset *)
  sendmeSent,      (* Circuit.sendmeSent                                   *)
  queued,          (* cells in relayReceiveChan                            *)
  sender,          (* where each caller of SendRelayCell is                *)
  reader,          (* where DeliverRelayCell is                            *)
  armed,           (* SENDME goroutines started, not yet in their lock     *)
  credited,        (* SENDME goroutines past the lock, state not yet read  *)
  sending,         (* SENDME goroutines that found the circuit open        *)
  dataSent,        (* DATA cells handed to the connection                  *)
  wasted,          (* credits taken by a SendRelayCell that then failed    *)
  sendmeIn,        (* circuit SENDMEs delivered to this circuit            *)
  peerSendmes,     (* circuit SENDMEs the peer has sent                    *)
  peerData,        (* DATA cells the peer has sent                         *)
  dataIn,          (* DATA cells counted against the deliver window        *)
  sendmeWired,     (* circuit SENDMEs handed to the connection             *)
  sendmeLost,      (* SENDMEs credited here whose SendRelayCell failed     *)
  overtaken        (* resets of the count between a cell's count and check *)

circuitVars == <<state, conn>>
outVars     == <<packageWindow, sender, dataSent, wasted, sendmeIn, peerSendmes>>
countVars   == <<deliverWindow, sendmeReceived, sendmeSent, dataIn, overtaken>>
sendmeVars  == <<armed, credited, sending, sendmeWired, sendmeLost>>
readVars    == <<reader, queued>>
vars == <<circuitVars, outVars, countVars, sendmeVars, readVars, peerData>>

States == {"BUILDING", "OPEN", "CLOSED", "FAILED"}

TypeOK ==
  /\ state \in States
  /\ conn \in BOOLEAN
  /\ packageWindow \in Nat
  /\ deliverWindow \in Nat
  /\ sendmeReceived \in Nat
  /\ sendmeSent \in Nat
  /\ queued \in 0 .. QueueCap
  /\ sender \in [Senders -> {"idle", "credited", "checked"}]
  /\ reader \in {"idle", "check", "push"}
  /\ armed \in Nat
  /\ credited \in Nat
  /\ sending \in Nat
  /\ dataSent \in Nat
  /\ wasted \in Nat
  /\ sendmeIn \in Nat
  /\ peerSendmes \in Nat
  /\ peerData \in Nat
  /\ dataIn \in Nat
  /\ sendmeWired \in Nat
  /\ sendmeLost \in Nat
  /\ overtaken \in Nat

Init ==
  /\ state = "BUILDING"
  /\ conn = FALSE
  /\ packageWindow = InitWindow
  /\ deliverWindow = InitWindow
  /\ sendmeReceived = 0
  /\ sendmeSent = 0
  /\ queued = 0
  /\ sender = [s \in Senders |-> "idle"]
  /\ reader = "idle"
  /\ armed = 0 /\ credited = 0 /\ sending = 0
  /\ dataSent = 0 /\ wasted = 0 /\ sendmeIn = 0
  /\ peerSendmes = 0 /\ peerData = 0 /\ dataIn = 0
  /\ sendmeWired = 0 /\ sendmeLost = 0 /\ overtaken = 0

-----------------------------------------------------------------------------
(* Life cycle, as the builder and the manager drive it.  SetState itself   *)
(* checks nothing: a builder that outlives a close reopens the circuit.    *)

SetState(s) ==
  /\ \/ state = "BUILDING" /\ s \in {"OPEN", "FAILED"}
     \/ state = "CLOSED" /\ s = "OPEN"
     \/ state # "CLOSED" /\ s = "CLOSED"
  /\ state' = s
  /\ UNCHANGED <<conn, outVars, countVars, sendmeVars, readVars, peerData>>

SetConnection ==
  /\ ~conn
  /\ conn' = TRUE
  /\ UNCHANGED <<state, outVars, countVars, sendmeVars, readVars, peerData>>

-----------------------------------------------------------------------------
(* SendRelayCell with a DATA cell.                                         *)

DataStarted == InitWindow + sendmeIn * Increment - packageWindow

(* Mutant: the window is not checked before it is decremented.             *)
decrementUnchecked(s) ==
  /\ sender[s] = "idle"
  /\ DataStarted < MaxOut
  /\ packageWindow' = packageWindow - 1
  /\ sender' = [sender EXCEPT ![s] = "credited"]
  /\ UNCHANGED <<dataSent, wasted, sendmeIn, peerSendmes, circuitVars,
                 countVars, sendmeVars, readVars, peerData>>

decrementPackageWindow(s) ==
  /\ sender[s] = "idle"
  /\ packageWindow > 0
  /\ DataStarted < MaxOut
  /\ packageWindow' = packageWindow - 1
  /\ sender' = [sender EXCEPT ![s] = "credited"]
  /\ UNCHANGED <<dataSent, wasted, sendmeIn, peerSendmes, circuitVars,
                 countVars, sendmeVars, readVars, peerData>>

CheckOpen(s) ==
  /\ sender[s] = "credited"
  /\ IF state = "OPEN" /\ conn
       THEN /\ sender' = [sender EXCEPT ![s] = "checked"]
            /\ UNCHANGED wasted
       ELSE /\ sender' = [sender EXCEPT ![s] = "idle"]
            /\ wasted' = wasted + 1
  /\ UNCHANGED <<packageWindow, dataSent, sendmeIn, peerSendmes, circuitVars,
                 countVars, sendmeVars, readVars, peerData>>

SendCell(s) ==
  /\ sender[s] = "checked"
  /\ sender' = [sender EXCEPT ![s] = "idle"]
  /\ \/ dataSent' = dataSent + 1 /\ UNCHANGED wasted
     \/ wasted' = wasted + 1 /\ UNCHANGED dataSent
  /\ UNCHANGED <<packageWindow, sendmeIn, peerSendmes, circuitVars,
                 countVars, sendmeVars, readVars, peerData>>

-----------------------------------------------------------------------------
(* The goroutine of sendCircuitSendme: reset and credit under one lock,    *)
(* then SendRelayCell with the SENDME.                                     *)

(* Mutant: the count is reset but the window is not credited.              *)
ResetWithoutCredit ==
  /\ armed > 0
  /\ armed' = armed - 1
  /\ credited' = credited + 1
  /\ sendmeReceived' = 0
  /\ sendmeSent' = sendmeSent + 1
  /\ UNCHANGED <<deliverWindow, overtaken, dataIn, sending, sendmeWired,
                 sendmeLost, circuitVars, outVars, readVars, peerData>>

CreditSendme ==
  /\ armed > 0
  /\ armed' = armed - 1
  /\ credited' = credited + 1
  /\ sendmeReceived' = 0
  /\ sendmeSent' = sendmeSent + 1
  /\ deliverWindow' = deliverWindow + Increment
  /\ overtaken' = IF reader = "check" /\ sendmeReceived >= Increment
                    THEN overtaken + 1 ELSE overtaken
  /\ UNCHANGED <<dataIn, sending, sendmeWired, sendmeLost, circuitVars,
                 outVars, readVars, peerData>>

CheckOpenSendme ==
  /\ credited > 0
  /\ credited' = credited - 1
  /\ IF state = "OPEN" /\ conn
       THEN sending' = sending + 1 /\ UNCHANGED sendmeLost
       ELSE sendmeLost' = sendmeLost + 1 /\ UNCHANGED sending
  /\ UNCHANGED <<armed, sendmeWired, circuitVars, outVars, countVars,
                 readVars, peerData>>

WireSendme ==
  /\ sending > 0
  /\ sending' = sending - 1
  /\ sendmeWired' = sendmeWired + 1
  /\ UNCHANGED <<armed, credited, sendmeLost, circuitVars, outVars,
                 countVars, readVars, peerData>>

FailSendme ==
  /\ sending > 0
  /\ sending' = sending - 1
  /\ sendmeLost' = sendmeLost + 1
  /\ UNCHANGED <<armed, credited, sendmeWired, circuitVars, outVars,
                 countVars, readVars, peerData>>

-----------------------------------------------------------------------------
(* DeliverRelayCell with a cell that passed the replay and digest checks.  *)

decrementDeliverWindow ==
  /\ deliverWindow > 0
  /\ deliverWindow' = deliverWindow - 1
  /\ sendmeReceived' = sendmeReceived + 1

DeliverData ==
  /\ reader = "idle"
  /\ dataIn < peerData
  /\ decrementDeliverWindow
  /\ dataIn' = dataIn + 1
  /\ reader' = "check"
  /\ UNCHANGED <<sendmeSent, overtaken, queued, circuitVars, outVars,
                 sendmeVars, peerData>>

(* Mutants: the count is compared with the window; the comparison is       *)
(* strict.                                                                 *)
countReachesWindow == sendmeReceived >= InitWindow
countExceeds == sendmeReceived > Increment

shouldSendCircuitSendme == sendmeReceived >= Increment

CheckSendme ==
  /\ reader = "check"
  /\ reader' = "push"
  /\ armed' = IF shouldSendCircuitSendme THEN armed + 1 ELSE armed
  /\ UNCHANGED <<queued, credited, sending, sendmeWired, sendmeLost,
                 circuitVars, outVars, countVars, peerData>>

(* Mutants: the window is refilled instead of credited; a window that has  *)
(* reached 0 stays closed.                                                 *)
refillPackageWindow == packageWindow' = InitWindow
creditOpenWindow ==
  packageWindow' = IF packageWindow > 0 THEN packageWindow + Increment ELSE 0

incrementPackageWindow == packageWindow' = packageWindow + Increment

DeliverSendme ==
  /\ reader = "idle"
  /\ sendmeIn < peerSendmes
  /\ sendmeIn' = sendmeIn + 1
  /\ incrementPackageWindow
  /\ UNCHANGED <<sender, dataSent, wasted, peerSendmes, circuitVars,
                 countVars, sendmeVars, readVars, peerData>>

(* A full queue loses the cell after 100 ms; its window credit stays spent *)
(* and counted.                                                            *)
PushCell ==
  /\ reader = "push"
  /\ reader' = "idle"
  /\ queued' = IF queued < QueueCap THEN queued + 1 ELSE queued
  /\ UNCHANGED <<circuitVars, outVars, countVars, sendmeVars, peerData>>

ReceiveRelayCell ==
  /\ queued > 0
  /\ queued' = queued - 1
  /\ UNCHANGED <<reader, circuitVars, outVars, countVars, sendmeVars, peerData>>

-----------------------------------------------------------------------------
(* The peer at the other end of the circuit.                               *)

peerWindow == InitWindow + sendmeWired * Increment - peerData

PeerSendData ==
  /\ state # "BUILDING"
  /\ peerWindow > 0
  /\ peerData < MaxIn
  /\ peerData' = peerData + 1
  /\ UNCHANGED <<circuitVars, outVars, countVars, sendmeVars, readVars>>

PeerSendSendme ==
  /\ (peerSendmes + 1) * Increment <= dataSent
  /\ peerSendmes' = peerSendmes + 1
  /\ UNCHANGED <<packageWindow, sender, dataSent, wasted, sendmeIn,
                 circuitVars, countVars, sendmeVars, readVars, peerData>>

-----------------------------------------------------------------------------
SendRelayCell(s) == decrementPackageWindow(s) \/ CheckOpen(s) \/ SendCell(s)

sendCircuitSendme == CreditSendme \/ CheckOpenSendme \/ WireSendme \/ FailSendme

DeliverRelayCell == DeliverData \/ CheckSendme \/ DeliverSendme \/ PushCell

Next ==
  \/ \E s \in States : SetState(s)
  \/ SetConnection
  \/ \E s \in Senders : SendRelayCell(s)
  \/ sendCircuitSendme
  \/ DeliverRelayCell
  \/ ReceiveRelayCell
  \/ PeerSendData
  \/ PeerSendSendme

Spec == Init /\ [][Next]_vars

(* Go runs every goroutine that is ready; the connection's reader and the  *)
(* peer keep reading.  Nothing obliges a caller to start a send, a cell to *)
(* fail, or the circuit to change state.                                   *)
Fairness ==
  /\ \A s \in Senders : WF_vars(CheckOpen(s)) /\ WF_vars(SendCell(s))
  /\ WF_vars(CreditSendme) /\ WF_vars(CheckOpenSendme)
  /\ WF_vars(WireSendme \/ FailSendme)
  /\ WF_vars(DeliverData) /\ WF_vars(CheckSendme) /\ WF_vars(PushCell)
  /\ WF_vars(DeliverSendme)
  /\ WF_vars(PeerSendSendme)

FairSpec == Spec /\ Fairness
-----------------------------------------------------------------------------
(* Properties.                                                             *)

InFlight == {s \in Senders : sender[s] # "idle"}

(* Every package credit the circuit was ever given is in the window, in    *)
(* the hands of one SendRelayCell call, spent on a DATA cell that reached  *)
(* the connection, or wasted by a call that failed after taking it; two    *)
(* concurrent senders never take the same credit.                          *)
PackageCreditsConserved ==
  packageWindow + Cardinality(InFlight) + dataSent + wasted
    = InitWindow + Increment * sendmeIn

(* Whatever the senders race on, the circuit never has more unacknowledged *)
(* DATA cells outstanding than the window tor-spec 7.4 allows it.          *)
NeverOverrunsPeer == dataSent <= InitWindow + Increment * sendmeIn

(* decrementDeliverWindow never refuses a DATA cell of a peer that         *)
(* respects the SENDMEs it has received: a credit is added to the deliver  *)
(* window before the SENDME that announces it can reach the peer.          *)
NoConformingCellRefused == dataIn < peerData => deliverWindow > 0

(* An exhausted deliver window is always about to be reopened: a SENDME    *)
(* goroutine is waiting to run, or DeliverRelayCell is about to start one. *)
(* sendCircuitSendme resets the count to 0 instead of subtracting 100 and  *)
(* so forgets cells, and this is what keeps the loss from stalling the     *)
(* circuit for good.                                                       *)
NoStall ==
  deliverWindow = 0 =>
    \/ armed > 0
    \/ reader = "check" /\ shouldSendCircuitSendme

(* The deliver window only ever loses credit to one race, a reset between  *)
(* the count of a cell and the check of the count: apart from cells that   *)
(* wait for their SENDME, each such reset costs at most one credit.        *)
CreditFloor ==
  LET waiting == IF sendmeReceived < Increment THEN sendmeReceived ELSE Increment - 1
      pending == IF reader = "check" /\ shouldSendCircuitSendme THEN 1 ELSE 0
  IN  deliverWindow + armed + waiting + pending + overtaken >= InitWindow

(* A sender that finds the package window exhausted does not wait for      *)
(* ever: while the circuit stays open and no send fails, the peer's SENDME *)
(* reopens the window.                                                     *)
PackageWindowReopens ==
  packageWindow = 0 ~> (packageWindow > 0 \/ state # "OPEN" \/ wasted > 0)

(* A peer that has used up its window is given credit again, as long as    *)
(* the circuit stays open and its SENDMEs do not fail on the connection.   *)
PeerNotStarved ==
  (state = "OPEN" /\ conn /\ peerWindow = 0)
    ~> (peerWindow > 0 \/ state # "OPEN" \/ sendmeLost > 0)
=============================================================================
