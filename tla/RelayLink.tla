----------------------------- MODULE RelayLink ------------------------------
(***************************************************************************)
(* What one user, Client, does with the connection it holds: the link      *)
(* handshake (pkg/protocol), or a circuit over it (pkg/circuit): the       *)
(* requests of extension.go with their answers, and, once the circuit is   *)
(* open and its hops have their ciphers and digests, cells that several    *)
(* goroutines send and that the relay sends back.                          *)
(*                                                                         *)
(* A digest, a position of a keystream and a key are represented by the    *)
(* number of cells, or of the request, they stand for.  The hops of a      *)
(* circuit advance together.  Both ends begin with the same digests; that  *)
(* ProcessCreated2 and ProcessExtended2 throw the keys away, and a caller  *)
(* of SetCryptoState has to bring its own, is not modelled.                *)
(***************************************************************************)
EXTENDS ConnectionPool, FiniteSetsExt

CONSTANTS
  Client,
  Senders,         (* goroutines that call SendRelayCell                   *)
  MaxHandshakes, MaxRequests,
  MaxCells         (* bound: no send begins, and the relay sends nothing,  *)
                   (* after so many cells                                  *)

ASSUME LinkAssumption ==
  Client \in Users /\ MaxHandshakes \in Nat /\ MaxRequests \in Nat /\ MaxCells \in Nat

VARIABLES
  hs,          (* where PerformHandshake is                                *)
  handshakes,  (* calls of it                                              *)
  reader,      (* the goroutine of this call is in ReceiveCell             *)
  left,        (* how many that earlier calls have left there              *)
  inbox,       (* cells from the relay                                     *)
  handed,      (* the channel from the goroutine to the call               *)
  requests,    (* the calls of CreateFirstHop and ExtendCircuit            *)
  ephemeral,   (* Extension.ephemeralPrivate and the server's keys         *)
  keyed,       (* the answers that gave keys                               *)
  panicked,    (* a slice of an answer was out of range                    *)
  open,        (* Circuit.State is OPEN                                    *)
  relayFirst,  (* the relay's digest of a cell includes the cell           *)
  sending,     (* where each SendRelayCell is                              *)
  digest,      (* the digest it has read, then that of its cell            *)
  position,    (* the same of the place in the keystream                   *)
  digested,    (* cells written to the last hop's ForwardDigest            *)
  encrypted,   (* cells the forward ciphers have gone through              *)
  wire,        (* cells on the connection                                  *)
  delivered,   (* cells that DeliverRelayCell has decrypted                *)
  heard        (* those written to a hop's BackwardDigest                  *)

handshakeVars == <<hs, handshakes, reader, left, inbox, handed>>
extensionVars == <<requests, ephemeral, keyed, panicked>>
forwardVars   == <<sending, digest, position, digested, encrypted, wire>>
circuitVars   == <<open, relayFirst, forwardVars, delivered, heard>>
linkVars == <<handshakeVars, extensionVars, circuitVars>>
vars == <<connVars, userVars, poolVars, linkVars>>

NoEphemeral == [request |-> 0, keysKnown |-> FALSE]

LinkIdle ==
  /\ hs = "none" /\ handshakes = 0 /\ reader = FALSE /\ left = 0 /\ inbox = << >> /\ handed = << >>
  /\ requests = << >> /\ ephemeral = NoEphemeral /\ keyed = << >> /\ panicked = FALSE
  /\ open = FALSE /\ relayFirst = FALSE
  /\ sending = [s \in Senders |-> "idle"]
  /\ digest = [s \in Senders |-> 0] /\ position = [s \in Senders |-> 0]
  /\ digested = 0 /\ encrypted = 0 /\ wire = << >>
  /\ delivered = 0 /\ heard = 0

(* A connection of its own, a handshake and a circuit that begin.          *)
LinkAnew ==
  /\ hs' = "none" /\ handshakes' = 0 /\ reader' = FALSE /\ left' = 0 /\ inbox' = << >> /\ handed' = << >>
  /\ requests' = << >> /\ ephemeral' = NoEphemeral /\ keyed' = << >> /\ panicked' = FALSE
  /\ open' = FALSE /\ relayFirst' = FALSE
  /\ sending' = [s \in Senders |-> "idle"]
  /\ digest' = [s \in Senders |-> 0] /\ position' = [s \in Senders |-> 0]
  /\ digested' = 0 /\ encrypted' = 0 /\ wire' = << >>
  /\ delivered' = 0 /\ heard' = 0

Init == PoolInit /\ LinkIdle

Holding == at[Client] = "holding"
LinkOnly == UNCHANGED <<connVars, userVars, poolVars>>

-----------------------------------------------------------------------------
(* The link handshake.  VERSIONS has the number 7, so that both ends treat *)
(* it as a cell of fixed length.                                           *)

PayloadLen == 509
IsVariableLength(command) == command \in {"CERTS", "AUTH_CHALLENGE", "VPADDING"}

(* Encode at the relay and DecodeCell here.                                *)
Transmitted(cell) ==
  [cell EXCEPT !.length = IF IsVariableLength(cell.command) THEN @ ELSE PayloadLen]

VersionsCell(versions) ==
  [command |-> "VERSIONS", versions |-> versions, length |-> 2 * Cardinality(versions)]
CertsCell == [command |-> "CERTS", versions |-> {}, length |-> 3]

MinLinkProtocolVersion == 3
MaxLinkProtocolVersion == 5

SelectVersion(versions) ==
  Max({0} \cup (versions \cap (MinLinkProtocolVersion .. MaxLinkProtocolVersion)))

SendVersions ==
  /\ Holding /\ requests = << >> /\ ~open
  /\ hs \in {"none", "failed", "refused"}
  /\ handshakes < MaxHandshakes
  /\ handshakes' = handshakes + 1
  /\ handed' = << >>
  /\ \/ Usable(mine[Client]) /\ hs' = "versions" /\ reader' = TRUE
     \/ hs' = "failed" /\ UNCHANGED reader
  /\ UNCHANGED <<left, inbox, extensionVars, circuitVars>>
  /\ LinkOnly

RelayAnswers(cell) ==
  /\ hs # "none"
  /\ Len(inbox) + Len(handed) < handshakes
  /\ inbox' = Append(inbox, Transmitted(cell))
  /\ UNCHANGED <<hs, handshakes, reader, left, handed, extensionVars, circuitVars>>
  /\ LinkOnly

(* The goroutine of the call takes the next cell, or one that was left in  *)
(* ReceiveCell, whose channel nobody reads.                                *)
ReaderTakes ==
  /\ inbox # << >>
  /\ inbox' = Tail(inbox)
  /\ \/ /\ reader
        /\ reader' = FALSE
        /\ handed' = << Head(inbox) >>
        /\ UNCHANGED left
     \/ /\ left > 0
        /\ left' = left - 1
        /\ UNCHANGED <<reader, handed>>
  /\ UNCHANGED <<hs, handshakes, extensionVars, circuitVars>>
  /\ LinkOnly

(* The timer, the context or an error of ReceiveCell ends the call.        *)
HandshakeEnds ==
  /\ hs = "versions"
  /\ hs' = "failed"
  /\ reader' = FALSE
  /\ left' = IF reader THEN left + 1 ELSE left
  /\ handed' = << >>
  /\ UNCHANGED <<handshakes, inbox, extensionVars, circuitVars>>
  /\ LinkOnly

(* The payload must be pairs of bytes and name a version of ours.          *)
ReceiveVersions ==
  /\ hs = "versions"
  /\ handed # << >>
  /\ hs' = IF /\ handed[1].command = "VERSIONS"
              /\ handed[1].length % 2 = 0
              /\ SelectVersion(handed[1].versions) # 0
             THEN "negotiated" ELSE "refused"
  /\ UNCHANGED <<handshakes, reader, left, inbox, handed, extensionVars, circuitVars>>
  /\ LinkOnly

-----------------------------------------------------------------------------
(* CREATE2 and EXTEND2.                                                    *)

Ask(ntor, keysKnown) ==
  /\ Holding /\ hs = "none" /\ ~open
  /\ Len(requests) < MaxRequests
  /\ requests' = Append(requests, [ntor |-> ntor, keysKnown |-> keysKnown])
  /\ UNCHANGED <<keyed, panicked, handshakeVars, circuitVars>>
  /\ LinkOnly

(* Mutant: the key of a request that is still open is kept.                *)
RequestKeepingKey(ntor, keysKnown) ==
  /\ Ask(ntor, keysKnown)
  /\ ephemeral' = IF ntor /\ ephemeral = NoEphemeral
                    THEN [request |-> Len(requests'), keysKnown |-> keysKnown] ELSE ephemeral

(* generateHandshakeData: ntor replaces the key and the server's keys,     *)
(* which are zeros when the target has none; TAP leaves them.              *)
Request(ntor, keysKnown) ==
  /\ Ask(ntor, keysKnown)
  /\ ephemeral' = IF ntor THEN [request |-> Len(requests'), keysKnown |-> keysKnown] ELSE ephemeral

(* The length field of an answer has 16 bits, and so has the sum that      *)
(* says where the handshake response ends.                                 *)
NtorResponseLen == 64
ResponseEnd(hlen) == (2 + hlen) % 65536

(* NtorProcessResponse verifies an answer to the request whose key is      *)
(* kept, made with the keys the request was made with: the target's own,   *)
(* or the zeros, with which anybody can answer.                            *)
Verifies(r, byTarget) == ephemeral.request = r /\ byTarget = ephemeral.keysKnown

(* ProcessCreated2 and ProcessExtended2, of an answer to request r in a    *)
(* cell of fixed length: a response of the right length that verifies uses *)
(* up the key, and one whose end is in front of its beginning ends the     *)
(* program.  All others are errors, which change nothing.                  *)
ProcessAnswer(r, byTarget, hlen) ==
  /\ Holding /\ ~open
  /\ ResponseEnd(hlen) <= PayloadLen
  /\ \/ /\ ResponseEnd(hlen) = 2 + NtorResponseLen
        /\ Verifies(r, byTarget)
        /\ keyed' = Append(keyed, [request |-> r, byTarget |-> byTarget])
        /\ ephemeral' = NoEphemeral
        /\ UNCHANGED panicked
     \/ /\ ResponseEnd(hlen) < 2
        /\ panicked' = TRUE
        /\ UNCHANGED <<keyed, ephemeral>>
  /\ UNCHANGED <<requests, handshakeVars, circuitVars>>
  /\ LinkOnly

(* The hops are given their crypto state and the circuit its connection.   *)
OpenCircuit ==
  /\ Holding /\ ~open
  /\ keyed # << >>
  /\ open' = TRUE
  /\ relayFirst' \in BOOLEAN
  /\ UNCHANGED <<handshakeVars, extensionVars, forwardVars, delivered, heard>>
  /\ LinkOnly

-----------------------------------------------------------------------------
(* Relay cells.                                                            *)

ForwardOnly == LinkOnly /\ UNCHANGED <<handshakeVars, extensionVars, open, relayFirst, delivered, heard>>

(* What two writes leave that nothing orders: one of them is lost, or what *)
(* is there is neither's.                                                  *)
Mixed == -1
After(n) == IF n = Mixed THEN Mixed ELSE n + 1

Written(s, stage, read, now) ==
  IF read = now /\ \A t \in Senders \ {s} : sending[t] # stage
    THEN {After(now)} ELSE {After(read), After(now), Mixed}

(* SendRelayCell, on a circuit that is open: no lock is held from here to  *)
(* the connection, and hash and ciphers have none.                         *)
UpdateForwardDigest(s) ==
  \/ /\ Holding /\ open
     /\ sending[s] = "idle"
     /\ digested < MaxCells /\ encrypted < MaxCells /\ Len(wire) < MaxCells
     /\ digest' = [digest EXCEPT ![s] = digested]
     /\ sending' = [sending EXCEPT ![s] = "digesting"]
     /\ UNCHANGED <<position, digested, encrypted, wire>>
     /\ ForwardOnly
  \/ /\ sending[s] = "digesting"
     /\ digested' \in Written(s, "digesting", digest[s], digested)
     /\ digest' = [digest EXCEPT ![s] = digested']
     /\ sending' = [sending EXCEPT ![s] = "digested"]
     /\ UNCHANGED <<position, encrypted, wire>>
     /\ ForwardOnly

EncryptForward(s) ==
  \/ /\ sending[s] = "digested"
     /\ position' = [position EXCEPT ![s] = encrypted]
     /\ sending' = [sending EXCEPT ![s] = "encrypting"]
     /\ UNCHANGED <<digest, digested, encrypted, wire>>
     /\ ForwardOnly
  \/ /\ sending[s] = "encrypting"
     /\ encrypted' \in Written(s, "encrypting", position[s], encrypted)
     /\ position' = [position EXCEPT ![s] = encrypted']
     /\ sending' = [sending EXCEPT ![s] = "encrypted"]
     /\ UNCHANGED <<digest, digested, wire>>
     /\ ForwardOnly

SendCell(s) ==
  /\ sending[s] = "encrypted"
  /\ \/ /\ Usable(mine[Client])
        /\ wire' = Append(wire, [digest |-> digest[s], position |-> position[s]])
     \/ UNCHANGED wire
  /\ sending' = [sending EXCEPT ![s] = "idle"]
  /\ UNCHANGED <<digest, position, digested, encrypted>>
  /\ ForwardOnly

(* DeliverRelayCell, of the relay's next cell: its digest, which includes  *)
(* the cell or not as the relay has it, is compared with that of the cells *)
(* before, and only a cell that is recognised is written to it.  The       *)
(* others are dropped without a word.                                      *)
DeliverRelayCell ==
  /\ Holding /\ open
  /\ delivered < MaxCells
  /\ delivered' = delivered + 1
  /\ LET field == IF relayFirst THEN delivered + 1 ELSE delivered
     IN heard' = IF field = heard THEN heard + 1 ELSE heard
  /\ UNCHANGED <<handshakeVars, extensionVars, open, relayFirst, forwardVars>>
  /\ LinkOnly

(* Another goroutine closes the connection.                                *)
CloseUnderneath ==
  /\ Holding /\ ~closing[mine[Client]]
  /\ Close({mine[Client]})
  /\ UNCHANGED <<closedEarly, userVars, poolVars, linkVars>>

-----------------------------------------------------------------------------
SendRelayCell(s) == UpdateForwardDigest(s) \/ EncryptForward(s) \/ SendCell(s)

LinkNext ==
  \/ SendVersions \/ ReaderTakes \/ HandshakeEnds \/ ReceiveVersions
  \/ \E cell \in {VersionsCell({3, 4}), VersionsCell({2}), CertsCell} : RelayAnswers(cell)
  \/ \E ntor, keysKnown \in BOOLEAN : Request(ntor, keysKnown)
  \/ \E r \in 1 .. MaxRequests, byTarget \in BOOLEAN, hlen \in {NtorResponseLen, 65534} :
       ProcessAnswer(r, byTarget, hlen)
  \/ OpenCircuit
  \/ \E s \in Senders : SendRelayCell(s)
  \/ DeliverRelayCell
  \/ CloseUnderneath

(* With another connection all of it starts anew; the goroutines of the    *)
(* old one end with their cells.                                           *)
Next ==
  /\ ~panicked
  /\ \/ LinkNext
     \/ /\ PoolNext
        /\ IF mine'[Client] = mine[Client] THEN UNCHANGED linkVars ELSE LinkAnew

Spec == Init /\ [][Next]_vars

-----------------------------------------------------------------------------
(* Keys come only from an answer to the circuit's latest ntor request, and *)
(* only once for each, whatever comes late or twice; and from its target,  *)
(* if the request was made with the target's keys                          *)
(* (extension.go:136-193, 325-439).                                        *)
KeysAgree ==
  [][Len(keyed') > Len(keyed) =>
       LET r == keyed'[Len(keyed')].request IN
       /\ requests[r].ntor
       /\ requests[r].keysKnown => keyed'[Len(keyed')].byTarget
       /\ \A later \in (r + 1) .. Len(requests) : ~requests[later].ntor
       /\ \A i \in DOMAIN keyed : keyed[i].request # r]_vars

(* The n-th cell on the wire has the digest of n cells and the n-th place  *)
(* in the keystream (circuit.go:410-411, "Each RELAY cell includes a       *)
(* running digest field computed over all relay cells sent in same         *)
(* direction on the circuit").                                             *)
ForwardInStep == \A n \in DOMAIN wire : wire[n] = [digest |-> n, position |-> n]

(* A VERSIONS answer that names a version of ours is not refused           *)
(* (protocol_test.go:425-450, "version encoding/decoding is consistent").  *)
SharedVersionNegotiated ==
  hs = "refused" => handed[1].command # "VERSIONS" \/ SelectVersion(handed[1].versions) = 0
=============================================================================
