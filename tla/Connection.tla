----------------------------- MODULE Connection -----------------------------
(***************************************************************************)
(* TLS connections to relays (pkg/connection): Connect in the steps a      *)
(* Close can fall between, ConnectWithRetry around it, and Close.  A user  *)
(* is a goroutine that connects and then holds a connection.               *)
(*                                                                         *)
(* The objects are recycled: one that nobody refers to and whose socket is *)
(* closed is taken for a new one.                                          *)
(***************************************************************************)
EXTENDS Naturals, Sequences, FiniteSets

CONSTANTS
  Users, Conns,
  MaxAttempts,     (* retries of ConnectWithRetry                          *)
  Nobody           (* no user and no connection                            *)

ASSUME ConnectionAssumption ==
  MaxAttempts \in Nat /\ Nobody \notin Users /\ Nobody \notin Conns

VARIABLES
  state,      (* Connection.state                                          *)
  handle,     (* which of tlsConn and conn is set                          *)
  live,       (* its socket is not closed at this end                      *)
  closing,    (* closeOnce has run, closeCh is closed                      *)
  at,         (* where the user is                                         *)
  mine,       (* the connection it connects or holds                       *)
  source,     (* where it has it from: New, ConnectionPool.Get or Pool.Get *)
  attempt,    (* of ConnectWithRetry                                       *)
  closedEarly (* history: closed before Connect returned                   *)

connVars == <<state, handle, live, closing, closedEarly>>
userVars == <<at, mine, source, attempt>>

ConnectionInit ==
  /\ state = [k \in Conns |-> "CONNECTING"]
  /\ handle = [k \in Conns |-> "none"]
  /\ live = [k \in Conns |-> FALSE]
  /\ closing = [k \in Conns |-> FALSE]
  /\ at = [u \in Users |-> "idle"]
  /\ mine = [u \in Users |-> Nobody]
  /\ source = [u \in Users |-> "new"]
  /\ attempt = [u \in Users |-> 0]
  /\ closedEarly = {}

-----------------------------------------------------------------------------
(* verifyTorRelayCertificate: the certificate is there, parses, is         *)
(* current and has a key and a known algorithm.  The check that pinning    *)
(* adds asks only for one that parses.                                     *)
Certificates == {"valid", "absent", "unparsable", "notYetValid", "expired", "noKey", "unknownAlgorithm"}
VerifyTorRelayCertificate(cert) == cert = "valid"
VerifyRelayIdentityPinning(cert) == cert \notin {"absent", "unparsable"}

(* New, and the call of Connect.                                           *)
New(u, k, from) ==
  /\ state' = [state EXCEPT ![k] = "CONNECTING"]
  /\ handle' = [handle EXCEPT ![k] = "none"]
  /\ live' = [live EXCEPT ![k] = FALSE]
  /\ closing' = [closing EXCEPT ![k] = FALSE]
  /\ closedEarly' = closedEarly \ {k}
  /\ at' = [at EXCEPT ![u] = "dial"]
  /\ mine' = [mine EXCEPT ![u] = k]
  /\ source' = [source EXCEPT ![u] = from]
  /\ attempt' = [attempt EXCEPT ![u] = 0]

(* The user drops its connection.                                          *)
Drop(u) ==
  /\ at' = [at EXCEPT ![u] = "idle"]
  /\ mine' = [mine EXCEPT ![u] = Nobody]
  /\ source' = [source EXCEPT ![u] = "new"]
  /\ attempt' = [attempt EXCEPT ![u] = 0]

(* Connect has failed.  ConnectionPool.Get calls it without the retries.   *)
ConnectFailed(u) ==
  /\ state' = [state EXCEPT ![mine[u]] = "FAILED"]
  /\ IF source[u] # "pool" /\ attempt[u] < MaxAttempts
       THEN at' = [at EXCEPT ![u] = "backoff"] /\ UNCHANGED <<mine, source, attempt>>
       ELSE Drop(u)

DialFails(u) ==
  /\ at[u] = "dial"
  /\ ConnectFailed(u)
  /\ UNCHANGED <<handle, live, closing, closedEarly>>

Dial(u) ==
  /\ at[u] = "dial"
  /\ handle' = [handle EXCEPT ![mine[u]] = "tcp"]
  /\ live' = [live EXCEPT ![mine[u]] = TRUE]
  /\ state' = [state EXCEPT ![mine[u]] = "HANDSHAKING"]
  /\ at' = [at EXCEPT ![u] = "tls"]
  /\ UNCHANGED <<closing, closedEarly, mine, source, attempt>>

(* HandshakeContext fails of itself, because of the certificate, or        *)
(* because Close has closed the socket under it.                           *)
HandshakeFails(u) ==
  /\ at[u] = "tls"
  /\ live' = [live EXCEPT ![mine[u]] = FALSE]
  /\ ConnectFailed(u)
  /\ UNCHANGED <<handle, closing, closedEarly>>

Handshake(u) ==
  /\ at[u] = "tls"
  /\ live[mine[u]]
  /\ \E cert \in Certificates : VerifyTorRelayCertificate(cert) /\ VerifyRelayIdentityPinning(cert)
  /\ handle' = [handle EXCEPT ![mine[u]] = "tls"]
  /\ at' = [at EXCEPT ![u] = "opening"]
  /\ UNCHANGED <<state, live, closing, closedEarly, mine, source, attempt>>

(* The state becomes OPEN whatever it is.                                  *)
Opened(u) ==
  /\ at[u] = "opening"
  /\ state' = [state EXCEPT ![mine[u]] = "OPEN"]
  /\ at' = [at EXCEPT ![u] = "holding"]
  /\ attempt' = [attempt EXCEPT ![u] = 0]
  /\ UNCHANGED <<handle, live, closing, closedEarly, mine, source>>

(* The backoff ends, or the context does.                                  *)
Retry(u) ==
  /\ at[u] = "backoff"
  /\ at' = [at EXCEPT ![u] = "dial"]
  /\ attempt' = [attempt EXCEPT ![u] = @ + 1]
  /\ UNCHANGED <<connVars, mine, source>>

GiveUp(u) ==
  /\ at[u] = "backoff"
  /\ Drop(u)
  /\ UNCHANGED connVars

-----------------------------------------------------------------------------
(* Close, of the connections in a set.  What is not set yet is not closed. *)
Close(ks) ==
  LET first == {k \in ks : ~closing[k]} IN
  /\ closing' = [k \in Conns |-> closing[k] \/ k \in first]
  /\ state' = [k \in Conns |-> IF k \in first THEN "CLOSED" ELSE state[k]]
  /\ live' = [k \in Conns |-> live[k] /\ ~(k \in first /\ handle[k] # "none")]
  /\ UNCHANGED handle

(* Another goroutine closes a connection made with New while Connect runs. *)
CloseWhileConnecting(u) ==
  /\ source[u] = "new"
  /\ at[u] \in {"dial", "tls", "opening", "backoff"}
  /\ ~closing[mine[u]]
  /\ Close({mine[u]})
  /\ closedEarly' = closedEarly \cup {mine[u]}
  /\ UNCHANGED userVars

(* SendCell and ReceiveCell go to the socket only then.  (ReceiveCell does *)
(* not close at the end of the stream: DecodeCell wraps io.EOF.)           *)
Usable(k) == state[k] = "OPEN" /\ ~closing[k]
=============================================================================
