--------------------------- MODULE ConnectionPool ---------------------------
(***************************************************************************)
(* The two pools of connections: ConnectionPool (pkg/pool), one entry per  *)
(* address and everything, Connect included, under its mutex; and Pool     *)
(* (pkg/connection/retry.go), a channel of connections that are not in     *)
(* use.  One address; addresses do not affect each other.                  *)
(***************************************************************************)
EXTENDS Connection

CONSTANT PoolSize      (* maxSize of Pool                                  *)

ASSUME PoolAssumption == PoolSize \in Nat

VARIABLES
  entry,      (* ConnectionPool.connections[address]                       *)
  mu,         (* who holds its mutex over a Connect                        *)
  available,  (* Pool.available                                            *)
  shut,       (* which is closed                                           *)
  replaced    (* history: connections whose entry was overwritten in use   *)

poolVars == <<entry, mu, available, shut, replaced>>

NoEntry == [conn |-> Nobody, inUse |-> FALSE]

PoolInit ==
  /\ ConnectionInit
  /\ entry = NoEntry /\ mu = Nobody
  /\ available = << >> /\ shut = FALSE
  /\ replaced = {}

(* Nobody refers to k and it holds no socket.                              *)
Fresh(k) ==
  /\ ~live[k]
  /\ \A u \in Users : mine[u] # k
  /\ entry.conn # k
  /\ \A i \in DOMAIN available : available[i] # k

-----------------------------------------------------------------------------
(* A user that needs no pool.                                              *)
NewDirect(u) ==
  /\ at[u] = "idle"
  /\ \E k \in Conns : Fresh(k) /\ New(u, k, "new")
  /\ UNCHANGED poolVars

OpenedOutside(u) == source[u] # "pool" /\ Opened(u) /\ UNCHANGED poolVars

(* Whatever it comes from, a connection can be closed by who holds it.     *)
CloseMine(u) ==
  /\ at[u] = "holding"
  /\ Close({mine[u]})
  /\ Drop(u)
  /\ UNCHANGED <<closedEarly, poolVars>>

-----------------------------------------------------------------------------
(* ConnectionPool.                                                         *)

Idle == entry.conn # Nobody /\ ~entry.inUse /\ state[entry.conn] = "OPEN"

(* Mutant: Get looks at the state alone.                                   *)
ReuseInUse(u) ==
  /\ at[u] = "idle" /\ mu = Nobody
  /\ entry.conn # Nobody /\ state[entry.conn] = "OPEN"
  /\ entry' = [entry EXCEPT !.inUse = TRUE]
  /\ mine' = [mine EXCEPT ![u] = entry.conn]
  /\ source' = [source EXCEPT ![u] = "pool"]
  /\ at' = [at EXCEPT ![u] = "holding"]
  /\ UNCHANGED <<connVars, attempt, mu, available, shut, replaced>>

Reuse(u) ==
  /\ at[u] = "idle" /\ mu = Nobody
  /\ Idle
  /\ entry' = [entry EXCEPT !.inUse = TRUE]
  /\ mine' = [mine EXCEPT ![u] = entry.conn]
  /\ source' = [source EXCEPT ![u] = "pool"]
  /\ at' = [at EXCEPT ![u] = "holding"]
  /\ UNCHANGED <<connVars, attempt, mu, available, shut, replaced>>

(* One that is idle but older than maxLifetime is closed and deleted; one  *)
(* in use, or not open, stays until the new connection takes its place.    *)
GetNew(u) ==
  /\ at[u] = "idle" /\ mu = Nobody
  /\ mu' = u
  /\ \E k \in Conns :
       /\ Fresh(k)
       /\ \/ ~Idle /\ New(u, k, "pool") /\ UNCHANGED entry
          \/ /\ Idle
             /\ entry' = NoEntry
             /\ state' = [state EXCEPT ![k] = "CONNECTING", ![entry.conn] = "CLOSED"]
             /\ handle' = [handle EXCEPT ![k] = "none"]
             /\ live' = [live EXCEPT ![k] = FALSE, ![entry.conn] = FALSE]
             /\ closing' = [closing EXCEPT ![k] = FALSE, ![entry.conn] = TRUE]
             /\ closedEarly' = closedEarly \ {k}
             /\ at' = [at EXCEPT ![u] = "dial"]
             /\ mine' = [mine EXCEPT ![u] = k]
             /\ source' = [source EXCEPT ![u] = "pool"]
             /\ attempt' = [attempt EXCEPT ![u] = 0]
  /\ UNCHANGED <<available, shut, replaced>>

Store(u) ==
  /\ source[u] = "pool"
  /\ Opened(u)
  /\ replaced' = IF entry.inUse THEN replaced \cup {entry.conn} ELSE replaced
  /\ entry' = [conn |-> mine[u], inUse |-> TRUE]
  /\ mu' = Nobody
  /\ UNCHANGED <<available, shut>>

(* A connection the entry does not hold any more is left as it is.         *)
Put(u) ==
  /\ at[u] = "holding" /\ source[u] = "pool" /\ mu = Nobody
  /\ entry' = IF entry.conn = mine[u] THEN [entry EXCEPT !.inUse = FALSE] ELSE entry
  /\ Drop(u)
  /\ UNCHANGED <<connVars, mu, available, shut, replaced>>

(* Mutant: an entry is deleted and its connection left open.               *)
DeleteEntry ==
  /\ mu = Nobody /\ entry.conn # Nobody
  /\ entry' = NoEntry
  /\ UNCHANGED <<connVars, userVars, mu, available, shut, replaced>>

(* Remove, CleanupExpired, and Close, which starts again with an empty     *)
(* map: a connection in use is closed too.                                 *)
Remove ==
  /\ mu = Nobody /\ entry.conn # Nobody
  /\ Close({entry.conn})
  /\ entry' = NoEntry
  /\ UNCHANGED <<closedEarly, userVars, mu, available, shut, replaced>>

CleanupIdle == ~entry.inUse /\ Remove

-----------------------------------------------------------------------------
(* Pool.                                                                   *)

(* The next one in the channel, and a new one if it is not open or there   *)
(* is none.  After Close the receive returns nil, and Get panics.          *)
GetAvailable(u) ==
  /\ at[u] = "idle" /\ ~shut
  /\ \/ /\ available # << >>
        /\ available' = Tail(available)
        /\ IF state[Head(available)] = "OPEN"
             THEN /\ mine' = [mine EXCEPT ![u] = Head(available)]
                  /\ source' = [source EXCEPT ![u] = "channel"]
                  /\ at' = [at EXCEPT ![u] = "holding"]
                  /\ UNCHANGED <<connVars, attempt>>
             ELSE \E k \in Conns : Fresh(k) /\ New(u, k, "channel")
     \/ /\ available = << >>
        /\ \E k \in Conns : Fresh(k) /\ New(u, k, "channel")
        /\ UNCHANGED available
  /\ UNCHANGED <<entry, mu, shut, replaced>>

(* A full pool closes the connection.  After Close the send panics.        *)
PutAvailable(u) ==
  /\ at[u] = "holding" /\ source[u] = "channel" /\ ~shut
  /\ \/ /\ state[mine[u]] = "OPEN" /\ Len(available) < PoolSize
        /\ available' = Append(available, mine[u])
        /\ UNCHANGED connVars
     \/ /\ state[mine[u]] = "OPEN" /\ Len(available) = PoolSize
        /\ Close({mine[u]})
        /\ UNCHANGED <<available, closedEarly>>
     \/ /\ state[mine[u]] # "OPEN"
        /\ UNCHANGED <<connVars, available>>
  /\ Drop(u)
  /\ UNCHANGED <<entry, mu, shut, replaced>>

CloseAvailable ==
  /\ ~shut
  /\ shut' = TRUE
  /\ Close({available[i] : i \in DOMAIN available})
  /\ available' = << >>
  /\ UNCHANGED <<closedEarly, userVars, entry, mu, replaced>>

-----------------------------------------------------------------------------
(* A Connect that fails inside ConnectionPool.Get releases the mutex.      *)
ConnectStep(u) ==
  \/ /\ DialFails(u) \/ HandshakeFails(u)
     /\ mu' = IF mu = u THEN Nobody ELSE mu
     /\ UNCHANGED <<entry, available, shut, replaced>>
  \/ /\ Dial(u) \/ Handshake(u) \/ Retry(u) \/ GiveUp(u)
     /\ UNCHANGED poolVars
  \/ OpenedOutside(u) \/ Store(u)

Acquire(u) == NewDirect(u) \/ Reuse(u) \/ GetNew(u) \/ GetAvailable(u)
Release(u) == CloseMine(u) \/ Put(u) \/ PutAvailable(u)

PoolNext ==
  \/ \E u \in Users :
       \/ Acquire(u) \/ ConnectStep(u) \/ Release(u)
       \/ CloseWhileConnecting(u) /\ UNCHANGED poolVars
  \/ Remove \/ CleanupIdle \/ CloseAvailable

-----------------------------------------------------------------------------
(* Two users never hold the same connection, and every open socket is      *)
(* within somebody's reach, so that it can be closed.  What escapes is a   *)
(* connection in use whose entry Get overwrites, and one that was closed   *)
(* before Connect had set what Close closes (connection_pool.go:62-123,    *)
(* connection.go:281-331, 392-412, retry.go:153-215).                      *)
ConnectionsAccountedFor ==
  /\ \A u, v \in Users : mine[u] = mine[v] /\ mine[u] # Nobody => u = v
  /\ \A k \in Conns :
       live[k] =>
         \/ \E u \in Users : mine[u] = k
         \/ entry.conn = k
         \/ \E i \in DOMAIN available : available[i] = k
         \/ k \in replaced \cup closedEarly
=============================================================================
