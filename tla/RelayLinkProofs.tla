--------------------------- MODULE RelayLinkProofs ---------------------------
(***************************************************************************)
(* Theorems about connections to relays, their pools and what is sent over *)
(* them, for any users, connections, senders and bounds.                   *)
(***************************************************************************)
EXTENDS RelayLink, SequenceTheorems, TLAPS

-----------------------------------------------------------------------------
(* Connections.                                                            *)

Connecting == {"dial", "tls", "opening", "backoff"}

PoolTyped ==
  /\ state \in [Conns -> {"CONNECTING", "HANDSHAKING", "OPEN", "CLOSED", "FAILED"}]
  /\ handle \in [Conns -> {"none", "tcp", "tls"}]
  /\ live \in [Conns -> BOOLEAN]
  /\ closing \in [Conns -> BOOLEAN]
  /\ at \in [Users -> Connecting \cup {"idle", "holding"}]
  /\ mine \in [Users -> Conns \cup {Nobody}]
  /\ source \in [Users -> {"new", "pool", "channel"}]
  /\ entry \in [conn : Conns \cup {Nobody}, inUse : BOOLEAN]
  /\ mu \in Users \cup {Nobody}
  /\ available \in Seq(Conns)

(* A connection is with one user, in the entry or in the channel; only the *)
(* user that has it from the entry shares it with the entry.               *)
OneHolder ==
  /\ \A u \in Users : mine[u] = Nobody <=> at[u] = "idle"
  /\ \A u, v \in Users : mine[u] = mine[v] /\ mine[u] # Nobody => u = v
  /\ \A u \in Users : mine[u] = entry.conn /\ mine[u] # Nobody =>
       at[u] = "holding" /\ source[u] = "pool" /\ entry.inUse
  /\ \A i \in DOMAIN available :
       /\ available[i] # entry.conn
       /\ \A u \in Users : available[i] # mine[u]
       /\ \A j \in DOMAIN available : available[i] = available[j] => i = j

(* Close closes what is set; what it came too early for is closedEarly.    *)
CloseCloses ==
  /\ \A k \in Conns : live[k] => handle[k] # "none"
  /\ \A k \in Conns : live[k] /\ closing[k] => k \in closedEarly
  /\ \A u \in Users : at[u] \in {"dial", "backoff"} => ~live[mine[u]]
  /\ \A u \in Users : at[u] \in Connecting /\ closing[mine[u]] => mine[u] \in closedEarly

(* What a user holds or a pool keeps was opened.                           *)
Settled(k) == state[k] = "OPEN" \/ closing[k]
KeptWereOpened ==
  /\ \A u \in Users : at[u] = "holding" => Settled(mine[u])
  /\ entry.conn # Nobody => Settled(entry.conn)
  /\ \A i \in DOMAIN available : Settled(available[i])

(* The mutex of ConnectionPool is held through the Connect of its Get, and *)
(* meanwhile there is no idle connection whose entry could be overwritten. *)
GetHasMutex ==
  /\ \A u \in Users : source[u] = "pool" /\ at[u] \in Connecting => mu = u
  /\ mu # Nobody => ~Idle

(* A user keeps a connection of an entry that is gone only if it was       *)
(* overwritten or closed.                                                  *)
LostOnlyReplaced ==
  \A u \in Users :
    at[u] = "holding" /\ source[u] = "pool" /\ entry.conn # mine[u] /\ live[mine[u]]
      => mine[u] \in replaced \cup closedEarly

InReach(k) ==
  \/ \E u \in Users : mine[u] = k
  \/ entry.conn = k
  \/ \E i \in DOMAIN available : available[i] = k
  \/ k \in replaced \cup closedEarly
OpenInReach == \A k \in Conns : live[k] => InReach(k)

PoolsInv ==
  /\ PoolTyped /\ OneHolder /\ CloseCloses /\ KeptWereOpened /\ GetHasMutex
  /\ LostOnlyReplaced /\ OpenInReach

-----------------------------------------------------------------------------
(* Two empty pools satisfy the invariant.                                  *)
LEMMA PoolsInitInv == Init => PoolsInv
<1> SUFFICES ASSUME Init PROVE PoolsInv
  OBVIOUS
<1>1. DOMAIN available = {} /\ available \in Seq(Conns)
  BY DEF Init, PoolInit
<1>2. PoolTyped
  BY <1>1 DEF Init, PoolInit, ConnectionInit, PoolTyped, NoEntry
<1>3. QED
  BY <1>1, <1>2, ConnectionAssumption
     DEF ConnectionAssumption, Init, PoolInit, ConnectionInit, NoEntry, PoolsInv, OneHolder,
       CloseCloses, KeptWereOpened, GetHasMutex, LostOnlyReplaced, OpenInReach, Connecting, Idle

(* What Close does to one connection.                                      *)
LEMMA CloseEffect ==
  ASSUME PoolTyped, CloseCloses, NEW ks, Close(ks)
  PROVE  /\ state' \in [Conns -> {"CONNECTING", "HANDSHAKING", "OPEN", "CLOSED", "FAILED"}]
         /\ handle' = handle
         /\ live' \in [Conns -> BOOLEAN] /\ closing' \in [Conns -> BOOLEAN]
         /\ \A k \in Conns :
              /\ k \in ks => closing'[k]
              /\ k \notin ks => state'[k] = state[k] /\ live'[k] = live[k] /\ closing'[k] = closing[k]
              /\ closing[k] => closing'[k]
              /\ live'[k] => live[k]
              /\ live'[k] /\ closing'[k] => k \in closedEarly
              /\ state'[k] = "OPEN" => state[k] = "OPEN"
              /\ Settled(k) => Settled(k)'
BY DEF Close, PoolTyped, CloseCloses, Settled

(* The tail of the channel, and what an append adds to it.                 *)
LEMMA TailOfAvailable ==
  ASSUME available \in Seq(Conns), available # << >>, available' = Tail(available)
  PROVE  /\ available' \in Seq(Conns) /\ Head(available) \in Conns
         /\ 1 \in DOMAIN available /\ Head(available) = available[1]
         /\ \A i \in DOMAIN available' :
              i \in Nat \ {0} /\ i + 1 \in DOMAIN available /\ available'[i] = available[i + 1]
         /\ \A i \in DOMAIN available : i = 1 \/ \E j \in DOMAIN available' : available'[j] = available[i]
<1>1. /\ available' \in Seq(Conns) /\ Head(available) = available[1] /\ Len(available) \in Nat
      /\ Len(available) > 0 /\ Len(available') = Len(available) - 1
      /\ \A i \in 1 .. Len(available') : available'[i] = available[i + 1]
  OBVIOUS
<1>2. ASSUME NEW i \in DOMAIN available, i # 1
      PROVE  \E j \in DOMAIN available' : available'[j] = available[i]
  <2>1. i - 1 \in DOMAIN available' /\ available'[i - 1] = available[i]
    BY <1>1, <1>2
  <2>2. QED
    BY <2>1
<1>3. QED
  BY <1>1, <1>2

(* What the queue of available connections is after one is appended.       *)
LEMMA AppendToAvailable ==
  ASSUME available \in Seq(Conns), NEW k \in Conns, available' = Append(available, k)
  PROVE  /\ available' \in Seq(Conns)
         /\ Len(available) + 1 \in DOMAIN available' /\ available'[Len(available) + 1] = k
         /\ \A i \in DOMAIN available : i \in DOMAIN available' /\ available'[i] = available[i]
         /\ \A i \in DOMAIN available' : i = Len(available) + 1 \/ i \in DOMAIN available
OBVIOUS

-----------------------------------------------------------------------------
(* One lemma for each kind of step.                                        *)

(* A new connection, of nobody until now.                                  *)
LEMMA NewStep ==
  ASSUME PoolsInv, NEW u \in Users, NEW k \in Conns, NEW from \in {"new", "pool", "channel"},
         at[u] = "idle", Fresh(k), New(u, k, from), UNCHANGED <<entry, replaced>>,
         \/ from # "pool" /\ mu' = mu
         \/ mu = Nobody /\ mu' = u /\ ~Idle,
         \/ available' = available
         \/ available # << >> /\ available' = Tail(available) /\ state[Head(available)] # "OPEN"
  PROVE  PoolsInv'
<1> USE DEF PoolsInv
<1>1. /\ state' = [state EXCEPT ![k] = "CONNECTING"]
      /\ handle' = [handle EXCEPT ![k] = "none"]
      /\ live' = [live EXCEPT ![k] = FALSE]
      /\ closing' = [closing EXCEPT ![k] = FALSE]
      /\ closedEarly' = closedEarly \ {k}
      /\ at' = [at EXCEPT ![u] = "dial"]
      /\ mine' = [mine EXCEPT ![u] = k]
      /\ source' = [source EXCEPT ![u] = from]
  BY DEF New
<1>2. /\ ~live[k] /\ entry.conn # k
      /\ \A v \in Users : mine[v] # k
      /\ \A i \in DOMAIN available : available[i] # k
  BY DEF Fresh
<1>3. mine[u] = Nobody /\ Nobody \notin Conns /\ Nobody \notin Users
  BY ConnectionAssumption DEF ConnectionAssumption, OneHolder
<1>4. /\ available' \in Seq(Conns)
      /\ \A i \in DOMAIN available' : \E j \in DOMAIN available : available'[i] = available[j]
      /\ \A i, j \in DOMAIN available' : available'[i] = available'[j] => i = j
      /\ \A i \in DOMAIN available :
           \/ \E j \in DOMAIN available' : available'[j] = available[i]
           \/ state[available[i]] # "OPEN"
  <2>1. CASE available' = available
    BY <2>1 DEF PoolTyped, OneHolder
  <2>2. CASE available # << >> /\ available' = Tail(available) /\ state[Head(available)] # "OPEN"
    <3>1. /\ available' \in Seq(Conns)
          /\ 1 \in DOMAIN available /\ Head(available) = available[1]
          /\ \A i \in DOMAIN available' :
               i \in Nat \ {0} /\ i + 1 \in DOMAIN available /\ available'[i] = available[i + 1]
          /\ \A i \in DOMAIN available : i = 1 \/ \E j \in DOMAIN available' : available'[j] = available[i]
      BY <2>2, TailOfAvailable DEF PoolTyped
    <3>2. ASSUME NEW i \in DOMAIN available', NEW j \in DOMAIN available', available'[i] = available'[j]
          PROVE  i = j
      <4>1. i + 1 = j + 1 /\ i \in Nat /\ j \in Nat
        BY <3>1, <3>2 DEF OneHolder
      <4>2. QED
        BY <4>1
    <3>3. QED
      BY <2>2, <3>1, <3>2
  <2>3. QED
    BY <2>1, <2>2
<1>5. PoolTyped'
  <2>1. mu' \in Users \cup {Nobody} /\ at' \in [Users -> Connecting \cup {"idle", "holding"}]
    BY <1>1 DEF PoolTyped, Connecting
  <2>2. QED
    BY <1>1, <1>4, <2>1 DEF PoolTyped
<1>6. OneHolder'
  <2>1. /\ \A v \in Users : mine'[v] = Nobody <=> at'[v] = "idle"
        /\ \A v, w \in Users : mine'[v] = mine'[w] /\ mine'[v] # Nobody => v = w
    BY <1>1, <1>2, <1>3 DEF PoolTyped, OneHolder
  <2>2. \A v \in Users : mine'[v] = entry'.conn /\ mine'[v] # Nobody =>
          at'[v] = "holding" /\ source'[v] = "pool" /\ entry'.inUse
    BY <1>1, <1>2 DEF PoolTyped, OneHolder
  <2>3. \A i \in DOMAIN available' :
          /\ available'[i] # entry'.conn
          /\ \A v \in Users : available'[i] # mine'[v]
    BY <1>1, <1>2, <1>4 DEF PoolTyped, OneHolder
  <2>4. QED
    BY <1>4, <2>1, <2>2, <2>3 DEF OneHolder
<1>7. CloseCloses'
  BY <1>1, <1>2, <1>3 DEF CloseCloses, PoolTyped, OneHolder, Connecting
<1>8. \A c \in Conns : c # k => state'[c] = state[c] /\ closing'[c] = closing[c] /\ live'[c] = live[c]
  BY <1>1 DEF PoolTyped
<1>9. KeptWereOpened'
  <2>1. \A v \in Users : at'[v] = "holding" => Settled(mine[v]) /\ mine'[v] = mine[v] /\ mine[v] \in Conns
    BY <1>1 DEF PoolTyped, OneHolder, KeptWereOpened
  <2>2. \A i \in DOMAIN available' : Settled(available'[i]) /\ available'[i] # k /\ available'[i] \in Conns
    BY <1>2, <1>4 DEF PoolTyped, KeptWereOpened
  <2>3. QED
    BY <1>2, <1>8, <2>1, <2>2 DEF KeptWereOpened, Settled, PoolTyped
<1>10. GetHasMutex'
  <2>1. Idle' = Idle
    BY <1>2, <1>3, <1>8 DEF Idle, PoolTyped
  <2>2. QED
    BY <1>1, <1>3, <2>1 DEF GetHasMutex, PoolTyped, Connecting
<1>11. LostOnlyReplaced'
  BY <1>1, <1>2, <1>3 DEF LostOnlyReplaced, PoolTyped, OneHolder
<1>12. ASSUME NEW c \in Conns, live'[c]
       PROVE  InReach(c)'
  <2>1. live[c] /\ c # k /\ InReach(c)
    BY <1>1, <1>12 DEF OpenInReach, PoolTyped
  <2>2. CASE \E v \in Users : mine[v] = c
    BY <1>1, <1>3, <2>2 DEF PoolTyped, InReach
  <2>3. CASE entry.conn = c \/ c \in replaced \cup closedEarly
    BY <1>1, <2>1, <2>3 DEF InReach
  <2>4. CASE \E i \in DOMAIN available : available[i] = c
    <3>1. PICK i \in DOMAIN available : available[i] = c
      BY <2>4
    <3>2. CASE state[c] # "OPEN"
      BY <1>1, <2>1, <3>1, <3>2 DEF KeptWereOpened, Settled, CloseCloses, InReach
    <3>3. QED
      BY <1>4, <3>1, <3>2 DEF InReach
  <2>5. QED
    BY <2>1, <2>2, <2>3, <2>4 DEF InReach
<1>13. QED
  BY <1>5, <1>6, <1>7, <1>9, <1>10, <1>11, <1>12 DEF OpenInReach

(* Get of an entry that is older than maxLifetime.                         *)
LEMMA GetNewStep ==
  ASSUME PoolsInv, NEW u \in Users, GetNew(u)
  PROVE  PoolsInv'
<1> USE DEF PoolsInv
<1>1. at[u] = "idle" /\ mu = Nobody /\ mu' = u /\ UNCHANGED <<available, replaced>>
  BY DEF GetNew
<1>2. ASSUME NEW k \in Conns, Fresh(k), ~Idle, New(u, k, "pool"), UNCHANGED entry
      PROVE  PoolsInv'
  BY <1>1, <1>2, NewStep
<1>3. ASSUME NEW k \in Conns, Fresh(k), Idle, entry' = NoEntry,
             state' = [state EXCEPT ![k] = "CONNECTING", ![entry.conn] = "CLOSED"],
             handle' = [handle EXCEPT ![k] = "none"],
             live' = [live EXCEPT ![k] = FALSE, ![entry.conn] = FALSE],
             closing' = [closing EXCEPT ![k] = FALSE, ![entry.conn] = TRUE],
             closedEarly' = closedEarly \ {k},
             at' = [at EXCEPT ![u] = "dial"],
             mine' = [mine EXCEPT ![u] = k],
             source' = [source EXCEPT ![u] = "pool"]
      PROVE  PoolsInv'
  <2> DEFINE e == entry.conn
  <2>1. /\ ~live[k] /\ e # k
        /\ \A v \in Users : mine[v] # k
        /\ \A i \in DOMAIN available : available[i] # k
    BY <1>3 DEF Fresh
  <2>2. mine[u] = Nobody /\ Nobody \notin Conns /\ Nobody \notin Users
    BY <1>1, ConnectionAssumption DEF ConnectionAssumption, OneHolder
  <2>3. /\ e \in Conns /\ ~entry.inUse /\ entry'.conn = Nobody
        /\ \A v \in Users : mine[v] # e
        /\ \A i \in DOMAIN available : available[i] # e
    BY <1>3 DEF Idle, NoEntry, PoolTyped, OneHolder
  <2>4. /\ \A c \in Conns \ {k, e} :
             state'[c] = state[c] /\ closing'[c] = closing[c] /\ live'[c] = live[c]
        /\ \A c \in Conns \ {k} : handle'[c] = handle[c]
        /\ ~live'[k] /\ ~closing'[k] /\ ~live'[e] /\ closing'[e]
    <3>1. \A c \in Conns \ {k, e} : state'[c] = state[c]
      BY <1>3, <2>3 DEF PoolTyped
    <3>2. ~live'[k] /\ ~live'[e] /\ \A c \in Conns \ {k, e} : live'[c] = live[c]
      <4>1. live' = [live EXCEPT ![k] = FALSE, ![e] = FALSE] /\ live \in [Conns -> BOOLEAN]
        BY <1>3 DEF PoolTyped
      <4>2. k \in Conns /\ e \in Conns /\ e # k
        BY <2>1, <2>3
      <4> HIDE DEF e
      <4>3. QED
        BY <4>1, <4>2
    <3>3. ~closing'[k] /\ closing'[e] /\ \A c \in Conns \ {k, e} : closing'[c] = closing[c]
      <4>1. closing' = [closing EXCEPT ![k] = FALSE, ![e] = TRUE] /\ closing \in [Conns -> BOOLEAN]
        BY <1>3 DEF PoolTyped
      <4>2. k \in Conns /\ e \in Conns /\ e # k
        BY <2>1, <2>3
      <4> HIDE DEF e
      <4>3. QED
        BY <4>1, <4>2
    <3>4. \A c \in Conns \ {k} : handle'[c] = handle[c]
      BY <1>3 DEF PoolTyped
    <3>5. QED
      BY <3>1, <3>2, <3>3, <3>4
  <2>5. /\ at'[u] = "dial" /\ mine'[u] = k /\ source'[u] = "pool"
        /\ \A v \in Users \ {u} : at'[v] = at[v] /\ mine'[v] = mine[v] /\ source'[v] = source[v]
    BY <1>3 DEF PoolTyped
  <2>6. PoolTyped'
    <3>1. /\ state' \in [Conns -> {"CONNECTING", "HANDSHAKING", "OPEN", "CLOSED", "FAILED"}]
          /\ handle' \in [Conns -> {"none", "tcp", "tls"}]
          /\ live' \in [Conns -> BOOLEAN] /\ closing' \in [Conns -> BOOLEAN]
      BY <1>3, <2>3 DEF PoolTyped
    <3>2. /\ at' \in [Users -> Connecting \cup {"idle", "holding"}]
          /\ mine' \in [Users -> Conns \cup {Nobody}]
          /\ source' \in [Users -> {"new", "pool", "channel"}]
      <4>1. at' \in [Users -> Connecting \cup {"idle", "holding"}]
        BY <1>3 DEF PoolTyped, Connecting
      <4>2. mine' \in [Users -> Conns \cup {Nobody}]
        BY <1>3 DEF PoolTyped
      <4>3. source' \in [Users -> {"new", "pool", "channel"}]
        BY <1>3 DEF PoolTyped
      <4>4. QED
        BY <4>1, <4>2, <4>3
    <3>3. /\ entry' \in [conn : Conns \cup {Nobody}, inUse : BOOLEAN]
          /\ mu' \in Users \cup {Nobody}
          /\ available' \in Seq(Conns)
      BY <1>1, <1>3 DEF PoolTyped, NoEntry
    <3>4. QED
      BY <3>1, <3>2, <3>3 DEF PoolTyped
  <2> HIDE DEF e
  <2>7. OneHolder'
    BY <1>1, <2>1, <2>2, <2>3, <2>5, <2>6 DEF OneHolder, PoolTyped
  <2>8. CloseCloses'
    <3>1. \A v \in Users \ {u} : mine[v] # Nobody => mine[v] \in Conns \ {k, e}
      BY <2>1, <2>3 DEF PoolTyped
    <3>2. \A v \in Users \ {u} : at'[v] \in Connecting => mine[v] \in Conns \ {k, e} /\ at[v] \in Connecting
      BY <2>5, <3>1 DEF OneHolder, Connecting
    <3>3. \A c \in Conns : live'[c] => c \in Conns \ {k, e}
      BY <2>4
    <3>4. "dial" \in Connecting /\ "backoff" \in Connecting
      BY DEF Connecting
    <3>5. \A c \in Conns : live'[c] => live[c] /\ handle'[c] = handle[c] /\ closing'[c] = closing[c]
      BY <2>4, <3>3
    <3>6. \A c \in Conns : live'[c] => handle'[c] # "none" /\ (closing'[c] => c \in closedEarly')
      BY <1>3, <3>3, <3>5 DEF CloseCloses
    <3>7. \A v \in Users \ {u} : at'[v] \in Connecting =>
            /\ mine'[v] = mine[v] /\ at'[v] = at[v]
            /\ live'[mine[v]] = live[mine[v]] /\ closing'[mine[v]] = closing[mine[v]]
            /\ mine[v] \in closedEarly => mine[v] \in closedEarly'
      BY <1>3, <2>4, <2>5, <3>2
    <3>8. \A v \in Users : at'[v] \in {"dial", "backoff"} => ~live'[mine'[v]]
      BY <2>4, <2>5, <3>4, <3>7 DEF CloseCloses
    <3>9. \A v \in Users : at'[v] \in Connecting /\ closing'[mine'[v]] => mine'[v] \in closedEarly'
      BY <2>4, <2>5, <3>7 DEF CloseCloses
    <3>10. QED
      BY <3>6, <3>8, <3>9 DEF CloseCloses
  <2>9. KeptWereOpened'
    <3>1. \A v \in Users : at'[v] = "holding" => mine'[v] \in Conns \ {k, e} /\ Settled(mine'[v])
      BY <2>1, <2>3, <2>5 DEF KeptWereOpened, PoolTyped, OneHolder
    <3>2. \A i \in DOMAIN available : available[i] \in Conns \ {k, e} /\ Settled(available[i])
      BY <2>1, <2>3 DEF KeptWereOpened, PoolTyped
    <3>3. QED
      BY <1>1, <2>3, <2>4, <3>1, <3>2 DEF KeptWereOpened, Settled
  <2>10. GetHasMutex'
    BY <1>1, <2>2, <2>3, <2>5 DEF GetHasMutex, Idle, PoolTyped, Connecting
  <2>11. LostOnlyReplaced'
    <3>1. ASSUME NEW v \in Users, at'[v] = "holding", source'[v] = "pool", live'[mine'[v]]
          PROVE  mine'[v] \in replaced' \cup closedEarly'
      <4>1. v # u /\ mine[v] \in Conns \ {k, e}
        BY <2>1, <2>3, <2>5, <3>1 DEF PoolTyped, OneHolder
      <4>2. at[v] = "holding" /\ source[v] = "pool" /\ live[mine[v]] /\ mine'[v] = mine[v]
        BY <2>4, <2>5, <3>1, <4>1
      <4>3. mine[v] \in replaced \cup closedEarly
        BY <4>1, <4>2 DEF LostOnlyReplaced, e
      <4>4. QED
        BY <1>1, <1>3, <4>1, <4>2, <4>3
    <3>2. QED
      BY <3>1 DEF LostOnlyReplaced
  <2>12. ASSUME NEW c \in Conns, live'[c]
         PROVE  InReach(c)'
    <3>1. c \in Conns \ {k, e} /\ InReach(c)
      BY <2>4, <2>12 DEF OpenInReach
    <3>2. CASE \E v \in Users : mine[v] = c
      BY <2>2, <2>5, <3>1, <3>2 DEF InReach
    <3>3. QED
      BY <1>1, <1>3, <3>1, <3>2 DEF InReach, e
  <2>13. QED
    BY <2>6, <2>7, <2>8, <2>9, <2>10, <2>11, <2>12 DEF OpenInReach
<1>4. QED
  BY <1>2, <1>3 DEF GetNew, New

(* A step of a Connect changes the user's connection, which nobody else    *)
(* has, and the user, which goes on, gives it up, or holds it.             *)
LEMMA ConnectingStep ==
  ASSUME PoolsInv, NEW u \in Users, at[u] \in Connecting, PoolTyped',
         UNCHANGED <<closing, closedEarly, entry, available, replaced>>,
         \A k \in Conns \ {mine[u]} :
           state'[k] = state[k] /\ handle'[k] = handle[k] /\ live'[k] = live[k],
         \A v \in Users \ {u} : at'[v] = at[v] /\ mine'[v] = mine[v] /\ source'[v] = source[v],
         live'[mine[u]] => handle'[mine[u]] # "none",
         \/ /\ at'[u] \in Connecting /\ mine'[u] = mine[u] /\ source'[u] = source[u]
            /\ at'[u] \in {"dial", "backoff"} => ~live'[mine[u]]
         \/ at'[u] = "idle" /\ mine'[u] = Nobody /\ ~live'[mine[u]]
         \/ /\ at'[u] = "holding" /\ mine'[u] = mine[u] /\ source'[u] = source[u]
            /\ source[u] # "pool" /\ state'[mine[u]] = "OPEN",
         mu' = mu \/ (mu = u /\ mu' = Nobody /\ (source[u] # "pool" \/ at'[u] = "idle"))
  PROVE  PoolsInv'
<1> USE DEF PoolsInv
<1> DEFINE m == mine[u]
<1>1. /\ at[u] # "idle" /\ at[u] # "holding" /\ "idle" \notin Connecting /\ "holding" \notin Connecting
      /\ Nobody \notin Conns /\ Nobody \notin Users
  BY ConnectionAssumption DEF ConnectionAssumption, Connecting
<1>2. /\ m \in Conns
      /\ \A v \in Users \ {u} : mine[v] # m
      /\ entry.conn # m
      /\ \A i \in DOMAIN available : available[i] # m
  BY <1>1 DEF PoolTyped, OneHolder
<1> HIDE DEF m
<1>3. at'[u] = "idle" <=> mine'[u] = Nobody
  BY <1>1, <1>2 DEF m
<1>4. mine'[u] \in {m, Nobody}
  BY DEF m
<1>5. OneHolder'
  <2>1. /\ \A v \in Users : mine'[v] = Nobody <=> at'[v] = "idle"
        /\ \A v, w \in Users : mine'[v] = mine'[w] /\ mine'[v] # Nobody => v = w
    BY <1>2, <1>3, <1>4 DEF OneHolder
  <2>2. \A v \in Users : mine'[v] = entry.conn /\ mine'[v] # Nobody =>
          at'[v] = "holding" /\ source'[v] = "pool" /\ entry.inUse
    BY <1>2, <1>4 DEF OneHolder
  <2>3. \A i \in DOMAIN available, v \in Users : available[i] # mine'[v]
    BY <1>1, <1>2, <1>4 DEF OneHolder, PoolTyped
  <2>4. QED
    BY <2>1, <2>2, <2>3 DEF OneHolder
<1>6. CloseCloses'
  <2>1. \A k \in Conns : live'[k] => handle'[k] # "none"
    BY <1>2 DEF CloseCloses, m
  <2>2. closing[m] => m \in closedEarly
    BY DEF CloseCloses, m
  <2>3. \A k \in Conns : live'[k] /\ closing[k] => k \in closedEarly
    BY <1>2, <2>2 DEF CloseCloses, m
  <2>4. \A v \in Users \ {u} : at[v] \in Connecting => mine[v] \in Conns \ {m}
    BY <1>1, <1>2 DEF OneHolder, PoolTyped
  <2>5. "dial" \in Connecting /\ "backoff" \in Connecting
    BY DEF Connecting
  <2>6. \A v \in Users \ {u} : at'[v] \in {"dial", "backoff"} => ~live'[mine'[v]]
    BY <2>4, <2>5 DEF CloseCloses, m
  <2>7. at'[u] \in {"dial", "backoff"} => ~live'[mine'[u]]
    BY <1>1, <2>5
  <2>8. \A v \in Users : at'[v] \in Connecting /\ closing[mine'[v]] => mine'[v] \in closedEarly
    BY <1>1, <2>2 DEF CloseCloses, m
  <2>9. QED
    BY <2>1, <2>3, <2>6, <2>7, <2>8 DEF CloseCloses
<1>7. KeptWereOpened'
  <2>1. \A k \in Conns \ {m} : Settled(k) => Settled(k)'
    BY DEF Settled, m
  <2>2. \A v \in Users \ {u} : at[v] = "holding" => mine[v] \in Conns \ {m}
    BY <1>2 DEF OneHolder, PoolTyped
  <2>3. at'[u] = "holding" => Settled(mine[u])'
    BY <1>1 DEF Settled, Connecting
  <2>4. \A v \in Users : at'[v] = "holding" => Settled(mine[v])'
    BY <2>1, <2>2, <2>3 DEF KeptWereOpened, Settled
  <2>5. entry.conn # Nobody => Settled(entry.conn)'
    BY <1>2, <2>1 DEF KeptWereOpened, PoolTyped
  <2>6. \A i \in DOMAIN available : Settled(available[i])'
    BY <1>2, <2>1 DEF KeptWereOpened, PoolTyped, Settled
  <2>7. QED
    BY <2>4, <2>5, <2>6 DEF KeptWereOpened
<1>8. GetHasMutex'
  <2>1. Idle' = Idle
    BY <1>2 DEF Idle, PoolTyped, m
  <2>2. \A v \in Users : source'[v] = "pool" /\ at'[v] \in Connecting => mu' = v
    BY <1>1 DEF GetHasMutex
  <2>3. QED
    BY <2>1, <2>2 DEF GetHasMutex
<1>9. LostOnlyReplaced'
  <2>1. \A v \in Users \ {u} : at[v] = "holding" => mine[v] \in Conns \ {m}
    BY <1>2 DEF OneHolder, PoolTyped
  <2>2. QED
    BY <1>1, <2>1 DEF LostOnlyReplaced, m
<1>10. ASSUME NEW c \in Conns, live'[c]
       PROVE  InReach(c)'
  <2>1. CASE c = m
    BY <1>2, <1>10, <2>1 DEF InReach, m
  <2>2. CASE c # m
    BY <1>10, <2>2 DEF OpenInReach, InReach, m
  <2>3. QED
    BY <2>1, <2>2
<1>11. QED
  BY <1>5, <1>6, <1>7, <1>8, <1>9, <1>10 DEF OpenInReach

(* A user that is not idle works on a connection.                          *)
LEMMA MineTyped ==
  ASSUME PoolsInv, NEW u \in Users, at[u] # "idle"
  PROVE  mine[u] \in Conns
BY DEF PoolsInv, PoolTyped, OneHolder

(* A dial or a handshake that fails gives the lock back.                   *)
LEMMA ConnectFailsStep ==
  ASSUME PoolsInv, NEW u \in Users, DialFails(u) \/ HandshakeFails(u),
         mu' = IF mu = u THEN Nobody ELSE mu, UNCHANGED <<entry, available, replaced>>
  PROVE  PoolsInv'
<1> USE DEF PoolsInv
<1>1. at[u] \in {"dial", "tls"} /\ at[u] \in Connecting /\ mine[u] \in Conns
  BY MineTyped DEF DialFails, HandshakeFails, Connecting
<1>2. /\ UNCHANGED <<handle, closing, closedEarly>>
      /\ live' = [live EXCEPT ![mine[u]] = FALSE]
      /\ state' = [state EXCEPT ![mine[u]] = "FAILED"]
  <2>1. CASE DialFails(u)
    <3>1. live[mine[u]] = FALSE
      BY <1>1, <2>1 DEF DialFails, CloseCloses, PoolTyped
    <3>2. live' = [live EXCEPT ![mine[u]] = FALSE]
      BY <1>1, <2>1, <3>1 DEF DialFails, PoolTyped
    <3>3. QED
      BY <2>1, <3>2 DEF DialFails, ConnectFailed
  <2>2. CASE HandshakeFails(u)
    BY <2>2 DEF HandshakeFails, ConnectFailed
  <2>3. QED
    BY <2>1, <2>2
<1>3. \/ /\ source[u] # "pool"
         /\ at' = [at EXCEPT ![u] = "backoff"] /\ UNCHANGED <<mine, source>>
      \/ /\ at' = [at EXCEPT ![u] = "idle"] /\ mine' = [mine EXCEPT ![u] = Nobody]
         /\ source' = [source EXCEPT ![u] = "new"]
  BY DEF DialFails, HandshakeFails, ConnectFailed, Drop
<1>4. /\ \A v \in Users \ {u} : at'[v] = at[v] /\ mine'[v] = mine[v] /\ source'[v] = source[v]
      /\ \/ at'[u] = "backoff" /\ mine'[u] = mine[u] /\ source'[u] = source[u] /\ source[u] # "pool"
         \/ at'[u] = "idle" /\ mine'[u] = Nobody
  BY <1>3 DEF PoolTyped
<1>5. /\ \A k \in Conns \ {mine[u]} :
           state'[k] = state[k] /\ handle'[k] = handle[k] /\ live'[k] = live[k]
      /\ ~live'[mine[u]]
  BY <1>1, <1>2 DEF PoolTyped
<1>6. PoolTyped'
  <2>1. /\ state' \in [Conns -> {"CONNECTING", "HANDSHAKING", "OPEN", "CLOSED", "FAILED"}]
        /\ live' \in [Conns -> BOOLEAN]
    BY <1>1, <1>2 DEF PoolTyped
  <2>2. /\ at' \in [Users -> Connecting \cup {"idle", "holding"}]
        /\ mine' \in [Users -> Conns \cup {Nobody}]
        /\ source' \in [Users -> {"new", "pool", "channel"}]
    <3>1. at' \in [Users -> Connecting \cup {"idle", "holding"}]
      BY <1>3 DEF PoolTyped, Connecting
    <3>2. mine' \in [Users -> Conns \cup {Nobody}]
      BY <1>3 DEF PoolTyped
    <3>3. source' \in [Users -> {"new", "pool", "channel"}]
      BY <1>3 DEF PoolTyped
    <3>4. QED
      BY <3>1, <3>2, <3>3
  <2>3. QED
    BY <1>2, <2>1, <2>2 DEF PoolTyped
<1>7. "backoff" \in Connecting
  BY DEF Connecting
<1>8. mu' = mu \/ (mu = u /\ mu' = Nobody /\ (source[u] # "pool" \/ at'[u] = "idle"))
  BY <1>4
<1>9. /\ live'[mine[u]] => handle'[mine[u]] # "none"
      /\ \/ /\ at'[u] \in Connecting /\ mine'[u] = mine[u] /\ source'[u] = source[u]
            /\ at'[u] \in {"dial", "backoff"} => ~live'[mine[u]]
         \/ at'[u] = "idle" /\ mine'[u] = Nobody /\ ~live'[mine[u]]
  BY <1>4, <1>5, <1>7
<1> HIDE DEF PoolsInv
<1>10. QED
  BY <1>1, <1>2, <1>4, <1>5, <1>6, <1>8, <1>9, ConnectingStep

(* The other steps of Connect leave the pools alone.                       *)
LEMMA ConnectGoesOnStep ==
  ASSUME PoolsInv, NEW u \in Users,
         Dial(u) \/ Handshake(u) \/ Retry(u) \/ GiveUp(u) \/ (source[u] # "pool" /\ Opened(u)),
         UNCHANGED poolVars
  PROVE  PoolsInv'
<1>1. at[u] \in Connecting /\ mine[u] \in Conns
  BY MineTyped DEF Dial, Handshake, Retry, GiveUp, Opened, Connecting
<1>2. UNCHANGED <<closing, closedEarly, entry, available, replaced, mu>>
  BY DEF Dial, Handshake, Retry, GiveUp, Opened, poolVars, connVars
<1>3. CASE Dial(u)
  <2>1. /\ handle' = [handle EXCEPT ![mine[u]] = "tcp"]
        /\ live' = [live EXCEPT ![mine[u]] = TRUE]
        /\ state' = [state EXCEPT ![mine[u]] = "HANDSHAKING"]
        /\ at' = [at EXCEPT ![u] = "tls"] /\ UNCHANGED <<mine, source>>
    BY <1>3 DEF Dial
  <2>2. PoolTyped'
    BY <1>1, <1>2, <2>1 DEF PoolsInv, PoolTyped, Connecting
  <2>3. /\ \A k \in Conns \ {mine[u]} :
             state'[k] = state[k] /\ handle'[k] = handle[k] /\ live'[k] = live[k]
        /\ handle'[mine[u]] = "tcp" /\ at'[u] = "tls"
        /\ \A v \in Users \ {u} : at'[v] = at[v]
    BY <1>1, <2>1 DEF PoolsInv, PoolTyped
  <2>4. at'[u] \in Connecting /\ at'[u] \notin {"dial", "backoff"}
    BY <2>3 DEF Connecting
  <2>5. QED
    BY <1>1, <1>2, <2>1, <2>2, <2>3, <2>4, ConnectingStep
<1>4. CASE Handshake(u)
  <2>1. /\ handle' = [handle EXCEPT ![mine[u]] = "tls"]
        /\ at' = [at EXCEPT ![u] = "opening"] /\ UNCHANGED <<state, live, mine, source>>
    BY <1>4 DEF Handshake
  <2>2. PoolTyped'
    BY <1>1, <1>2, <2>1 DEF PoolsInv, PoolTyped, Connecting
  <2>3. /\ \A k \in Conns \ {mine[u]} : handle'[k] = handle[k]
        /\ handle'[mine[u]] = "tls" /\ at'[u] = "opening"
        /\ \A v \in Users \ {u} : at'[v] = at[v]
    BY <1>1, <2>1 DEF PoolsInv, PoolTyped
  <2>4. at'[u] \in Connecting /\ at'[u] \notin {"dial", "backoff"}
    BY <2>3 DEF Connecting
  <2>5. QED
    BY <1>1, <1>2, <2>1, <2>2, <2>3, <2>4, ConnectingStep
<1>5. CASE Retry(u)
  <2>1. at' = [at EXCEPT ![u] = "dial"] /\ UNCHANGED <<state, handle, live, mine, source>>
    BY <1>5 DEF Retry, connVars
  <2>2. PoolTyped'
    BY <1>2, <2>1 DEF PoolsInv, PoolTyped, Connecting
  <2>3. at'[u] = "dial" /\ \A v \in Users \ {u} : at'[v] = at[v]
    BY <2>1 DEF PoolsInv, PoolTyped
  <2>4. ~live[mine[u]]
    BY <1>5 DEF Retry, PoolsInv, CloseCloses
  <2>5. at'[u] \in Connecting
    BY <2>3 DEF Connecting
  <2>6. QED
    BY <1>1, <1>2, <2>1, <2>2, <2>3, <2>4, <2>5, ConnectingStep
<1>6. CASE GiveUp(u)
  <2>1. /\ at' = [at EXCEPT ![u] = "idle"] /\ mine' = [mine EXCEPT ![u] = Nobody]
        /\ source' = [source EXCEPT ![u] = "new"] /\ UNCHANGED <<state, handle, live>>
    BY <1>6 DEF GiveUp, Drop, connVars
  <2>2. PoolTyped'
    BY <1>2, <2>1 DEF PoolsInv, PoolTyped
  <2>3. /\ at'[u] = "idle" /\ mine'[u] = Nobody
        /\ \A v \in Users \ {u} : at'[v] = at[v] /\ mine'[v] = mine[v] /\ source'[v] = source[v]
    BY <2>1 DEF PoolsInv, PoolTyped
  <2>4. ~live[mine[u]]
    BY <1>6 DEF GiveUp, PoolsInv, CloseCloses
  <2>5. QED
    BY <1>1, <1>2, <2>1, <2>2, <2>3, <2>4, ConnectingStep
<1>7. CASE source[u] # "pool" /\ Opened(u)
  <2>1. /\ state' = [state EXCEPT ![mine[u]] = "OPEN"]
        /\ at' = [at EXCEPT ![u] = "holding"] /\ UNCHANGED <<handle, live, mine, source>>
    BY <1>7 DEF Opened
  <2>2. PoolTyped'
    BY <1>1, <1>2, <2>1 DEF PoolsInv, PoolTyped
  <2>3. /\ \A k \in Conns \ {mine[u]} : state'[k] = state[k]
        /\ state'[mine[u]] = "OPEN" /\ at'[u] = "holding"
        /\ \A v \in Users \ {u} : at'[v] = at[v]
    BY <1>1, <2>1 DEF PoolsInv, PoolTyped
  <2>4. live[mine[u]] => handle[mine[u]] # "none"
    BY <1>1 DEF PoolsInv, CloseCloses
  <2>5. QED
    BY <1>1, <1>2, <1>7, <2>1, <2>2, <2>3, <2>4, ConnectingStep
<1>8. QED
  BY <1>3, <1>4, <1>5, <1>6, <1>7

(* Get puts what it has opened in the entry, in the place of one that is   *)
(* in use or closed: had there been an idle one, Get would have taken it.  *)
LEMMA StoreStep ==
  ASSUME PoolsInv, NEW u \in Users, Store(u)
  PROVE  PoolsInv'
<1> USE DEF PoolsInv
<1> DEFINE m == mine[u]
<1>1. /\ source[u] = "pool" /\ at[u] = "opening" /\ m \in Conns
      /\ state' = [state EXCEPT ![m] = "OPEN"]
      /\ at' = [at EXCEPT ![u] = "holding"]
      /\ replaced' = IF entry.inUse THEN replaced \cup {entry.conn} ELSE replaced
      /\ entry' = [conn |-> m, inUse |-> TRUE]
      /\ mu' = Nobody
      /\ UNCHANGED <<handle, live, closing, closedEarly, mine, source, available>>
  BY MineTyped DEF Store, Opened
<1>2. /\ \A v \in Users \ {u} : mine[v] # m
      /\ entry.conn # m
      /\ \A i \in DOMAIN available : available[i] # m
      /\ at[u] \in Connecting /\ "holding" \notin Connecting
      /\ Nobody \notin Conns /\ Nobody \notin Users
  BY <1>1, ConnectionAssumption DEF ConnectionAssumption, OneHolder, PoolTyped, Connecting
<1>3. ~Idle
  BY <1>1, <1>2 DEF GetHasMutex
<1> HIDE DEF m
<1>4. /\ \A c \in Conns \ {m} : state'[c] = state[c]
      /\ state'[m] = "OPEN" /\ at'[u] = "holding"
      /\ \A v \in Users \ {u} : at'[v] = at[v]
  BY <1>1 DEF PoolTyped
<1>5. PoolTyped'
  BY <1>1 DEF PoolTyped
<1>6. OneHolder'
  BY <1>1, <1>2, <1>4 DEF OneHolder, m
<1>7. CloseCloses'
  BY <1>1, <1>2, <1>4 DEF CloseCloses, m
<1>8. KeptWereOpened'
  <2>1. \A c \in Conns : Settled(c) => Settled(c)'
    BY <1>1, <1>4 DEF Settled
  <2>2. \A v \in Users \ {u} : at'[v] = "holding" => Settled(mine[v]) /\ mine[v] \in Conns
    BY <1>4 DEF KeptWereOpened, OneHolder, PoolTyped
  <2>3. \A i \in DOMAIN available : Settled(available[i]) /\ available[i] \in Conns
    BY DEF KeptWereOpened, PoolTyped
  <2>4. QED
    BY <1>1, <1>4, <2>1, <2>2, <2>3 DEF KeptWereOpened, Settled, m
<1>9. GetHasMutex'
  BY <1>1, <1>2, <1>4 DEF GetHasMutex
<1>10. LostOnlyReplaced'
  <2>1. \A v \in Users \ {u} : at[v] = "holding" /\ source[v] = "pool" /\ live[mine[v]] =>
          mine[v] \in replaced' \cup closedEarly
    BY <1>1 DEF LostOnlyReplaced, OneHolder
  <2>2. QED
    BY <1>1, <1>4, <2>1 DEF LostOnlyReplaced, m
<1>11. ASSUME NEW c \in Conns, live'[c]
       PROVE  InReach(c)'
  <2>1. live[c] /\ InReach(c)
    BY <1>1, <1>11 DEF OpenInReach
  <2>2. CASE entry.conn = c
    <3>1. entry.inUse \/ closing[c]
      BY <1>2, <1>3, <2>2 DEF Idle, KeptWereOpened, Settled
    <3>2. c \in replaced' \cup closedEarly
      BY <1>1, <2>1, <2>2, <3>1 DEF CloseCloses
    <3>3. QED
      BY <1>1, <3>2 DEF InReach
  <2>3. CASE entry.conn # c
    BY <1>1, <2>1, <2>3 DEF InReach
  <2>4. QED
    BY <2>2, <2>3
<1>12. QED
  BY <1>5, <1>6, <1>7, <1>8, <1>9, <1>10, <1>11 DEF OpenInReach

(* The pool hands out the connection it holds for the relay.               *)
LEMMA ReuseStep ==
  ASSUME PoolsInv, NEW u \in Users, Reuse(u)
  PROVE  PoolsInv'
<1> USE DEF PoolsInv
<1> DEFINE e == entry.conn
<1>1. /\ at[u] = "idle" /\ mu = Nobody /\ e # Nobody /\ ~entry.inUse /\ state[e] = "OPEN"
      /\ entry' = [entry EXCEPT !.inUse = TRUE]
      /\ mine' = [mine EXCEPT ![u] = e]
      /\ source' = [source EXCEPT ![u] = "pool"]
      /\ at' = [at EXCEPT ![u] = "holding"]
      /\ UNCHANGED <<state, handle, live, closing, closedEarly, mu, available, replaced>>
  BY DEF Reuse, Idle, connVars
<1>2. /\ e \in Conns /\ entry'.conn = e /\ entry'.inUse
      /\ \A v \in Users : mine[v] # e
      /\ \A i \in DOMAIN available : available[i] # e
      /\ mine[u] = Nobody /\ Nobody \notin Users /\ Nobody \notin Conns
  BY <1>1, ConnectionAssumption DEF ConnectionAssumption, PoolTyped, OneHolder
<1>3. /\ at'[u] = "holding" /\ mine'[u] = e /\ source'[u] = "pool"
      /\ \A v \in Users \ {u} : at'[v] = at[v] /\ mine'[v] = mine[v] /\ source'[v] = source[v]
  BY <1>1 DEF PoolTyped
<1>4. PoolTyped'
  BY <1>1 DEF PoolTyped
<1> HIDE DEF e
<1>5. "holding" # "idle" /\ "holding" \notin Connecting /\ "holding" \notin {"dial", "backoff"}
  BY DEF Connecting
<1>6. OneHolder'
  BY <1>1, <1>2, <1>3 DEF OneHolder
<1>7. CloseCloses'
  BY <1>1, <1>3, <1>5 DEF CloseCloses
<1>8. KeptWereOpened'
  BY <1>1, <1>2, <1>3 DEF KeptWereOpened, Settled
<1>9. GetHasMutex' /\ LostOnlyReplaced'
  BY <1>1, <1>2, <1>3, <1>5 DEF GetHasMutex, LostOnlyReplaced
<1>10. ASSUME NEW c \in Conns, live'[c]
       PROVE  InReach(c)'
  BY <1>1, <1>2, <1>3, <1>10 DEF OpenInReach, InReach, e
<1>11. QED
  BY <1>4, <1>6, <1>7, <1>8, <1>9, <1>10 DEF OpenInReach

(* A user takes the first available connection.                            *)
LEMMA AcquireStep ==
  ASSUME PoolsInv, NEW u \in Users, Acquire(u)
  PROVE  PoolsInv'
<1>1. CASE NewDirect(u)
  <2>1. PICK k \in Conns : Fresh(k) /\ New(u, k, "new")
    BY <1>1 DEF NewDirect
  <2>2. QED
    BY <1>1, <2>1, NewStep DEF NewDirect, poolVars
<1>2. CASE GetAvailable(u)
  <2>1. at[u] = "idle" /\ UNCHANGED <<entry, mu, replaced>>
    BY <1>2 DEF GetAvailable
  <2>2. CASE \/ available = << >> /\ UNCHANGED available
             \/ available # << >> /\ available' = Tail(available) /\ state[Head(available)] # "OPEN"
    <3>1. PICK k \in Conns : Fresh(k) /\ New(u, k, "channel")
      BY <1>2, <2>2 DEF GetAvailable
    <3>2. QED
      BY <2>1, <2>2, <3>1, NewStep
  <2>3. CASE available # << >> /\ state[Head(available)] = "OPEN"
    <3> USE DEF PoolsInv
    <3> DEFINE h == Head(available)
    <3>1. /\ available' = Tail(available)
          /\ mine' = [mine EXCEPT ![u] = h]
          /\ source' = [source EXCEPT ![u] = "channel"]
          /\ at' = [at EXCEPT ![u] = "holding"]
          /\ UNCHANGED <<state, handle, live, closing, closedEarly>>
      BY <1>2, <2>3 DEF GetAvailable, connVars
    <3>2. /\ available' \in Seq(Conns) /\ h \in Conns
          /\ 1 \in DOMAIN available /\ h = available[1]
          /\ \A i \in DOMAIN available' :
               i \in Nat \ {0} /\ i + 1 \in DOMAIN available /\ available'[i] = available[i + 1]
          /\ \A i \in DOMAIN available : i = 1 \/ \E j \in DOMAIN available' : available'[j] = available[i]
      BY <2>3, <3>1, TailOfAvailable DEF PoolTyped
    <3>3. /\ h # entry.conn /\ \A v \in Users : mine[v] # h
          /\ mine[u] = Nobody /\ Nobody \notin Users /\ Nobody \notin Conns
      BY <2>1, <3>2, ConnectionAssumption DEF ConnectionAssumption, OneHolder
    <3>4. /\ at'[u] = "holding" /\ mine'[u] = h /\ source'[u] = "channel"
          /\ \A v \in Users \ {u} : at'[v] = at[v] /\ mine'[v] = mine[v] /\ source'[v] = source[v]
      BY <3>1 DEF PoolTyped
    <3>5. PoolTyped'
      BY <2>1, <3>1, <3>2 DEF PoolTyped
    <3> HIDE DEF h
    <3>6. "holding" # "idle" /\ "holding" \notin Connecting /\ "holding" \notin {"dial", "backoff"}
      BY DEF Connecting
    <3>7. OneHolder'
      <4>1. \A i \in DOMAIN available' :
              /\ available'[i] # entry.conn
              /\ \A v \in Users : available'[i] # mine[v]
              /\ available'[i] # h
        <5>1. \A i \in DOMAIN available' : i + 1 # 1
          BY <3>2
        <5>2. QED
          BY <3>2, <5>1 DEF OneHolder
      <4>2. ASSUME NEW i \in DOMAIN available', NEW j \in DOMAIN available', available'[i] = available'[j]
            PROVE  i = j
        <5>1. i + 1 = j + 1 /\ i \in Nat /\ j \in Nat
          BY <3>2, <4>2 DEF OneHolder
        <5>2. QED
          BY <5>1
      <4>3. /\ \A v \in Users : mine'[v] = Nobody <=> at'[v] = "idle"
            /\ \A v, w \in Users : mine'[v] = mine'[w] /\ mine'[v] # Nobody => v = w
            /\ \A v \in Users : mine'[v] = entry'.conn /\ mine'[v] # Nobody =>
                 at'[v] = "holding" /\ source'[v] = "pool" /\ entry'.inUse
        BY <2>1, <3>2, <3>3, <3>4, <3>6 DEF OneHolder
      <4>4. QED
        BY <2>1, <3>4, <4>1, <4>2, <4>3 DEF OneHolder
    <3>8. CloseCloses'
      BY <3>1, <3>4, <3>6 DEF CloseCloses
    <3>9. KeptWereOpened'
      BY <2>1, <2>3, <3>1, <3>2, <3>4 DEF KeptWereOpened, Settled, h
    <3>10. GetHasMutex' /\ LostOnlyReplaced'
      <4>1. Idle' = Idle
        BY <2>1, <3>1 DEF Idle
      <4>2. QED
        BY <2>1, <3>1, <3>4, <3>6, <4>1 DEF GetHasMutex, LostOnlyReplaced
    <3>11. ASSUME NEW c \in Conns, live'[c]
           PROVE  InReach(c)'
      <4>1. InReach(c)
        BY <3>1, <3>11 DEF OpenInReach
      <4>2. CASE c = h
        BY <3>4, <4>2 DEF InReach
      <4>3. CASE c # h
        BY <2>1, <3>1, <3>2, <3>3, <3>4, <4>1, <4>3 DEF InReach
      <4>4. QED
        BY <4>2, <4>3
    <3>12. QED
      BY <3>5, <3>7, <3>8, <3>9, <3>10, <3>11 DEF OpenInReach
  <2>4. QED
    BY <1>2, <2>2, <2>3 DEF GetAvailable
<1>3. QED
  BY <1>1, <1>2, ReuseStep, GetNewStep DEF Acquire

(* A user lets go of what it holds, which a pool keeps, or which is        *)
(* closed, or of which the pool knew nothing any more.                     *)
LEMMA DropStep ==
  ASSUME PoolsInv, NEW u \in Users, at[u] = "holding", Drop(u), PoolTyped', CloseCloses',
         UNCHANGED <<mu, closedEarly, replaced>>,
         \A k \in Conns : Settled(k) => Settled(k)',
         \A k \in Conns : (live'[k] => live[k]) /\ (state'[k] = "OPEN" => state[k] = "OPEN"),
         \/ entry' = entry
         \/ mu = Nobody /\ entry.conn = mine[u] /\ entry' = [entry EXCEPT !.inUse = FALSE],
         \/ available' = available
         \/ entry.conn # mine[u] /\ available' = Append(available, mine[u]),
         live'[mine[u]] =>
           \/ entry.conn = mine[u]
           \/ available' = Append(available, mine[u])
           \/ mine[u] \in replaced \cup closedEarly
  PROVE  PoolsInv'
<1> USE DEF PoolsInv
<1> DEFINE m == mine[u]
<1>1. /\ m \in Conns
      /\ \A v \in Users \ {u} : mine[v] # m
      /\ \A i \in DOMAIN available : available[i] # m
      /\ Nobody \notin Conns /\ Nobody \notin Users
  BY ConnectionAssumption, MineTyped DEF ConnectionAssumption, OneHolder
<1>2. /\ at'[u] = "idle" /\ mine'[u] = Nobody /\ source'[u] = "new"
      /\ \A v \in Users \ {u} : at'[v] = at[v] /\ mine'[v] = mine[v] /\ source'[v] = source[v]
  BY DEF Drop, PoolTyped
<1> HIDE DEF m
<1>3. /\ entry'.conn = entry.conn
      /\ entry.conn # m => entry' = entry
      /\ mu # Nobody => entry' = entry
  BY DEF PoolTyped, m
<1>4. /\ \A i \in DOMAIN available' : i \in DOMAIN available \/ i = Len(available) + 1
      /\ \A i \in DOMAIN available : i \in DOMAIN available' /\ available'[i] = available[i]
      /\ Len(available) + 1 \notin DOMAIN available
      /\ Len(available) + 1 \in DOMAIN available' => available'[Len(available) + 1] = m /\ entry.conn # m
  <2>1. /\ available \in Seq(Conns)
        /\ \A i \in DOMAIN available : i # Len(available) + 1
    BY DEF PoolTyped
  <2>2. CASE available' = available
    BY <2>1, <2>2
  <2>3. CASE entry.conn # m /\ available' = Append(available, m)
    BY <1>1, <2>1, <2>3, AppendToAvailable
  <2>4. QED
    BY <2>2, <2>3 DEF m
<1>5. \A i \in DOMAIN available' : available'[i] = m \/ i \in DOMAIN available
  BY <1>4
<1>6. OneHolder'
  <2>1. /\ \A v \in Users : mine'[v] = Nobody <=> at'[v] = "idle"
        /\ \A v, w \in Users : mine'[v] = mine'[w] /\ mine'[v] # Nobody => v = w
    BY <1>1, <1>2 DEF OneHolder
  <2>2. \A v \in Users : mine'[v] = entry'.conn /\ mine'[v] # Nobody =>
          at'[v] = "holding" /\ source'[v] = "pool" /\ entry'.inUse
    BY <1>1, <1>2, <1>3 DEF OneHolder
  <2>3. \A i \in DOMAIN available' :
          /\ available'[i] # entry'.conn
          /\ \A v \in Users : available'[i] # mine'[v]
    BY <1>1, <1>2, <1>3, <1>4 DEF OneHolder, PoolTyped
  <2>4. \A i, j \in DOMAIN available' : available'[i] = available'[j] => i = j
    BY <1>1, <1>4 DEF OneHolder
  <2>5. QED
    BY <2>1, <2>2, <2>3, <2>4 DEF OneHolder
<1>7. KeptWereOpened'
  <2>1. \A v \in Users : at'[v] = "holding" => mine'[v] \in Conns /\ Settled(mine'[v])
    BY <1>2 DEF KeptWereOpened, PoolTyped, OneHolder
  <2>2. Settled(m)
    BY DEF KeptWereOpened, m
  <2>3. \A i \in DOMAIN available' : available'[i] \in Conns /\ Settled(available'[i])
    BY <1>1, <1>4, <2>2 DEF KeptWereOpened, PoolTyped
  <2>4. entry'.conn # Nobody => entry'.conn \in Conns /\ Settled(entry'.conn)
    BY <1>3 DEF KeptWereOpened, PoolTyped
  <2>5. QED
    BY <2>1, <2>3, <2>4 DEF KeptWereOpened, Settled
<1>8. GetHasMutex'
  <2>1. Idle' /\ mu # Nobody => Idle
    BY <1>3 DEF Idle, PoolTyped
  <2>2. QED
    BY <1>2, <2>1 DEF GetHasMutex, Connecting
<1>9. LostOnlyReplaced'
  BY <1>1, <1>2, <1>3 DEF LostOnlyReplaced, PoolTyped, OneHolder
<1>10. ASSUME NEW c \in Conns, live'[c]
       PROVE  InReach(c)'
  <2>1. CASE c = m
    <3>1. CASE available' = Append(available, m)
      <4>1. Len(available) + 1 \in DOMAIN available'
        BY <1>1, <3>1, AppendToAvailable DEF PoolTyped
      <4>2. QED
        BY <1>4, <2>1, <4>1 DEF InReach
    <3>2. CASE entry.conn = m \/ m \in replaced \cup closedEarly
      BY <1>3, <2>1, <3>2 DEF InReach
    <3>3. QED
      BY <1>10, <2>1, <3>1, <3>2 DEF m
  <2>2. CASE c # m
    <3>1. InReach(c)
      BY <1>10 DEF OpenInReach
    <3>2. \A v \in Users : mine[v] = c => mine'[v] = c
      BY <1>2, <2>2 DEF m
    <3>3. \A i \in DOMAIN available : available[i] = c => i \in DOMAIN available' /\ available'[i] = c
      BY <1>4
    <3>4. QED
      BY <1>3, <3>1, <3>2, <3>3 DEF InReach
  <2>3. QED
    BY <2>1, <2>2
<1>11. QED
  BY <1>6, <1>7, <1>8, <1>9, <1>10 DEF OpenInReach

(* A connection is put back: into its entry, or to the available ones.     *)
LEMMA ReleaseStep ==
  ASSUME PoolsInv, NEW u \in Users, Release(u)
  PROVE  PoolsInv'
<1> DEFINE m == mine[u]
<1>1. /\ at[u] = "holding" /\ Drop(u) /\ UNCHANGED <<mu, closedEarly, replaced>>
      /\ m \in Conns
  BY MineTyped DEF Release, CloseMine, Put, PutAvailable, connVars, poolVars
<1>2. /\ at' \in [Users -> Connecting \cup {"idle", "holding"}]
      /\ mine' \in [Users -> Conns \cup {Nobody}]
      /\ source' \in [Users -> {"new", "pool", "channel"}]
      /\ \A v \in Users : at'[v] \in Connecting => at[v] \in Connecting /\ mine'[v] = mine[v] /\ at'[v] = at[v]
  BY <1>1 DEF PoolsInv, PoolTyped, Drop, Connecting
<1>3. ASSUME Close({m}), UNCHANGED <<entry, available>>
      PROVE  PoolsInv'
  <2>1. /\ state' \in [Conns -> {"CONNECTING", "HANDSHAKING", "OPEN", "CLOSED", "FAILED"}]
        /\ handle' = handle
        /\ live' \in [Conns -> BOOLEAN] /\ closing' \in [Conns -> BOOLEAN]
        /\ closing'[m]
        /\ \A k \in Conns :
             /\ k # m => closing'[k] = closing[k]
             /\ live'[k] => live[k]
             /\ live'[k] /\ closing'[k] => k \in closedEarly
             /\ state'[k] = "OPEN" => state[k] = "OPEN"
             /\ Settled(k) => Settled(k)'
    BY <1>1, <1>3, CloseEffect DEF PoolsInv
  <2>2. PoolTyped'
    BY <1>1, <1>2, <1>3, <2>1 DEF PoolsInv, PoolTyped
  <2>3. CloseCloses'
    <3>1. \A v \in Users : at[v] \in Connecting => mine[v] \in Conns \ {m}
      BY <1>1 DEF PoolsInv, OneHolder, PoolTyped, Connecting
    <3>2. "dial" \in Connecting /\ "backoff" \in Connecting
      BY DEF Connecting
    <3>3. \A k \in Conns : live'[k] => handle'[k] # "none" /\ (closing'[k] => k \in closedEarly')
      BY <1>1, <2>1 DEF PoolsInv, CloseCloses
    <3>4. \A v \in Users : at'[v] \in {"dial", "backoff"} => ~live'[mine'[v]]
      BY <1>2, <2>1, <3>1, <3>2 DEF PoolsInv, CloseCloses
    <3>5. \A v \in Users : at'[v] \in Connecting /\ closing'[mine'[v]] => mine'[v] \in closedEarly'
      BY <1>1, <1>2, <2>1, <3>1 DEF PoolsInv, CloseCloses
    <3>6. QED
      BY <3>3, <3>4, <3>5 DEF CloseCloses
  <2>4. live'[m] => m \in closedEarly
    BY <1>1, <2>1
  <2>5. QED
    BY <1>1, <1>3, <2>1, <2>2, <2>3, <2>4, DropStep
<1>4. ASSUME UNCHANGED <<state, handle, live, closing>>, PoolTyped',
             \/ entry' = entry
             \/ mu = Nobody /\ entry.conn = m /\ entry' = [entry EXCEPT !.inUse = FALSE],
             \/ available' = available
             \/ entry.conn # m /\ available' = Append(available, m),
             live[m] =>
               \/ entry.conn = m
               \/ available' = Append(available, m)
               \/ m \in replaced \cup closedEarly
      PROVE  PoolsInv'
  <2>1. \A k \in Conns : Settled(k) => Settled(k)'
    BY <1>4 DEF Settled
  <2>2. CloseCloses'
    <3>1. "dial" \in Connecting /\ "backoff" \in Connecting
      BY DEF Connecting
    <3>2. QED
      BY <1>1, <1>2, <1>4, <3>1 DEF PoolsInv, CloseCloses
  <2>3. QED
    BY <1>1, <1>4, <2>1, <2>2, DropStep
<1>5. CASE CloseMine(u)
  BY <1>3, <1>5 DEF CloseMine, poolVars
<1>6. CASE Put(u)
  <2>1. /\ UNCHANGED <<state, handle, live, closing, available>> /\ mu = Nobody /\ source[u] = "pool"
        /\ entry' = IF entry.conn = m THEN [entry EXCEPT !.inUse = FALSE] ELSE entry
    BY <1>6 DEF Put, connVars
  <2>2. PoolTyped'
    BY <1>1, <1>2, <2>1 DEF PoolsInv, PoolTyped
  <2>3. live[m] => entry.conn = m \/ m \in replaced \cup closedEarly
    BY <1>1, <2>1 DEF PoolsInv, LostOnlyReplaced
  <2>4. QED
    BY <1>4, <2>1, <2>2, <2>3
<1>7. CASE PutAvailable(u)
  <2>1. source[u] = "channel" /\ UNCHANGED entry
    BY <1>7 DEF PutAvailable
  <2>2. entry.conn # m
    BY <1>1, <2>1, ConnectionAssumption DEF ConnectionAssumption, PoolsInv, OneHolder
  <2>3. CASE Close({m}) /\ UNCHANGED available
    BY <1>3, <2>1, <2>3
  <2>4. CASE UNCHANGED <<state, handle, live, closing>> /\ available' = Append(available, m)
    <3>1. available' \in Seq(Conns)
      BY <1>1, <2>4, AppendToAvailable DEF PoolsInv, PoolTyped
    <3>2. PoolTyped'
      BY <1>1, <1>2, <2>1, <2>4, <3>1 DEF PoolsInv, PoolTyped
    <3>3. QED
      BY <1>4, <2>1, <2>2, <2>4, <3>2
  <2>5. CASE state[m] # "OPEN" /\ UNCHANGED <<state, handle, live, closing, available>>
    <3>1. PoolTyped'
      BY <1>1, <1>2, <2>1, <2>5 DEF PoolsInv, PoolTyped
    <3>2. live[m] => m \in closedEarly
      BY <1>1, <2>5 DEF PoolsInv, KeptWereOpened, Settled, CloseCloses
    <3>3. QED
      BY <1>4, <2>1, <2>5, <3>1, <3>2
  <2>6. QED
    BY <1>7, <2>3, <2>4, <2>5 DEF PutAvailable, connVars
<1>8. QED
  BY <1>5, <1>6, <1>7 DEF Release

(* What is closed, the entry or all that the channel holds, is closed      *)
(* under those who use it, and leaves the pool.                            *)
LEMMA CloseStep ==
  ASSUME PoolsInv, NEW ks, Close(ks), UNCHANGED <<at, mine, source, mu, replaced>>,
         PoolTyped',
         \/ closedEarly' = closedEarly
         \/ closedEarly' = closedEarly \cup ks,
         \A u \in Users : at[u] \in Connecting => mine[u] \notin ks \/ closedEarly' = closedEarly \cup ks,
         \/ entry' = entry
         \/ entry.conn \in ks /\ entry' = NoEntry,
         \/ available' = available
         \/ available' = << >> /\ \A i \in DOMAIN available : available[i] \in ks
  PROVE  PoolsInv'
<1> USE DEF PoolsInv
<1>1. /\ handle' = handle
      /\ \A k \in Conns :
           /\ k \in ks => closing'[k]
           /\ k \notin ks => state'[k] = state[k] /\ live'[k] = live[k] /\ closing'[k] = closing[k]
           /\ live'[k] => live[k]
           /\ live'[k] /\ closing'[k] => k \in closedEarly
           /\ state'[k] = "OPEN" => state[k] = "OPEN"
           /\ Settled(k) => Settled(k)'
  BY CloseEffect
<1>2. /\ \A i \in DOMAIN available' : i \in DOMAIN available /\ available'[i] = available[i]
      /\ \A i \in DOMAIN available : (i \in DOMAIN available' /\ available'[i] = available[i]) \/ available[i] \in ks
      /\ entry'.conn = entry.conn \/ (entry'.conn = Nobody /\ entry.conn \in ks)
      /\ entry'.conn # Nobody => entry' = entry
  BY DEF NoEntry
<1>3. closedEarly \subseteq closedEarly' /\ Nobody \notin Conns
  BY ConnectionAssumption DEF ConnectionAssumption
<1>4. OneHolder'
  BY <1>2, <1>3 DEF OneHolder, PoolTyped
<1>5. CloseCloses'
  <2>1. \A u \in Users : at[u] \in Connecting => mine[u] \in Conns
    BY MineTyped DEF Connecting
  <2>2. "dial" \in Connecting /\ "backoff" \in Connecting
    BY DEF Connecting
  <2>3. \A u \in Users : at[u] \in Connecting /\ closing'[mine[u]] => mine[u] \in closedEarly'
    BY <1>1, <1>3, <2>1 DEF CloseCloses
  <2>4. QED
    BY <1>1, <1>3, <2>1, <2>2, <2>3 DEF CloseCloses
<1>6. KeptWereOpened'
  <2>1. \A u \in Users : at'[u] = "holding" => mine'[u] \in Conns /\ Settled(mine'[u])
    BY DEF KeptWereOpened, PoolTyped, OneHolder
  <2>2. \A i \in DOMAIN available' : available'[i] \in Conns /\ Settled(available'[i])
    BY <1>2 DEF KeptWereOpened, PoolTyped
  <2>3. entry'.conn # Nobody => entry'.conn \in Conns /\ Settled(entry'.conn)
    BY <1>2 DEF KeptWereOpened, PoolTyped
  <2>4. QED
    BY <1>1, <2>1, <2>2, <2>3 DEF KeptWereOpened, Settled
<1>7. GetHasMutex'
  <2>1. Idle' => Idle
    BY <1>1, <1>2 DEF Idle, PoolTyped
  <2>2. QED
    BY <2>1 DEF GetHasMutex
<1>8. LostOnlyReplaced'
  <2>1. ASSUME NEW u \in Users, at[u] = "holding", source[u] = "pool", entry'.conn # mine[u], live'[mine[u]]
        PROVE  mine[u] \in replaced \cup closedEarly'
    <3>1. mine[u] \in Conns
      BY <2>1, MineTyped
    <3>2. CASE mine[u] \in ks
      BY <1>1, <1>3, <2>1, <3>1, <3>2
    <3>3. CASE mine[u] \notin ks
      BY <1>1, <1>2, <1>3, <2>1, <3>1, <3>3 DEF LostOnlyReplaced
    <3>4. QED
      BY <3>2, <3>3
  <2>2. QED
    BY <2>1 DEF LostOnlyReplaced
<1>9. ASSUME NEW c \in Conns, live'[c]
      PROVE  InReach(c)'
  <2>1. CASE c \in ks
    BY <1>1, <1>3, <1>9, <2>1 DEF InReach
  <2>2. CASE c \notin ks
    BY <1>1, <1>2, <1>3, <1>9, <2>2 DEF OpenInReach, InReach
  <2>3. QED
    BY <2>1, <2>2
<1>10. QED
  BY <1>4, <1>5, <1>6, <1>7, <1>8, <1>9 DEF OpenInReach

(* Closing connections keeps the types.                                    *)
LEMMA CloseTyped ==
  ASSUME PoolsInv, NEW ks, Close(ks), UNCHANGED <<at, mine, source, mu>>,
         entry' \in [conn : Conns \cup {Nobody}, inUse : BOOLEAN], available' \in Seq(Conns)
  PROVE  PoolTyped'
<1>1. /\ state' \in [Conns -> {"CONNECTING", "HANDSHAKING", "OPEN", "CLOSED", "FAILED"}]
      /\ handle' = handle
      /\ live' \in [Conns -> BOOLEAN] /\ closing' \in [Conns -> BOOLEAN]
  BY CloseEffect DEF PoolsInv
<1>2. QED
  BY <1>1 DEF PoolsInv, PoolTyped

(* An entry is removed, or cleaned up when idle.                           *)
LEMMA RemoveStep ==
  ASSUME PoolsInv, Remove \/ CleanupIdle
  PROVE  PoolsInv'
<1>1. /\ Close({entry.conn}) /\ entry' = NoEntry /\ entry.conn # Nobody
      /\ UNCHANGED <<closedEarly, at, mine, source, mu, available, replaced>>
  BY DEF Remove, CleanupIdle, userVars
<1>2. \A u \in Users : at[u] \in Connecting => mine[u] \notin {entry.conn}
  BY <1>1 DEF PoolsInv, OneHolder, Connecting
<1>3. PoolTyped'
  <2>1. entry' \in [conn : Conns \cup {Nobody}, inUse : BOOLEAN]
    BY <1>1 DEF NoEntry
  <2>2. available' \in Seq(Conns)
    BY <1>1 DEF PoolsInv, PoolTyped
  <2>3. QED
    BY <1>1, <2>1, <2>2, CloseTyped
<1>4. QED
  BY <1>1, <1>2, <1>3, CloseStep

(* The available connections are closed.                                   *)
LEMMA CloseAvailableStep ==
  ASSUME PoolsInv, CloseAvailable
  PROVE  PoolsInv'
<1> DEFINE ks == {available[i] : i \in DOMAIN available}
<1>1. /\ Close(ks) /\ available' = << >>
      /\ UNCHANGED <<closedEarly, at, mine, source, entry, mu, replaced>>
  BY DEF CloseAvailable, userVars
<1>2. /\ \A i \in DOMAIN available : available[i] \in ks
      /\ \A u \in Users : mine[u] \notin ks
  BY DEF PoolsInv, OneHolder
<1> HIDE DEF ks
<1>3. PoolTyped'
  <2>1. entry' \in [conn : Conns \cup {Nobody}, inUse : BOOLEAN] /\ available' \in Seq(Conns)
    BY <1>1 DEF PoolsInv, PoolTyped
  <2>2. QED
    BY <1>1, <2>1, CloseTyped
<1>4. QED
  BY <1>1, <1>2, <1>3, CloseStep

(* Somebody closes a connection its user has not opened yet, or holds.     *)
LEMMA CloseUnderStep ==
  ASSUME PoolsInv, NEW u \in Users, Close({mine[u]}),
         \/ closedEarly' = closedEarly \cup {mine[u]}
         \/ at[u] = "holding" /\ closedEarly' = closedEarly,
         UNCHANGED <<userVars, poolVars>>
  PROVE  PoolsInv'
<1>1. UNCHANGED <<at, mine, source, entry, mu, available, replaced>>
  BY DEF userVars, poolVars
<1>2. \A v \in Users : at[v] \in Connecting =>
        mine[v] \notin {mine[u]} \/ closedEarly' = closedEarly \cup {mine[u]}
  BY DEF PoolsInv, OneHolder, Connecting
<1>3. PoolTyped'
  <2>1. entry' \in [conn : Conns \cup {Nobody}, inUse : BOOLEAN] /\ available' \in Seq(Conns)
    BY <1>1 DEF PoolsInv, PoolTyped
  <2>2. QED
    BY <1>1, <2>1, CloseTyped
<1>4. closedEarly' = closedEarly \/ closedEarly' = closedEarly \cup {mine[u]}
  OBVIOUS
<1>5. QED
  BY <1>1, <1>2, <1>3, <1>4, CloseStep

-----------------------------------------------------------------------------
(* What leaves connections, users and pools alone keeps the invariant.     *)
LEMMA PoolsUnchanged ==
  ASSUME PoolsInv, UNCHANGED <<connVars, userVars, poolVars>>
  PROVE  PoolsInv'
BY DEF connVars, userVars, poolVars, PoolsInv, PoolTyped, OneHolder, CloseCloses, KeptWereOpened,
     Settled, GetHasMutex, Idle, LostOnlyReplaced, OpenInReach, InReach

(* Every step of Connect keeps the invariant.                              *)
LEMMA ConnectStepInv ==
  ASSUME PoolsInv, NEW u \in Users, ConnectStep(u)
  PROVE  PoolsInv'
<1>1. CASE /\ DialFails(u) \/ HandshakeFails(u)
           /\ mu' = IF mu = u THEN Nobody ELSE mu
           /\ UNCHANGED <<entry, available, replaced>>
  BY <1>1, ConnectFailsStep
<1>2. CASE UNCHANGED poolVars /\ (Dial(u) \/ Handshake(u) \/ Retry(u) \/ GiveUp(u))
  BY <1>2, ConnectGoesOnStep
<1>3. CASE OpenedOutside(u)
  BY <1>3, ConnectGoesOnStep DEF OpenedOutside
<1>4. QED
  BY <1>1, <1>2, <1>3, StoreStep DEF ConnectStep

(* The invariant of the pools is inductive.                                *)
LEMMA PoolsNextInv == PoolsInv /\ [Next]_vars => PoolsInv'
<1> SUFFICES ASSUME PoolsInv, [Next]_vars PROVE PoolsInv'
  OBVIOUS
<1>1. CASE UNCHANGED <<connVars, userVars, poolVars>>
  BY <1>1, PoolsUnchanged
<1>2. CASE LinkNext
  <2>1. ASSUME NEW s \in Senders, SendRelayCell(s)
        PROVE  UNCHANGED <<connVars, userVars, poolVars>>
    BY <2>1 DEF SendRelayCell, UpdateForwardDigest, EncryptForward, SendCell, ForwardOnly, LinkOnly
  <2>2. CASE CloseUnderneath
    BY <2>2, LinkAssumption, CloseUnderStep DEF LinkAssumption, CloseUnderneath, Holding
  <2>3. ASSUME NEW r \in 1 .. MaxRequests, NEW byTarget \in BOOLEAN, NEW hlen \in Nat,
               ProcessAnswer(r, byTarget, hlen)
        PROVE  UNCHANGED <<connVars, userVars, poolVars>>
    BY <2>3 DEF ProcessAnswer, LinkOnly
  <2>4. CASE SendVersions \/ ReaderTakes \/ HandshakeEnds \/ ReceiveVersions \/ OpenCircuit
             \/ DeliverRelayCell
    BY <1>1, <2>4 DEF SendVersions, ReaderTakes, HandshakeEnds, ReceiveVersions, OpenCircuit,
         DeliverRelayCell, LinkOnly
  <2>5. ASSUME NEW cell, RelayAnswers(cell) PROVE PoolsInv'
    BY <1>1, <2>5 DEF RelayAnswers, LinkOnly
  <2>6. ASSUME NEW ntor \in BOOLEAN, NEW keysKnown \in BOOLEAN, Request(ntor, keysKnown)
        PROVE  PoolsInv'
    BY <1>1, <2>6 DEF Request, Ask, LinkOnly
  <2>7. QED
    BY <1>1, <1>2, <2>1, <2>2, <2>3, <2>4, <2>5, <2>6 DEF LinkNext, NtorResponseLen
<1>3. CASE PoolNext
  <2>1. ASSUME NEW u \in Users, CloseWhileConnecting(u), UNCHANGED poolVars
        PROVE  PoolsInv'
    BY <2>1, CloseUnderStep DEF CloseWhileConnecting
  <2>2. QED
    BY <1>3, <2>1, AcquireStep, ConnectStepInv, ReleaseStep, RemoveStep, CloseAvailableStep DEF PoolNext
<1>4. QED
  BY <1>1, <1>2, <1>3 DEF Next, vars

(* Two users never hold the same connection, and every socket that is open *)
(* can still be closed by somebody: it is with a user, in the entry of its *)
(* address or in the channel, unless it was in use when Get overwrote its  *)
(* entry, or was closed before Connect had set what Close closes.  This is *)
(* so for any users, connections, retries and pool sizes, and whatever     *)
(* fails, closes or is cleaned up in between (connection_pool.go:62-123,   *)
(* connection.go:281-331, 392-412, retry.go:153-215).                      *)
THEOREM ConnectionsStayAccountedFor == Spec => []ConnectionsAccountedFor
<1>1. PoolsInv => ConnectionsAccountedFor
  BY DEF PoolsInv, OneHolder, OpenInReach, InReach, ConnectionsAccountedFor
<1>2. QED
  BY <1>1, PoolsInitInv, PoolsNextInv, PTL DEF Spec

-----------------------------------------------------------------------------
(* Keys.                                                                   *)

(* The ephemeral key is that of the latest ntor request, and has given no  *)
(* keys yet.                                                               *)
KeysInv ==
  /\ requests \in Seq([ntor : BOOLEAN, keysKnown : BOOLEAN])
  /\ ephemeral \in [request : Nat, keysKnown : BOOLEAN]
  /\ keyed \in Seq([request : Nat, byTarget : BOOLEAN])
  /\ \A i \in DOMAIN keyed : keyed[i].request \in 1 .. Len(requests)
  /\ ephemeral.request # 0 =>
       /\ ephemeral.request \in 1 .. Len(requests)
       /\ requests[ephemeral.request].ntor
       /\ requests[ephemeral.request].keysKnown = ephemeral.keysKnown
       /\ \A later \in (ephemeral.request + 1) .. Len(requests) : ~requests[later].ntor
       /\ \A i \in DOMAIN keyed : keyed[i].request # ephemeral.request

(* What a step can do to the extension of the circuit.                     *)
LEMMA KeysTransition ==
  ASSUME [Next]_vars
  PROVE  \/ UNCHANGED extensionVars
         \/ LinkAnew
         \/ \E ntor, keysKnown \in BOOLEAN : Request(ntor, keysKnown)
         \/ \E r \in Nat \ {0}, byTarget \in BOOLEAN, hlen \in Nat : ProcessAnswer(r, byTarget, hlen)
<1>1. CASE LinkNext
  <2>1. MaxRequests \in Nat
    BY LinkAssumption DEF LinkAssumption
  <2>2. ASSUME NEW s \in Senders, SendRelayCell(s)
        PROVE  UNCHANGED extensionVars
    BY <2>2 DEF SendRelayCell, UpdateForwardDigest, EncryptForward, SendCell, ForwardOnly
  <2>3. QED
    BY <1>1, <2>1, <2>2 DEF LinkNext, NtorResponseLen, SendVersions, RelayAnswers, ReaderTakes, HandshakeEnds,
         ReceiveVersions, OpenCircuit, DeliverRelayCell, CloseUnderneath, linkVars
<1>2. CASE UNCHANGED linkVars
  BY <1>2 DEF linkVars
<1>3. QED
  BY <1>1, <1>2 DEF Next, vars

(* Before the first request there are no keys.                             *)
LEMMA KeysInitInv == Init => KeysInv
BY DEF Init, LinkIdle, KeysInv, NoEphemeral

(* Nor are there on a new link.                                            *)
LEMMA KeysAnew == LinkAnew => KeysInv'
BY DEF LinkAnew, KeysInv, NoEphemeral

(* A request replaces the handshake state of the one before.               *)
LEMMA RequestStep ==
  ASSUME KeysInv, NEW ntor \in BOOLEAN, NEW keysKnown \in BOOLEAN, Request(ntor, keysKnown)
  PROVE  KeysInv' /\ keyed' = keyed
<1> DEFINE asked == [ntor |-> ntor, keysKnown |-> keysKnown]
<1>1. requests' = Append(requests, asked) /\ keyed' = keyed
  BY DEF Request, Ask
<1>2. /\ requests' \in Seq([ntor : BOOLEAN, keysKnown : BOOLEAN])
      /\ Len(requests) \in Nat /\ Len(requests') = Len(requests) + 1
      /\ requests'[Len(requests')] = asked
      /\ \A r \in 1 .. Len(requests) : requests'[r] = requests[r]
  BY <1>1 DEF KeysInv
<1>3. ephemeral' = IF ntor THEN [request |-> Len(requests'), keysKnown |-> keysKnown] ELSE ephemeral
  BY DEF Request
<1>4. \A i \in DOMAIN keyed : keyed[i].request \in 1 .. Len(requests)
  BY DEF KeysInv
<1>5. CASE ntor
  <2>1. ephemeral' = [request |-> Len(requests'), keysKnown |-> keysKnown]
    BY <1>3, <1>5
  <2>2. \A i \in DOMAIN keyed' : keyed'[i].request \in 1 .. Len(requests') /\ keyed'[i].request # Len(requests')
    BY <1>1, <1>2, <1>4
  <2>3. QED
    BY <1>1, <1>2, <1>5, <2>1, <2>2 DEF KeysInv
<1>6. CASE ~ntor
  <2>1. ephemeral' = ephemeral
    BY <1>3, <1>6
  <2>2. \A i \in DOMAIN keyed' : keyed'[i].request \in 1 .. Len(requests')
    BY <1>1, <1>2, <1>4
  <2>3. ASSUME ephemeral.request # 0
        PROVE  /\ ephemeral.request \in 1 .. Len(requests')
               /\ requests'[ephemeral.request] = requests[ephemeral.request]
               /\ \A later \in (ephemeral.request + 1) .. Len(requests') : ~requests'[later].ntor
    <3>1. ephemeral.request \in 1 .. Len(requests)
      BY <2>3 DEF KeysInv
    <3>2. ASSUME NEW later \in (ephemeral.request + 1) .. Len(requests')
          PROVE  ~requests'[later].ntor
      <4>1. CASE later = Len(requests')
        BY <1>2, <1>6, <4>1
      <4>2. CASE later \in 1 .. Len(requests)
        <5>1. later \in (ephemeral.request + 1) .. Len(requests)
          BY <3>1, <3>2, <4>2
        <5>2. ~requests[later].ntor
          BY <2>3, <5>1 DEF KeysInv
        <5>3. QED
          BY <1>2, <4>2, <5>2
      <4>3. later = Len(requests') \/ later \in 1 .. Len(requests)
        <5>1. /\ Len(requests) \in Nat /\ Len(requests') = Len(requests) + 1
              /\ ephemeral.request \in Nat
          BY <1>2, <3>1
        <5>2. QED
          BY <3>2, <5>1
      <4>4. QED
        BY <4>1, <4>2, <4>3
    <3>3. ephemeral.request \in 1 .. Len(requests')
      BY <1>2, <3>1
    <3>4. requests'[ephemeral.request] = requests[ephemeral.request]
      BY <1>2, <3>1
    <3>5. QED
      BY <3>2, <3>3, <3>4
  <2>4. QED
    BY <1>1, <1>2, <2>1, <2>2, <2>3 DEF KeysInv
<1>7. QED
  BY <1>1, <1>5, <1>6

KeysStep ==
  Len(keyed') > Len(keyed) =>
    LET r == keyed'[Len(keyed')].request IN
    /\ requests[r].ntor
    /\ requests[r].keysKnown => keyed'[Len(keyed')].byTarget
    /\ \A later \in (r + 1) .. Len(requests) : ~requests[later].ntor
    /\ \A i \in DOMAIN keyed : keyed[i].request # r

(* An answer gives keys only when it is to the latest request of its kind, *)
(* and once.                                                               *)
LEMMA AnswerStep ==
  ASSUME KeysInv, NEW r \in Nat \ {0}, NEW byTarget \in BOOLEAN, NEW hlen \in Nat,
         ProcessAnswer(r, byTarget, hlen)
  PROVE  KeysInv' /\ KeysStep
<1>1. CASE keyed' = keyed /\ ephemeral' = ephemeral /\ requests' = requests
  BY <1>1 DEF KeysInv, KeysStep
<1>2. CASE /\ Verifies(r, byTarget)
           /\ keyed' = Append(keyed, [request |-> r, byTarget |-> byTarget])
           /\ ephemeral' = NoEphemeral /\ requests' = requests
  <2> DEFINE answer == [request |-> r, byTarget |-> byTarget]
  <2>1. /\ r \in 1 .. Len(requests) /\ requests[r].ntor
        /\ requests[r].keysKnown = byTarget
        /\ \A later \in (r + 1) .. Len(requests) : ~requests[later].ntor
        /\ \A i \in DOMAIN keyed : keyed[i].request # r
    BY <1>2 DEF KeysInv, Verifies
  <2>2. answer \in [request : Nat, byTarget : BOOLEAN]
    OBVIOUS
  <2>3. /\ keyed' \in Seq([request : Nat, byTarget : BOOLEAN])
        /\ Len(keyed') = Len(keyed) + 1 /\ keyed'[Len(keyed')] = answer
        /\ \A i \in DOMAIN keyed : keyed'[i] = keyed[i]
        /\ \A i \in DOMAIN keyed' : i \in DOMAIN keyed \/ i = Len(keyed')
    <3> DEFINE Answers == [request : Nat, byTarget : BOOLEAN]
    <3>1. keyed \in Seq(Answers) /\ answer \in Answers /\ keyed' = Append(keyed, answer)
      BY <1>2, <2>2 DEF KeysInv
    <3> HIDE DEF Answers, answer
    <3>2. /\ keyed' \in Seq(Answers)
          /\ Len(keyed') = Len(keyed) + 1 /\ keyed'[Len(keyed')] = answer
          /\ \A i \in DOMAIN keyed : keyed'[i] = keyed[i]
          /\ \A i \in DOMAIN keyed' : i \in DOMAIN keyed \/ i = Len(keyed')
      BY <3>1
    <3>3. QED
      BY <3>2 DEF Answers
  <2>4. answer.request = r /\ answer.byTarget = byTarget
    OBVIOUS
  <2> HIDE DEF answer
  <2>5. \A i \in DOMAIN keyed' : keyed'[i].request \in 1 .. Len(requests')
    BY <1>2, <2>1, <2>3, <2>4 DEF KeysInv
  <2>6. KeysInv'
    BY <1>2, <2>3, <2>5 DEF KeysInv, NoEphemeral
  <2>7. QED
    BY <2>1, <2>3, <2>4, <2>6 DEF KeysStep
<1>3. QED
  BY <1>1, <1>2 DEF ProcessAnswer

(* The invariant of the keys is inductive, and every step adds keys as     *)
(* KeysStep says.                                                          *)
LEMMA KeysNextInv == KeysInv /\ [Next]_vars => KeysInv' /\ [KeysStep]_vars
<1> SUFFICES ASSUME KeysInv, [Next]_vars PROVE KeysInv' /\ KeysStep
  OBVIOUS
<1>1. Len(keyed) \in Nat
  BY DEF KeysInv
<1>2. CASE UNCHANGED extensionVars
  BY <1>1, <1>2 DEF extensionVars, KeysInv, KeysStep
<1>3. CASE LinkAnew
  <2>1. Len(keyed') = 0
    BY <1>3 DEF LinkAnew
  <2>2. QED
    BY <1>1, <1>3, <2>1, KeysAnew DEF KeysStep
<1>4. ASSUME NEW ntor \in BOOLEAN, NEW keysKnown \in BOOLEAN, Request(ntor, keysKnown)
      PROVE  KeysInv' /\ KeysStep
  BY <1>1, <1>4, RequestStep DEF KeysStep
<1>5. ASSUME NEW r \in Nat \ {0}, NEW byTarget \in BOOLEAN, NEW hlen \in Nat,
             ProcessAnswer(r, byTarget, hlen)
      PROVE  KeysInv' /\ KeysStep
  BY <1>5, AnswerStep
<1>6. QED
  BY <1>2, <1>3, <1>4, <1>5, KeysTransition

(* Keys come only from an answer to the circuit's latest ntor request, and *)
(* only once for each; and from its target, if the request was made with   *)
(* the target's keys, however many requests and answers there are and in   *)
(* whatever order                                                          *)
(* (extension.go:136-193, 325-439).                                        *)
THEOREM KeysOfLatestRequest == Spec => KeysAgree
<1>1. KeysInv /\ [Next]_vars => [KeysStep]_vars
  BY KeysNextInv
<1>2. KeysInv /\ [Next]_vars => KeysInv'
  BY KeysNextInv
<1>3. QED
  BY <1>1, <1>2, KeysInitInv, PTL DEF Spec, KeysAgree, KeysStep
=============================================================================
