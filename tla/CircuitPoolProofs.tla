-------------------------- MODULE CircuitPoolProofs --------------------------
(***************************************************************************)
(* What TLAPS proves of the circuit pool and its users.  Isolation keys    *)
(* mean what they say, for any names, targets and ports.  Isolated         *)
(* circuits stay private, a circuit is in one place, and open circuits     *)
(* stay listed until Stop, for any users, requests, configuration and pool *)
(* sizes, and however Start and Stop, the prebuild and the maintenance     *)
(* loop run against the users.                                             *)
(***************************************************************************)
EXTENDS LeasedCircuits, FiniteSetTheorems, SequenceTheorems, TLAPS

(***************************************************************************)
(* Isolation keys.                                                         *)
(***************************************************************************)

(* A key of a request is one with the request's own field in its place.    *)
LEMMA RequestKeyFilled ==
  ASSUME NEW cfg, cfg.level \in Levels, NEW r, RequestKey(cfg, r) # NoKey
  PROVE  /\ cfg.level \in Fields
         /\ RequestKey(cfg, r).level = cfg.level
         /\ Field(RequestKey(cfg, r)) = r[cfg.level]
         /\ r[cfg.level] # Blank
<1> DEFINE l == cfg.level
           k == Filled(cfg, r)
<1>1. RequestKey(cfg, r) = k /\ l # "none" /\ Validate(k)
  BY DEF RequestKey
<1>2. l \in Fields
  BY <1>1 DEF Levels
<1>3. NewIsolationKey(l).level = l /\ Field(NewIsolationKey(l)) = Blank
  BY <1>2 DEF NewIsolationKey, Field
<1>4. /\ With(NewIsolationKey(l), l, r[l]).level = l
      /\ Field(With(NewIsolationKey(l), l, r[l])) = r[l]
  BY <1>2 DEF NewIsolationKey, With, Field
<1>5. k.level = l
  BY <1>3, <1>4 DEF Filled, WithHashed
<1>6. Field(k) # Blank
  BY <1>1, <1>5 DEF Validate
<1>7. k = With(NewIsolationKey(l), l, r[l])
  BY <1>3, <1>6 DEF Filled, WithHashed
<1>8. QED
  BY <1>1, <1>2, <1>4, <1>6, <1>7

(* So it leads to circuits of its own.                                     *)
LEMMA RequestKeyIsolates ==
  ASSUME NEW cfg, cfg.level \in Levels, NEW r, RequestKey(cfg, r) # NoKey
  PROVE  /\ Key(RequestKey(cfg, r)) = <<cfg.level, r[cfg.level]>>
         /\ Key(RequestKey(cfg, r)) # Unisolated
<1>1. cfg.level # "none"
  BY RequestKeyFilled DEF Fields
<1>2. Key(RequestKey(cfg, r)) = <<cfg.level, r[cfg.level]>>
  BY <1>1, RequestKeyFilled DEF Key
<1>3. QED
  BY <1>2 DEF Unisolated

(* Key finds the same circuits for two keys exactly when Equals says that  *)
(* they are the same (isolation.go:157-176, 179-209).                      *)
THEOREM KeyIffEquals ==
  ASSUME NEW V, NEW k \in [level : Levels, of : [Fields -> V]],
         NEW other \in [level : Levels, of : [Fields -> V]],
         k # NoKey, other # NoKey
  PROVE  Key(k) = Key(other) <=> Equals(k, other)
BY DEF Key, Equals, Field, Unisolated

(* Two requests whose keys lead to the same isolated circuits agree on     *)
(* what the level isolates, whatever the level, the flags and the requests *)
(* (socks.go:323-351).                                                     *)
THEOREM SameKeySameRequester ==
  ASSUME NEW cfg, cfg.level \in Levels, NEW r, NEW s,
         Key(RequestKey(cfg, r)) = Key(RequestKey(cfg, s)),
         Key(RequestKey(cfg, r)) # Unisolated
  PROVE  r[cfg.level] = s[cfg.level] /\ r[cfg.level] # Blank
<1>1. RequestKey(cfg, r) # NoKey /\ RequestKey(cfg, s) # NoKey
  BY DEF Key
<1>2. <<cfg.level, r[cfg.level]>> = <<cfg.level, s[cfg.level]>>
  BY <1>1, RequestKeyIsolates
<1>3. r[cfg.level] = s[cfg.level]
  BY <1>2
<1>4. QED
  BY <1>1, <1>3, RequestKeyFilled

-----------------------------------------------------------------------------
(***************************************************************************)
(* Isolated circuits are private.                                          *)
(***************************************************************************)

Typed ==
  /\ state \in [Circuits -> {"unmade", "BUILDING", "OPEN", "CLOSED"}]
  /\ key \in [Circuits -> IsolationKeys]
  /\ pool \in [AllKeys -> Seq(Circuits)]
  /\ listed \subseteq Circuits
  /\ pc \in [Users -> {"idle", "accepted", "building", "fallback", "holding"}]
  /\ DOMAIN owner = Users
  /\ want \in [Users -> IsolationKeys]
  /\ circ \in [Users -> Circuits \cup {NoCircuit}]
  /\ preCirc \in Circuits \cup {NoCircuit}

(* Whoever builds, builds a circuit of its own.                            *)
BuildersApart ==
  /\ \A u \in Users :
       pc[u] = "building" /\ circ[u] # NoCircuit =>
         /\ state[circ[u]] = "BUILDING"
         /\ \A v \in Users \ {u} : pc[v] = "building" => circ[v] # circ[u]
         /\ pre = "building" => preCirc # circ[u]
  /\ pre = "building" /\ preCirc # NoCircuit => state[preCirc] = "BUILDING"

(* Circuits that are in use, pooled or listed have been built.             *)
Finished(c) == c \in Circuits /\ state[c] \in {"OPEN", "CLOSED"}
OthersFinished ==
  /\ \A c \in listed : Finished(c)
  /\ \A k \in AllKeys, c \in Circuits : InSeq(c, pool[k]) => Finished(c)
  /\ \A u \in Users : pc[u] = "holding" => Finished(circ[u])
  /\ pre = "putting" => Finished(preCirc)

(* A circuit has no key before it is built, and is pooled under its key.   *)
KeyedWhenBuilt == \A c \in Circuits : ~Finished(c) => key[c] = NoKey
PooledByKey == \A k \in AllKeys, c \in Circuits : InSeq(c, pool[k]) => Key(key[c]) = k

(* Users want the key of their own request, and hold what they want.       *)
WantsOwnKey == \A u \in Users : want[u] \in {NoKey, RequestKey(Isolation, owner[u])}
HoldsWanted ==
  \A u \in Users :
    pc[u] = "holding" /\ circ[u] \notin lent => Key(key[circ[u]]) = Key(want[u])

PoolInv ==
  /\ Typed /\ BuildersApart /\ OthersFinished
  /\ KeyedWhenBuilt /\ PooledByKey /\ WantsOwnKey /\ HoldsWanted

(* What was not lent is in one place: once in a pool, or with one user, or *)
(* with the prebuild loop.                                                 *)
OncePooled ==
  \A k \in AllKeys : \A i, j \in DOMAIN pool[k] :
    pool[k][i] = pool[k][j] /\ pool[k][i] \notin lent => i = j
OneHolder ==
  \A u, v \in Users : circ[u] = circ[v] /\ circ[u] # NoCircuit /\ circ[u] \notin lent => u = v
NowhereElse ==
  /\ \A u \in Users : circ[u] # NoCircuit /\ circ[u] \notin lent =>
       preCirc # circ[u] /\ \A k \in AllKeys : ~InSeq(circ[u], pool[k])
  /\ preCirc # NoCircuit /\ preCirc \notin lent => \A k \in AllKeys : ~InSeq(preCirc, pool[k])
HasWhenUsed ==
  /\ \A u \in Users : circ[u] # NoCircuit => pc[u] \in {"building", "holding"}
  /\ preCirc # NoCircuit => pre \in {"building", "putting"}

PlaceInv == OncePooled /\ OneHolder /\ NowhereElse /\ HasWhenUsed

(* The prebuild loop starts with the client.                               *)
NothingPrebuilt == phase = "new" => pre = "none"


-----------------------------------------------------------------------------
(* What is in a sequence after an append, and in a tail of it.             *)
LEMMA InAppend ==
  ASSUME NEW S, NEW q \in Seq(S), NEW d \in S, NEW c, InSeq(c, Append(q, d))
  PROVE  c = d \/ InSeq(c, q)
BY DEF InSeq

(* What is left of a sequence past a place is its members at later places. *)
LEMMA TailPlaces ==
  ASSUME NEW S, NEW f \in Seq(S), NEW i \in 1 .. Len(f)
  PROVE  LET t == SubSeq(f, i + 1, Len(f))
         IN  /\ t \in Seq(S) /\ Len(t) = Len(f) - i
             /\ \A j \in DOMAIN t : j \in Nat \ {0} /\ i + j \in DOMAIN f /\ t[j] = f[i + j]
<1> DEFINE t == SubSeq(f, i + 1, Len(f))
           len == Len(f)
<1>1. len \in Nat /\ DOMAIN f = 1 .. len /\ \A j \in 1 .. len : f[j] \in S
  OBVIOUS
<1>2. i \in Nat /\ 1 <= i /\ i <= len /\ i + 1 \in Int
  BY <1>1
<1>3. \A j \in i + 1 .. len : f[j] \in S
  BY <1>1, <1>2
<1>4. /\ t \in Seq(S)
      /\ Len(t) = IF i + 1 <= len THEN len - (i + 1) + 1 ELSE 0
      /\ \A j \in 1 .. len - (i + 1) + 1 : t[j] = f[(i + 1) + j - 1]
  <2> HIDE DEF len
  <2>1. len \in Int
    BY <1>1
  <2>2. QED
    BY <1>2, <1>3, <2>1, SubSeqProperties DEF len
<1> HIDE DEF len
<1>5. Len(t) = len - i /\ len - (i + 1) + 1 = len - i
  BY <1>1, <1>2, <1>4
<1> HIDE DEF t
<1>6. DOMAIN t = 1 .. len - i
  BY <1>4, <1>5
<1>7. ASSUME NEW j \in 1 .. len - i
      PROVE  j \in Nat \ {0} /\ i + j \in DOMAIN f /\ t[j] = f[i + j]
  <2>1. j \in Nat \ {0} /\ i + j \in 1 .. len /\ (i + 1) + j - 1 = i + j
    BY <1>1, <1>2
  <2>2. t[j] = f[(i + 1) + j - 1]
    BY <1>4, <1>5
  <2>3. QED
    BY <1>1, <2>1, <2>2
<1>8. QED
  BY <1>4, <1>5, <1>6, <1>7 DEF t, len

(* What follows an element of a queue is a queue of its own elements.      *)
LEMMA InTail ==
  ASSUME NEW S, NEW q \in Seq(S), NEW i \in DOMAIN q
  PROVE  /\ SubSeq(q, i + 1, Len(q)) \in Seq(S)
         /\ \A c : InSeq(c, SubSeq(q, i + 1, Len(q))) => InSeq(c, q)
         /\ InSeq(q[i], q) /\ q[i] \in S
<1>1. i \in 1 .. Len(q) /\ q[i] \in S
  OBVIOUS
<1> DEFINE t == SubSeq(q, i + 1, Len(q))
<1>2. t \in Seq(S) /\ \A j \in DOMAIN t : i + j \in DOMAIN q /\ t[j] = q[i + j]
  <2>1. i \in 1 .. Len(q)
    BY <1>1
  <2>2. QED
    BY <2>1, TailPlaces
<1> HIDE DEF t
<1>3. \A c : InSeq(c, t) => InSeq(c, q)
  BY <1>2 DEF InSeq
<1>4. InSeq(q[i], q)
  BY DEF InSeq
<1>5. QED
  BY <1>1, <1>2, <1>3, <1>4 DEF t

(* An empty pool satisfies the invariant.                                  *)
LEMMA PoolInitInv == Init => PoolInv
<1> SUFFICES ASSUME Init PROVE PoolInv
  OBVIOUS
<1>1. NoKey \in IsolationKeys
  BY DEF IsolationKeys
<1>2. Typed
  BY <1>1 DEF Init, NewClient, Typed
<1>3. \A k \in AllKeys, c \in Circuits : ~InSeq(c, pool[k])
  BY DEF Init, InSeq
<1>4. QED
  BY <1>2, <1>3 DEF Init, NewClient, PoolInv, BuildersApart, OthersFinished, KeyedWhenBuilt,
       PooledByKey, WantsOwnKey, HoldsWanted, Finished

-----------------------------------------------------------------------------
(* One lemma for each kind of step.                                        *)

(* A user that asks.                                                       *)
LEMMA AskStep ==
  ASSUME PoolInv, NEW u \in Users,
         \/ \E r \in Requests, resolves \in BOOLEAN : Accept(u, r, resolves)
         \/ GetCircuit(u)
  PROVE  PoolInv'
<1> USE DEF PoolInv
<1>1. UNCHANGED <<state, key, pool, listed, circ, lent, pre, preCirc>> /\ pc[u] = "idle"
  BY DEF Accept, GetCircuit, preVars
<1>2. /\ pc' \in [Users -> {"idle", "accepted", "building", "fallback", "holding"}]
      /\ pc'[u] \in {"accepted", "fallback"}
      /\ \A v \in Users \ {u} : pc'[v] = pc[v] /\ want'[v] = want[v] /\ owner'[v] = owner[v]
  BY DEF Accept, GetCircuit, Typed
<1>3. /\ DOMAIN owner' = Users /\ want' \in [Users -> IsolationKeys]
      /\ want'[u] \in {NoKey, RequestKey(Isolation, owner'[u])}
  <2>1. ASSUME NEW r \in Requests, NEW resolves \in BOOLEAN, Accept(u, r, resolves)
        PROVE  /\ DOMAIN owner' = Users /\ want' \in [Users -> IsolationKeys]
               /\ want'[u] \in {NoKey, RequestKey(Isolation, owner'[u])}
    <3>1. /\ owner' = [owner EXCEPT ![u] = r]
          /\ want' = [want EXCEPT ![u] = IF resolves THEN NoKey ELSE RequestKey(Isolation, r)]
      BY <2>1 DEF Accept
    <3>2. NoKey \in IsolationKeys /\ RequestKey(Isolation, r) \in IsolationKeys
      BY DEF IsolationKeys
    <3>3. QED
      BY <3>1, <3>2 DEF Typed
  <2>2. CASE GetCircuit(u)
    BY <2>2 DEF GetCircuit, Typed, WantsOwnKey
  <2>3. QED
    BY <2>1, <2>2
<1>4. Typed'
  BY <1>1, <1>2, <1>3 DEF Typed
<1>5. BuildersApart' /\ OthersFinished'
  BY <1>1, <1>2 DEF BuildersApart, OthersFinished, Finished
<1>6. KeyedWhenBuilt' /\ PooledByKey'
  BY <1>1 DEF KeyedWhenBuilt, PooledByKey, Finished
<1>7. WantsOwnKey' /\ HoldsWanted'
  BY <1>1, <1>2, <1>3 DEF WantsOwnKey, HoldsWanted
<1>8. QED
  BY <1>4, <1>5, <1>6, <1>7

(* A user that takes a circuit from the pool.                              *)
LEMMA PooledStep ==
  ASSUME PoolInv, NEW u \in Users, GetPooled(u)
  PROVE  PoolInv'
<1> USE DEF PoolInv
<1> DEFINE k == Key(want[u])
           q == pool[k]
<1>1. k \in AllKeys /\ q \in Seq(Circuits)
  BY DEF Typed, AllKeys
<1>2. PICK i \in DOMAIN q :
        /\ pool' = [pool EXCEPT ![k] = SubSeq(q, i + 1, Len(q))]
        /\ Hold(u, q[i])
  BY DEF GetPooled, OpenAt
<1>3. UNCHANGED <<state, key, listed, owner, want, lent, pre, preCirc>>
  BY DEF GetPooled, preVars
<1>4. /\ SubSeq(q, i + 1, Len(q)) \in Seq(Circuits)
      /\ \A c : InSeq(c, SubSeq(q, i + 1, Len(q))) => InSeq(c, q)
      /\ InSeq(q[i], q) /\ q[i] \in Circuits
  BY <1>1, InTail
<1>5. Finished(q[i]) /\ Key(key[q[i]]) = k
  BY <1>1, <1>4 DEF OthersFinished, PooledByKey
<1>6. /\ pc' = [pc EXCEPT ![u] = "holding"] /\ circ' = [circ EXCEPT ![u] = q[i]]
      /\ pc[u] = "accepted"
  BY <1>2 DEF Hold, GetPooled
<1>7. Typed'
  BY <1>1, <1>2, <1>3, <1>4, <1>6 DEF Typed
<1>8. BuildersApart'
  BY <1>3, <1>6 DEF BuildersApart, Typed
<1>9. \A m \in AllKeys, c \in Circuits : InSeq(c, pool'[m]) => InSeq(c, pool[m])
  BY <1>1, <1>2, <1>4 DEF Typed
<1>10. OthersFinished'
  BY <1>3, <1>5, <1>6, <1>9 DEF OthersFinished, Finished, Typed
<1>11. KeyedWhenBuilt' /\ PooledByKey' /\ WantsOwnKey'
  BY <1>3, <1>9 DEF KeyedWhenBuilt, PooledByKey, Finished, WantsOwnKey
<1>12. HoldsWanted'
  BY <1>3, <1>5, <1>6 DEF HoldsWanted, Typed
<1>13. QED
  BY <1>7, <1>8, <1>10, <1>11, <1>12

(* A user that starts a build, of a circuit nobody else has.               *)
LEMMA StartsBuildStep ==
  ASSUME PoolInv, NEW u \in Users, NEW c \in Circuits \cup {NoCircuit}, GetStartsBuild(u, c)
  PROVE  PoolInv'
<1> USE DEF PoolInv
<1>1. /\ c # NoCircuit => c \in Circuits /\ state[c] = "unmade"
      /\ state' = [x \in Circuits |-> IF x = c THEN "BUILDING" ELSE state[x]]
      /\ NoCircuit \notin Circuits
  BY PoolCircuitsAssumption DEF PoolCircuitsAssumption, GetStartsBuild, StartBuild, Unmade
<1>2. /\ pool' = [pool EXCEPT ![Key(want[u])] = << >>]
      /\ pc' = [pc EXCEPT ![u] = "building"] /\ circ' = [circ EXCEPT ![u] = c]
      /\ UNCHANGED <<key, listed, owner, want, lent, pre, preCirc>>
  BY DEF GetStartsBuild, preVars
<1>3. \A k \in AllKeys, x \in Circuits : InSeq(x, pool'[k]) => InSeq(x, pool[k])
  BY <1>2 DEF Typed, InSeq
<1>4. \A x : Finished(x) => Finished(x)'
  BY <1>1 DEF Finished
<1>5. Typed'
  <2>1. state' \in [Circuits -> {"unmade", "BUILDING", "OPEN", "CLOSED"}]
    BY <1>1 DEF Typed
  <2>2. pool' \in [AllKeys -> Seq(Circuits)]
    <3>1. << >> \in Seq(Circuits) /\ pool \in [AllKeys -> Seq(Circuits)]
      BY DEF Typed
    <3>2. QED
      BY <1>2, <3>1, Zenon
  <2>3. QED
    BY <1>2, <2>1, <2>2 DEF Typed
<1>6. BuildersApart'
  BY <1>1, <1>2 DEF BuildersApart, Typed
<1>7. OthersFinished'
  BY <1>2, <1>3, <1>4 DEF OthersFinished, Typed
<1>8. KeyedWhenBuilt' /\ PooledByKey'
  BY <1>2, <1>3, <1>4 DEF KeyedWhenBuilt, PooledByKey
<1>9. WantsOwnKey' /\ HoldsWanted'
  BY <1>2 DEF WantsOwnKey, HoldsWanted, Typed
<1>10. QED
  BY <1>5, <1>6, <1>7, <1>8, <1>9

(* Its build ends: with a circuit that has the key it wants,               *)
LEMMA BuiltStep ==
  ASSUME PoolInv, NEW u \in Users, GetBuilt(u)
  PROVE  PoolInv'
<1> USE DEF PoolInv
<1> DEFINE c == circ[u]
<1>1. /\ c \in Circuits /\ pc[u] = "building" /\ c # NoCircuit
      /\ state[c] = "BUILDING"
  BY DEF GetBuilt, BuildSucceeds, Typed, BuildersApart
<1>2. /\ state' = [state EXCEPT ![c] = "OPEN"] /\ listed' = listed \cup {c}
      /\ key' = [key EXCEPT ![c] = want[u]]
      /\ pc' = [pc EXCEPT ![u] = "holding"] /\ circ' = [circ EXCEPT ![u] = c]
      /\ UNCHANGED <<pool, owner, want, lent, pre, preCirc>>
  BY DEF GetBuilt, BuildSucceeds, Hold, preVars
<1>3. Finished(c)' /\ \A x : Finished(x) => x # c /\ Finished(x)'
  BY <1>1, <1>2 DEF Finished, Typed
<1>4. Typed'
  BY <1>1, <1>2 DEF Typed
<1>5. BuildersApart'
  BY <1>1, <1>2 DEF BuildersApart, Typed
<1>6. OthersFinished'
  BY <1>1, <1>2, <1>3 DEF OthersFinished, Typed
<1>7. KeyedWhenBuilt' /\ PooledByKey'
  BY <1>1, <1>2, <1>3 DEF KeyedWhenBuilt, PooledByKey, OthersFinished, Typed
<1>8. WantsOwnKey' /\ HoldsWanted'
  BY <1>1, <1>2, <1>3 DEF WantsOwnKey, HoldsWanted, OthersFinished, Typed
<1>9. QED
  BY <1>4, <1>5, <1>6, <1>7, <1>8

(* or without.                                                             *)
LEMMA FailsStep ==
  ASSUME PoolInv, NEW u \in Users, GetFails(u)
  PROVE  PoolInv'
<1> USE DEF PoolInv
<1> DEFINE c == circ[u]
<1>1. /\ pc[u] = "building" /\ (c # NoCircuit => state[c] = "BUILDING")
      /\ NoCircuit \notin Circuits
  BY PoolCircuitsAssumption DEF PoolCircuitsAssumption, GetFails, BuildersApart
<1>2. /\ state' = [x \in Circuits |-> IF x = c THEN "unmade" ELSE state[x]]
      /\ circ' = [circ EXCEPT ![u] = NoCircuit]
      /\ UNCHANGED <<key, pool, listed, lent, pre, preCirc>>
      /\ \/ /\ pc' = [pc EXCEPT ![u] = "fallback"]
            /\ UNCHANGED <<owner, want>>
         \/ /\ pc' = [pc EXCEPT ![u] = "idle"]
            /\ owner' = [owner EXCEPT ![u] = NoRequest] /\ want' = [want EXCEPT ![u] = NoKey]
  BY DEF GetFails, BuildFails, Leave, preVars
<1>3. NoKey \in IsolationKeys
  BY DEF IsolationKeys
<1>4. \A x : Finished(x) => Finished(x)'
  BY <1>1, <1>2 DEF Finished
<1>5. Typed'
  <2>1. /\ state' \in [Circuits -> {"unmade", "BUILDING", "OPEN", "CLOSED"}]
        /\ circ' \in [Users -> Circuits \cup {NoCircuit}]
    BY <1>2 DEF Typed
  <2>2. pc' \in [Users -> {"idle", "accepted", "building", "fallback", "holding"}]
    BY <1>2 DEF Typed
  <2>3. DOMAIN owner' = Users /\ want' \in [Users -> IsolationKeys]
    <3>1. owner' = owner \/ owner' = [owner EXCEPT ![u] = NoRequest]
      BY <1>2
    <3>2. want' = want \/ want' = [want EXCEPT ![u] = NoKey]
      BY <1>2
    <3>3. DOMAIN owner' = Users
      BY <3>1 DEF Typed
    <3>4. want' \in [Users -> IsolationKeys]
      BY <1>3, <3>2 DEF Typed
    <3>5. QED
      BY <3>3, <3>4
  <2>4. QED
    BY <1>2, <2>1, <2>2, <2>3 DEF Typed
<1>6. BuildersApart'
  BY <1>1, <1>2 DEF BuildersApart, Typed
<1>7. OthersFinished' /\ KeyedWhenBuilt' /\ PooledByKey'
  BY <1>2, <1>4 DEF OthersFinished, KeyedWhenBuilt, PooledByKey, Typed
<1>8. WantsOwnKey' /\ HoldsWanted'
  BY <1>2 DEF WantsOwnKey, HoldsWanted, Typed
<1>9. QED
  BY <1>5, <1>6, <1>7, <1>8

(* GetCircuit's fallback lends what it takes.                              *)
LEMMA ListedStep ==
  ASSUME PoolInv, NEW u \in Users, GetListed(u)
  PROVE  PoolInv'
<1> USE DEF PoolInv
<1>1. UNCHANGED <<state, key, pool, listed, pre, preCirc>> /\ pc[u] = "fallback"
  BY DEF GetListed, preVars
<1>2. NoKey \in IsolationKeys
  BY DEF IsolationKeys
<1>3. CASE Leave(u) /\ UNCHANGED lent
  <2>1. Typed'
    BY <1>1, <1>2, <1>3 DEF Typed, Leave
  <2>2. BuildersApart' /\ OthersFinished'
    BY <1>1, <1>3 DEF BuildersApart, OthersFinished, Finished, Typed, Leave
  <2>3. KeyedWhenBuilt' /\ PooledByKey' /\ WantsOwnKey' /\ HoldsWanted'
    BY <1>1, <1>3 DEF KeyedWhenBuilt, PooledByKey, Finished, WantsOwnKey, HoldsWanted, Typed, Leave
  <2>4. QED
    BY <2>1, <2>2, <2>3
<1>4. ASSUME NEW i \in DOMAIN made, made[i] \in listed, Hold(u, made[i]),
             lent' = lent \cup {made[i]}, UNCHANGED <<owner, want>>
      PROVE  PoolInv'
  <2>1. Finished(made[i])
    BY <1>4 DEF OthersFinished
  <2>2. pc' = [pc EXCEPT ![u] = "holding"] /\ circ' = [circ EXCEPT ![u] = made[i]]
    BY <1>4 DEF Hold
  <2>3. Typed'
    BY <1>1, <1>4, <2>1, <2>2 DEF Typed, Finished
  <2>4. BuildersApart' /\ OthersFinished'
    BY <1>1, <2>1, <2>2 DEF BuildersApart, OthersFinished, Finished, Typed
  <2>5. KeyedWhenBuilt' /\ PooledByKey' /\ WantsOwnKey' /\ HoldsWanted'
    BY <1>1, <1>4, <2>2 DEF KeyedWhenBuilt, PooledByKey, Finished, WantsOwnKey, HoldsWanted, Typed
  <2>6. QED
    BY <2>3, <2>4, <2>5
<1>5. QED
  BY <1>3, <1>4 DEF GetListed

(* Put keeps circuits under their keys.                                    *)
LEMMA PutKeeps ==
  ASSUME PoolInv, NEW c \in Circuits, Finished(c), Put(c)
  PROVE  /\ pool' \in [AllKeys -> Seq(Circuits)]
         /\ \A k \in AllKeys, x \in Circuits :
              InSeq(x, pool'[k]) => Finished(x) /\ Key(key[x]) = k
<1> DEFINE k == Key(key[c])
<1>1. k \in AllKeys /\ pool \in [AllKeys -> Seq(Circuits)]
  BY DEF PoolInv, Typed, AllKeys
<1>2. pool' = pool \/ pool' = [pool EXCEPT ![k] = Append(@, c)]
  BY DEF Put
<1>3. Append(pool[k], c) \in Seq(Circuits)
  BY <1>1
<1>4. pool' \in [AllKeys -> Seq(Circuits)]
  BY <1>1, <1>2, <1>3
<1>5. \A m \in AllKeys, x \in Circuits :
        InSeq(x, pool'[m]) => InSeq(x, pool[m]) \/ (x = c /\ m = k)
  BY <1>1, <1>2, InAppend
<1>6. QED
  BY <1>4, <1>5 DEF PoolInv, OthersFinished, PooledByKey

(* A user that puts its circuit back.                                      *)
LEMMA ReleaseStep ==
  ASSUME PoolInv, NEW u \in Users, Release(u)
  PROVE  PoolInv'
<1> USE DEF PoolInv
<1>1. Finished(circ[u]) /\ circ[u] \in Circuits /\ Put(circ[u])
  BY DEF Release, OthersFinished, Finished
<1>2. /\ pool' \in [AllKeys -> Seq(Circuits)]
      /\ \A k \in AllKeys, x \in Circuits :
           InSeq(x, pool'[k]) => Finished(x) /\ Key(key[x]) = k
  BY <1>1, PutKeeps
<1>3. UNCHANGED <<state, key, listed, lent, pre, preCirc>> /\ Leave(u)
  BY DEF Release, preVars
<1>4. NoKey \in IsolationKeys
  BY DEF IsolationKeys
<1>5. Typed'
  BY <1>2, <1>3, <1>4 DEF Typed, Leave
<1>6. BuildersApart' /\ OthersFinished'
  BY <1>2, <1>3 DEF BuildersApart, OthersFinished, Finished, Typed, Leave
<1>7. KeyedWhenBuilt' /\ PooledByKey' /\ WantsOwnKey' /\ HoldsWanted'
  BY <1>2, <1>3 DEF KeyedWhenBuilt, PooledByKey, Finished, WantsOwnKey, HoldsWanted, Typed, Leave
<1>8. QED
  BY <1>5, <1>6, <1>7

(* The prebuild loop, which wants no key.                                  *)
PrebuildAny ==
  \/ CountPooled \/ PrebuildStep \/ PrebuildPut \/ PrebuildExit

(* The pool builds circuits ahead of any request.                          *)
LEMMA PrebuildAnyStep ==
  ASSUME PoolInv, PrebuildAny
  PROVE  PoolInv'
<1> USE DEF PoolInv, userVars
<1>0. NoCircuit \notin Circuits
  BY PoolCircuitsAssumption DEF PoolCircuitsAssumption
<1>1. ASSUME NEW c \in Circuits \cup {NoCircuit}, PrebuildStart(c)
      PROVE  PoolInv'
  <2>1. /\ c # NoCircuit => c \in Circuits /\ state[c] = "unmade"
        /\ state' = [x \in Circuits |-> IF x = c THEN "BUILDING" ELSE state[x]]
        /\ pre' = "building" /\ preCirc' = c
        /\ UNCHANGED <<key, pool, listed, pc, owner, want, circ, lent>>
    BY <1>0, <1>1 DEF PrebuildStart, StartBuild, Unmade
  <2>2. \A x : Finished(x) => Finished(x)'
    BY <1>0, <2>1 DEF Finished
  <2>3. Typed' /\ BuildersApart'
    BY <1>0, <2>1 DEF Typed, BuildersApart
  <2>4. OthersFinished' /\ KeyedWhenBuilt'
    BY <2>1, <2>2 DEF OthersFinished, KeyedWhenBuilt
  <2>5. PooledByKey' /\ WantsOwnKey' /\ HoldsWanted'
    BY <2>1 DEF PooledByKey, WantsOwnKey, HoldsWanted
  <2>6. QED
    BY <2>3, <2>4, <2>5
<1>2. CASE PrebuildSucceeds
  <2>1. /\ pre = "building" /\ preCirc \in Circuits /\ state[preCirc] = "BUILDING"
        /\ state' = [state EXCEPT ![preCirc] = "OPEN"] /\ listed' = listed \cup {preCirc}
        /\ pre' = "putting"
        /\ UNCHANGED <<key, pool, pc, owner, want, circ, lent, preCirc>>
    BY <1>2 DEF PrebuildSucceeds, BuildSucceeds, Typed, BuildersApart
  <2>2. Finished(preCirc)' /\ \A x : Finished(x) => Finished(x)'
    BY <2>1 DEF Finished, Typed
  <2>3. Typed' /\ BuildersApart'
    BY <2>1 DEF Typed, BuildersApart
  <2>4. OthersFinished' /\ KeyedWhenBuilt'
    BY <2>1, <2>2 DEF OthersFinished, KeyedWhenBuilt
  <2>5. PooledByKey' /\ WantsOwnKey' /\ HoldsWanted'
    BY <2>1 DEF PooledByKey, WantsOwnKey, HoldsWanted
  <2>6. QED
    BY <2>3, <2>4, <2>5
<1>3. CASE PrebuildFails
  <2>1. /\ pre = "building" /\ (preCirc # NoCircuit => state[preCirc] = "BUILDING")
        /\ state' = [x \in Circuits |-> IF x = preCirc THEN "unmade" ELSE state[x]]
        /\ pre' \in {"asleep", "looping"} /\ preCirc' = NoCircuit
        /\ UNCHANGED <<key, pool, listed, pc, owner, want, circ, lent>>
    BY <1>3 DEF PrebuildFails, BuildFails, NextPrebuild, BuildersApart
  <2>2. \A x : Finished(x) => Finished(x)'
    BY <1>0, <2>1 DEF Finished
  <2>3. Typed' /\ BuildersApart'
    BY <1>0, <2>1 DEF Typed, BuildersApart
  <2>4. OthersFinished' /\ KeyedWhenBuilt'
    BY <2>1, <2>2 DEF OthersFinished, KeyedWhenBuilt
  <2>5. PooledByKey' /\ WantsOwnKey' /\ HoldsWanted'
    BY <2>1 DEF PooledByKey, WantsOwnKey, HoldsWanted
  <2>6. QED
    BY <2>3, <2>4, <2>5
<1>4. CASE PrebuildPut
  <2>1. /\ Finished(preCirc) /\ preCirc \in Circuits /\ Put(preCirc)
        /\ pre' \in {"asleep", "looping"} /\ preCirc' = NoCircuit
        /\ UNCHANGED <<state, key, listed, pc, owner, want, circ, lent>>
    BY <1>4 DEF PrebuildPut, NextPrebuild, OthersFinished, Finished
  <2>2. /\ pool' \in [AllKeys -> Seq(Circuits)]
        /\ \A k \in AllKeys, x \in Circuits :
             InSeq(x, pool'[k]) => Finished(x) /\ Key(key[x]) = k
    BY <2>1, PutKeeps
  <2>3. Typed' /\ BuildersApart'
    BY <2>1, <2>2 DEF Typed, BuildersApart
  <2>4. OthersFinished' /\ KeyedWhenBuilt' /\ PooledByKey'
    BY <2>1, <2>2 DEF OthersFinished, KeyedWhenBuilt, PooledByKey, Finished
  <2>5. WantsOwnKey' /\ HoldsWanted'
    BY <2>1 DEF WantsOwnKey, HoldsWanted
  <2>6. QED
    BY <2>3, <2>4, <2>5
<1>5. CASE CountPooled \/ PrebuildCancelled \/ PrebuildExit
  <2>1. /\ pre' \in {"asleep", "looping", "exited"}
        /\ preCirc' \in {preCirc, NoCircuit}
        /\ UNCHANGED <<state, key, pool, listed, pc, owner, want, circ, lent>>
    BY <1>5 DEF CountPooled, PrebuildCancelled, PrebuildExit, NextPrebuild
  <2>2. QED
    BY <2>1 DEF Typed, BuildersApart, OthersFinished, KeyedWhenBuilt, PooledByKey, WantsOwnKey,
         HoldsWanted, Finished
<1>6. QED
  BY <1>1, <1>2, <1>3, <1>4, <1>5 DEF PrebuildAny, PrebuildStep

(* Start, Stop and the maintenance loop, which close circuits only.        *)
ClientStep ==
  \/ \E cut \in 0 .. Len(made) : CheckCircuits(cut)
  \/ StartPool \/ StartFails \/ StartServes \/ Stop \/ CancelPool \/ ClosePool \/ CloseListed

(* The steps of the client that owns the pool.                             *)
LEMMA ClientStepKeeps ==
  ASSUME PoolInv, ClientStep
  PROVE  PoolInv'
<1> USE DEF PoolInv, userVars, preVars
<1>1. \/ state' = state
      \/ \E closed \in SUBSET Circuits :
           /\ \A c \in closed : Finished(c)
           /\ state' = [c \in Circuits |-> IF c \in closed THEN "CLOSED" ELSE state[c]]
  <2>1. ASSUME NEW cut \in 0 .. Len(made), CheckCircuits(cut)
        PROVE  \E closed \in SUBSET Circuits :
                 /\ \A c \in closed : Finished(c)
                 /\ state' = [c \in Circuits |-> IF c \in closed THEN "CLOSED" ELSE state[c]]
    <3> DEFINE old == {made[i] : i \in 1 .. cut} \cap {c \in listed : state[c] = "OPEN"}
    <3>1. old \in SUBSET Circuits /\ \A c \in old : Finished(c)
      BY DEF OthersFinished, Typed
    <3>2. state' = [c \in Circuits |-> IF c \in old THEN "CLOSED" ELSE state[c]]
      BY <2>1 DEF CheckCircuits
    <3> HIDE DEF old
    <3>3. QED
      BY <3>1, <3>2
  <2>2. CASE ClosePool
    <3> DEFINE pooled == {c \in Circuits : \E k \in AllKeys : InSeq(c, pool[k])}
    <3>1. \A c \in pooled : Finished(c)
      BY DEF OthersFinished
    <3>2. state' = [c \in Circuits |-> IF c \in pooled THEN "CLOSED" ELSE state[c]]
      BY <2>2 DEF ClosePool
    <3>3. pooled \in SUBSET Circuits
      OBVIOUS
    <3> HIDE DEF pooled
    <3>4. QED
      BY <3>1, <3>2, <3>3
  <2>3. CASE CloseListed
    BY <2>3 DEF CloseListed, OthersFinished, Typed
  <2>4. CASE StartPool \/ StartFails \/ StartServes \/ Stop \/ CancelPool
    BY <2>4 DEF StartPool, StartFails, StartServes, Stop, CancelPool
  <2>5. QED
    BY <2>1, <2>2, <2>3, <2>4 DEF ClientStep
<1>2. /\ UNCHANGED <<key, pc, owner, want, circ, lent, preCirc>>
      /\ listed' \subseteq listed
      /\ pre' = pre \/ pre' = "asleep"
      /\ pool' = pool \/ pool' = [k \in AllKeys |-> << >>]
  BY DEF ClientStep, CheckCircuits, StartPool, StartFails, StartServes, Stop, CancelPool,
       ClosePool, CloseListed
<1>3. \A x : Finished(x) => Finished(x)'
  BY <1>1 DEF Finished
<1>4. \A x \in Circuits : state[x] = "BUILDING" => state'[x] = "BUILDING"
  BY <1>1 DEF Finished
<1>5. \A k \in AllKeys, x \in Circuits : InSeq(x, pool'[k]) => InSeq(x, pool[k])
  BY <1>2 DEF InSeq
<1>6. Typed'
  <2>1. state' \in [Circuits -> {"unmade", "BUILDING", "OPEN", "CLOSED"}]
    BY <1>1 DEF Typed
  <2>2. [k \in AllKeys |-> << >>] \in [AllKeys -> Seq(Circuits)]
    OBVIOUS
  <2>3. QED
    BY <1>2, <2>1, <2>2 DEF Typed
<1>7. BuildersApart'
  BY <1>2, <1>4 DEF BuildersApart, Typed
<1>8. OthersFinished' /\ KeyedWhenBuilt'
  BY <1>2, <1>3, <1>5 DEF OthersFinished, KeyedWhenBuilt
<1>9. PooledByKey' /\ WantsOwnKey' /\ HoldsWanted'
  BY <1>2, <1>5 DEF PooledByKey, WantsOwnKey, HoldsWanted
<1>10. QED
  BY <1>6, <1>7, <1>8, <1>9

-----------------------------------------------------------------------------
(* The invariant is inductive.                                             *)
LEMMA PoolNextInv == PoolInv /\ [Next]_vars => PoolInv'
<1> SUFFICES ASSUME PoolInv, [Next]_vars PROVE PoolInv'
  OBVIOUS
<1>1. CASE UNCHANGED vars
  BY <1>1 DEF vars, userVars, preVars, PoolInv, Typed, BuildersApart, OthersFinished, KeyedWhenBuilt,
       PooledByKey, WantsOwnKey, HoldsWanted, Finished
<1>2. CASE \E u \in Users, r \in Requests, resolves \in BOOLEAN : Accept(u, r, resolves)
  BY <1>2, AskStep
<1>3. ASSUME NEW u \in Users, GetCircuit(u) PROVE PoolInv'
  BY <1>3, AskStep
<1>4. CASE \E u \in Users : GetPooled(u) \/ GetBuilt(u) \/ GetFails(u) \/ GetListed(u) \/ Release(u)
  BY <1>4, PooledStep, BuiltStep, FailsStep, ListedStep, ReleaseStep
<1>5. CASE \E u \in Users, c \in Circuits \cup {NoCircuit} : GetStartsBuild(u, c)
  BY <1>5, StartsBuildStep
<1>6. CASE PrebuildAny
  BY <1>6, PrebuildAnyStep
<1>7. CASE ClientStep
  BY <1>7, ClientStepKeeps
<1>8. QED
  BY <1>1, <1>2, <1>3, <1>4, <1>5, <1>6, <1>7 DEF Next, PrebuildAny, PrebuildStep, ClientStep

(* In every state the pool holds circuits under the keys they were built   *)
(* for and users hold circuits of the key they asked for, unless the       *)
(* fallback lent them (circuit_pool.go:93-137, 160-186).                   *)
THEOREM PoolInvariant == Spec => []PoolInv
BY PoolInitInv, PoolNextInv, PTL DEF Spec

(* A circuit that was built for a key carries only requests that have the  *)
(* name, target or port in it, for any number of users, requests and       *)
(* circuits, pool size and isolation level: what the user asked for is the *)
(* key of its own request, and a key leads to its requester's circuits     *)
(* alone (socks.go:323-351, isolation.go:157-176, circuit_pool.go:93-137). *)
THEOREM IsolatedCircuitsPrivate == Spec => []IsolatedCircuitPrivate
<1>1. PoolInv => IsolatedCircuitPrivate
  <2> SUFFICES ASSUME PoolInv, NEW u \in Users, pc[u] = "holding", circ[u] \notin lent,
                      key[circ[u]] # NoKey
               PROVE  owner[u][Isolation.level] = Field(key[circ[u]])
    BY DEF IsolatedCircuitPrivate
  <2> DEFINE l == Isolation.level
  <2>1. l \in Levels
    BY IsolationAssumption DEF IsolationAssumption
  <2>2. circ[u] \in Circuits /\ key[circ[u]] \in IsolationKeys
    BY DEF PoolInv, OthersFinished, Finished, Typed
  <2>3. PICK r \in Requests : key[circ[u]] = RequestKey(Isolation, r)
    BY <2>2 DEF IsolationKeys
  <2>4. /\ Key(key[circ[u]]) = <<l, r[l]>> /\ Key(key[circ[u]]) # Unisolated
        /\ Field(key[circ[u]]) = r[l]
    BY <2>1, <2>3, RequestKeyIsolates, RequestKeyFilled
  <2>5. Key(want[u]) = Key(key[circ[u]])
    BY DEF PoolInv, HoldsWanted
  <2>6. want[u] # NoKey
    BY <2>4, <2>5 DEF Key
  <2>7. want[u] = RequestKey(Isolation, owner[u])
    BY <2>6 DEF PoolInv, WantsOwnKey
  <2>8. Key(want[u]) = <<l, owner[u][l]>>
    BY <2>1, <2>6, <2>7, RequestKeyIsolates
  <2>9. <<l, owner[u][l]>> = <<l, r[l]>>
    BY <2>4, <2>5, <2>8
  <2>10. owner[u][l] = r[l]
    BY <2>9
  <2>11. QED
    BY <2>4, <2>10
<1>2. QED
  BY <1>1, PoolInvariant, PTL
-----------------------------------------------------------------------------
(* Places.  One lemma for each kind of step, as before.                    *)

(* In an empty pool every circuit is in one place: none.                   *)
LEMMA PlaceInitInv == Init => PlaceInv
BY DEF Init, NewClient, PlaceInv, OncePooled, OneHolder, NowhereElse, HasWhenUsed, InSeq

(* A circuit that has not been made is nowhere.                            *)
LEMMA UnmadeNowhere ==
  ASSUME PoolInv, PlaceInv, NEW c \in Circuits, state[c] = "unmade"
  PROVE  /\ \A u \in Users : circ[u] # c
         /\ preCirc # c
         /\ \A k \in AllKeys : ~InSeq(c, pool[k])
<1>1. ~Finished(c) /\ state[c] # "BUILDING" /\ c # NoCircuit
  BY PoolCircuitsAssumption DEF PoolCircuitsAssumption, Finished
<1>2. QED
  BY <1>1 DEF PoolInv, PlaceInv, HasWhenUsed, BuildersApart, OthersFinished

(* Users that have nothing change nothing, and nor does closing.           *)
LEMMA NoPlaceStep ==
  ASSUME PlaceInv, UNCHANGED <<circ, lent, preCirc>>,
         \A u \in Users : pc'[u] = pc[u] \/ circ[u] = NoCircuit,
         pre' = pre \/ preCirc = NoCircuit,
         pool' = pool \/ pool' = [k \in AllKeys |-> << >>]
  PROVE  PlaceInv'
<1>1. HasWhenUsed'
  BY DEF PlaceInv, HasWhenUsed
<1>2. CASE pool' = pool
  BY <1>1, <1>2 DEF PlaceInv, OncePooled, OneHolder, NowhereElse
<1>3. CASE pool' = [k \in AllKeys |-> << >>]
  <2>1. \A k \in AllKeys : DOMAIN pool'[k] = {}
    BY <1>3
  <2>2. QED
    BY <1>1, <2>1 DEF PlaceInv, OncePooled, OneHolder, NowhereElse, InSeq
<1>4. QED
  BY <1>2, <1>3

(* A circuit that Get takes from the pool goes to the one user that asked. *)
LEMMA PooledPlace ==
  ASSUME PoolInv, PlaceInv, NEW u \in Users, GetPooled(u)
  PROVE  PlaceInv'
<1> USE DEF PlaceInv
<1> DEFINE k == Key(want[u])
           q == pool[k]
<1>1. k \in AllKeys /\ q \in Seq(Circuits)
  BY DEF PoolInv, Typed, AllKeys
<1>2. PICK i \in DOMAIN q :
        /\ pool' = [pool EXCEPT ![k] = SubSeq(q, i + 1, Len(q))]
        /\ Hold(u, q[i])
  BY DEF GetPooled, OpenAt
<1> DEFINE t == SubSeq(q, i + 1, Len(q))
           c == q[i]
<1>3. UNCHANGED <<lent, pre, preCirc>> /\ pc[u] = "accepted"
  BY DEF GetPooled, preVars
<1>4. circ' = [circ EXCEPT ![u] = c] /\ pc' = [pc EXCEPT ![u] = "holding"]
  BY <1>2 DEF Hold
<1>5. /\ i \in 1 .. Len(q) /\ Len(q) \in Nat /\ t \in Seq(Circuits) /\ Len(t) = Len(q) - i
      /\ \A j \in DOMAIN t : j \in Nat \ {0} /\ i + j \in DOMAIN q /\ t[j] = q[i + j]
  <2> HIDE DEF k, q
  <2>1. i \in 1 .. Len(q) /\ Len(q) \in Nat
    BY <1>1
  <2>2. QED
    BY <1>1, <2>1, TailPlaces
<1>6. \A j \in DOMAIN t : j \in Nat \ {0} /\ i + j \in DOMAIN q /\ t[j] = q[i + j]
  BY <1>5
<1>7. c \in Circuits /\ InSeq(c, pool[k]) /\ (\A x : InSeq(x, t) => InSeq(x, q))
  <2>1. c \in Circuits /\ InSeq(c, q)
    BY <1>1, <1>5 DEF InSeq
  <2>2. \A x : InSeq(x, t) => InSeq(x, q)
    BY <1>6 DEF InSeq
  <2>3. QED
    BY <2>1, <2>2
<1>8. pool'[k] = t /\ \A m \in AllKeys \ {k} : pool'[m] = pool[m]
  BY <1>1, <1>2 DEF PoolInv, Typed
<1>9. circ'[u] = c /\ pc'[u] = "holding"
      /\ \A v \in Users \ {u} : circ'[v] = circ[v] /\ pc'[v] = pc[v]
  BY <1>4 DEF PoolInv, Typed
<1>10. c \notin lent => ~InSeq(c, t)
  <2> SUFFICES ASSUME c \notin lent, NEW j \in DOMAIN t, t[j] = c
               PROVE  FALSE
    BY DEF InSeq
  <2>1. i + j = i /\ j \in Nat \ {0}
    BY <1>1, <1>6 DEF OncePooled
  <2>2. QED
    BY <1>5, <2>1
<1>11. \A m \in AllKeys : m # k => ~InSeq(c, pool[m])
  BY <1>1, <1>7 DEF PoolInv, PooledByKey
<1>12. OncePooled'
  <2>1. ASSUME NEW j \in DOMAIN t, NEW l \in DOMAIN t, t[j] = t[l], t[j] \notin lent
        PROVE  j = l
    <3>1. /\ j \in Nat /\ i + j \in DOMAIN q /\ t[j] = q[i + j]
          /\ l \in Nat /\ i + l \in DOMAIN q /\ t[l] = q[i + l]
      BY <1>6
    <3>2. i + j = i + l
      BY <1>1, <2>1, <3>1 DEF OncePooled
    <3>3. i \in Nat
      BY <1>5
    <3> HIDE DEF k, q, t
    <3>4. QED
      BY <3>1, <3>2, <3>3
  <2> HIDE DEF k, t
  <2>2. QED
    BY <1>3, <1>8, <2>1 DEF OncePooled
<1> HIDE DEF k, q, t, c
<1>13. c \notin lent => \A v \in Users : circ[v] # c
  BY <1>1, <1>7, PoolCircuitsAssumption DEF PoolCircuitsAssumption, NowhereElse
<1>14. c \notin lent => preCirc # c
  BY <1>1, <1>7, PoolCircuitsAssumption DEF PoolCircuitsAssumption, NowhereElse
<1>15. OneHolder' /\ HasWhenUsed'
  BY <1>3, <1>9, <1>13 DEF OneHolder, HasWhenUsed
<1>16. \A m \in AllKeys : \A x : InSeq(x, pool'[m]) => InSeq(x, pool[m])
  BY <1>7, <1>8 DEF q
<1>17. \A m \in AllKeys : c \notin lent => ~InSeq(c, pool'[m])
  BY <1>8, <1>10, <1>11
<1>18. NowhereElse'
  BY <1>3, <1>9, <1>14, <1>16, <1>17 DEF NowhereElse
<1>19. QED
  BY <1>12, <1>15, <1>18

(* A circuit that Get builds is new, so no queue holds it.                 *)
LEMMA StartsBuildPlace ==
  ASSUME PoolInv, PlaceInv, NEW u \in Users, NEW c \in Circuits \cup {NoCircuit}, GetStartsBuild(u, c)
  PROVE  PlaceInv'
<1> USE DEF PlaceInv
<1>1. c # NoCircuit => c \in Circuits /\ state[c] = "unmade"
  BY PoolCircuitsAssumption DEF PoolCircuitsAssumption, GetStartsBuild, StartBuild, Unmade
<1>2. /\ pool' = [pool EXCEPT ![Key(want[u])] = << >>]
      /\ pc' = [pc EXCEPT ![u] = "building"] /\ circ' = [circ EXCEPT ![u] = c]
      /\ UNCHANGED <<lent, pre, preCirc>>
  BY DEF GetStartsBuild, preVars
<1>3. /\ circ'[u] = c /\ pc'[u] = "building"
      /\ \A v \in Users \ {u} : circ'[v] = circ[v] /\ pc'[v] = pc[v]
  BY <1>2 DEF PoolInv, Typed
<1>4. \A k \in AllKeys : pool'[k] = pool[k] \/ pool'[k] = << >>
  BY <1>2 DEF PoolInv, Typed
<1>5. c # NoCircuit => /\ \A v \in Users : circ[v] # c
                       /\ preCirc # c
                       /\ \A k \in AllKeys : ~InSeq(c, pool[k])
  BY <1>1, UnmadeNowhere
<1>6. \A k \in AllKeys : \A x : InSeq(x, pool'[k]) => InSeq(x, pool[k])
  BY <1>4 DEF InSeq
<1>7. OncePooled'
  BY <1>2, <1>4 DEF OncePooled
<1>8. OneHolder' /\ HasWhenUsed'
  BY <1>2, <1>3, <1>5 DEF OneHolder, HasWhenUsed
<1>9. ASSUME NEW v \in Users, circ'[v] # NoCircuit, circ'[v] \notin lent
      PROVE  preCirc # circ'[v] /\ \A k \in AllKeys : ~InSeq(circ'[v], pool[k])
  BY <1>3, <1>5, <1>9 DEF NowhereElse
<1>10. NowhereElse'
  <2>1. \A v \in Users, k \in AllKeys : circ'[v] # NoCircuit /\ circ'[v] \notin lent => ~InSeq(circ'[v], pool'[k])
    BY <1>6, <1>9
  <2>2. preCirc # NoCircuit /\ preCirc \notin lent => \A k \in AllKeys : ~InSeq(preCirc, pool'[k])
    BY <1>6 DEF NowhereElse
  <2>3. QED
    BY <1>2, <1>9, <2>1, <2>2 DEF NowhereElse, InSeq
<1>11. QED
  BY <1>7, <1>8, <1>10

(* A user lets go of its circuit, or goes on to hold it.                   *)
LEMMA SamePlaceStep ==
  ASSUME PoolInv, PlaceInv, NEW u \in Users, GetBuilt(u) \/ GetFails(u)
  PROVE  PlaceInv'
<1> USE DEF PlaceInv
<1>1. /\ UNCHANGED <<pool, lent, pre, preCirc>>
      /\ \/ circ' = [circ EXCEPT ![u] = circ[u]] /\ pc' = [pc EXCEPT ![u] = "holding"]
         \/ /\ circ' = [circ EXCEPT ![u] = NoCircuit]
            /\ pc' = [pc EXCEPT ![u] = "fallback"] \/ pc' = [pc EXCEPT ![u] = "idle"]
  BY DEF GetBuilt, GetFails, Hold, Leave, preVars
<1>2. /\ (circ'[u] = circ[u] /\ pc'[u] = "holding") \/ circ'[u] = NoCircuit
      /\ \A v \in Users \ {u} : circ'[v] = circ[v] /\ pc'[v] = pc[v]
  BY <1>1 DEF PoolInv, Typed
<1>3. QED
  BY <1>1, <1>2 DEF OncePooled, OneHolder, NowhereElse, HasWhenUsed

(* A circuit that is handed out from the client's own list counts as lent: *)
(* the invariant says nothing of where it is.                              *)
LEMMA ListedPlace ==
  ASSUME PoolInv, PlaceInv, NEW u \in Users, GetListed(u)
  PROVE  PlaceInv'
<1> USE DEF PlaceInv
<1>1. UNCHANGED <<pool, pre, preCirc>> /\ pc[u] = "fallback"
  BY DEF GetListed, preVars
<1>2. /\ lent \subseteq lent'
      /\ \/ circ' = [circ EXCEPT ![u] = NoCircuit]
         \/ \E x \in lent' : circ' = [circ EXCEPT ![u] = x] /\ pc' = [pc EXCEPT ![u] = "holding"]
      /\ \E p : pc' = [pc EXCEPT ![u] = p]
  BY DEF GetListed, Hold, Leave
<1>3. /\ circ'[u] = NoCircuit \/ (circ'[u] \in lent' /\ pc'[u] = "holding")
      /\ \A v \in Users \ {u} : circ'[v] = circ[v] /\ pc'[v] = pc[v]
  BY <1>2 DEF PoolInv, Typed
<1>4. QED
  BY <1>1, <1>2, <1>3 DEF OncePooled, OneHolder, NowhereElse, HasWhenUsed

(* Put adds a circuit that is in no pool to one.                           *)
LEMMA PutOnce ==
  ASSUME PoolInv, OncePooled, NEW c \in Circuits, Put(c), UNCHANGED lent,
         c \notin lent => \A k \in AllKeys : ~InSeq(c, pool[k])
  PROVE  /\ OncePooled'
         /\ \A k \in AllKeys : \A x : InSeq(x, pool'[k]) => x = c \/ InSeq(x, pool[k])
<1> DEFINE k == Key(key[c])
<1>1. k \in AllKeys /\ pool \in [AllKeys -> Seq(Circuits)]
  BY DEF PoolInv, Typed, AllKeys
<1>2. CASE pool' = pool
  BY <1>2 DEF OncePooled
<1>3. CASE pool' = [pool EXCEPT ![k] = Append(@, c)]
  <2> DEFINE q == pool[k]
  <2>1. q \in Seq(Circuits) /\ pool'[k] = Append(q, c) /\ \A m \in AllKeys \ {k} : pool'[m] = pool[m]
    BY <1>1, <1>3
  <2>2. /\ \A i \in DOMAIN Append(q, c) : i \in DOMAIN q \/ i = Len(q) + 1
        /\ Append(q, c)[Len(q) + 1] = c
        /\ \A i \in DOMAIN q : Append(q, c)[i] = q[i]
    BY <2>1
  <2>3. c \notin lent => \A i \in DOMAIN q : q[i] # c
    BY <1>1 DEF InSeq
  <2> HIDE DEF k, q
  <2>4. ASSUME NEW i \in DOMAIN pool'[k], NEW j \in DOMAIN pool'[k],
               pool'[k][i] = pool'[k][j], pool'[k][i] \notin lent
        PROVE  i = j
    <3>1. CASE i \in DOMAIN q /\ j \in DOMAIN q
      BY <1>1, <2>1, <2>2, <2>4, <3>1 DEF OncePooled, q
    <3>2. CASE i = Len(q) + 1 \/ j = Len(q) + 1
      BY <2>1, <2>2, <2>3, <2>4, <3>2
    <3>3. QED
      BY <2>1, <2>2, <2>4, <3>1, <3>2
  <2>5. OncePooled'
    BY <2>1, <2>4 DEF OncePooled
  <2>6. ASSUME NEW m \in AllKeys, NEW x, InSeq(x, pool'[m])
        PROVE  x = c \/ InSeq(x, pool[m])
    BY <2>1, <2>2, <2>6 DEF InSeq, q
  <2>7. QED
    BY <2>5, <2>6
<1>4. QED
  BY <1>2, <1>3 DEF Put, InSeq

(* A circuit that comes back goes into one queue, or is dropped.           *)
LEMMA ReleasePlace ==
  ASSUME PoolInv, PlaceInv, NEW u \in Users, Release(u)
  PROVE  PlaceInv'
<1> USE DEF PlaceInv
<1> DEFINE c == circ[u]
<1>1. /\ c \in Circuits /\ c # NoCircuit /\ Put(c) /\ UNCHANGED <<lent, pre, preCirc>>
      /\ circ' = [circ EXCEPT ![u] = NoCircuit] /\ pc' = [pc EXCEPT ![u] = "idle"]
  BY PoolCircuitsAssumption
     DEF PoolCircuitsAssumption, Release, Leave, PoolInv, OthersFinished, Finished, preVars
<1>2. /\ circ'[u] = NoCircuit
      /\ \A v \in Users \ {u} : circ'[v] = circ[v] /\ pc'[v] = pc[v]
  BY <1>1 DEF PoolInv, Typed
<1>3. c \notin lent => \A k \in AllKeys : ~InSeq(c, pool[k])
  BY <1>1 DEF NowhereElse
<1>4. /\ OncePooled'
      /\ \A k \in AllKeys : \A x : InSeq(x, pool'[k]) => x = c \/ InSeq(x, pool[k])
  BY <1>1, <1>3, PutOnce
<1>5. c \notin lent => preCirc # c /\ \A v \in Users \ {u} : circ[v] # c
  BY <1>1 DEF NowhereElse, OneHolder
<1> HIDE DEF c
<1>6. OneHolder' /\ HasWhenUsed'
  BY <1>1, <1>2 DEF OneHolder, HasWhenUsed
<1>7. NowhereElse'
  BY <1>1, <1>2, <1>4, <1>5 DEF NowhereElse
<1>8. QED
  BY <1>4, <1>6, <1>7

(* So does one that was built ahead.                                       *)
LEMMA PrebuildPlace ==
  ASSUME PoolInv, PlaceInv, PrebuildAny
  PROVE  PlaceInv'
<1> USE DEF PlaceInv, userVars
<1>1. ASSUME NEW c \in Circuits \cup {NoCircuit}, PrebuildStart(c)
      PROVE  PlaceInv'
  <2>1. /\ c # NoCircuit => c \in Circuits /\ state[c] = "unmade"
        /\ pre' = "building" /\ preCirc' = c
        /\ UNCHANGED <<pool, pc, circ, lent>>
    BY <1>1, PoolCircuitsAssumption DEF PoolCircuitsAssumption, PrebuildStart, StartBuild, Unmade
  <2>2. c # NoCircuit => /\ \A v \in Users : circ[v] # c
                         /\ \A k \in AllKeys : ~InSeq(c, pool[k])
    BY <2>1, UnmadeNowhere
  <2>3. QED
    BY <2>1, <2>2 DEF OncePooled, OneHolder, NowhereElse, HasWhenUsed
<1>2. CASE PrebuildSucceeds
  BY <1>2 DEF PrebuildSucceeds, OncePooled, OneHolder, NowhereElse, HasWhenUsed
<1>3. CASE PrebuildPut
  <2>1. /\ preCirc \in Circuits /\ preCirc # NoCircuit /\ Put(preCirc) /\ preCirc' = NoCircuit
        /\ UNCHANGED <<pc, circ, lent>>
    BY <1>3, PoolCircuitsAssumption
       DEF PoolCircuitsAssumption, PrebuildPut, NextPrebuild, PoolInv, OthersFinished, Finished
  <2>2. preCirc \notin lent => /\ \A k \in AllKeys : ~InSeq(preCirc, pool[k])
                               /\ \A v \in Users : circ[v] # preCirc
    BY <2>1 DEF NowhereElse
  <2>3. /\ OncePooled'
        /\ \A k \in AllKeys : \A x : InSeq(x, pool'[k]) => x = preCirc \/ InSeq(x, pool[k])
    BY <2>1, <2>2, PutOnce
  <2>4. OneHolder' /\ HasWhenUsed'
    BY <2>1 DEF OneHolder, HasWhenUsed
  <2>5. NowhereElse'
    BY <2>1, <2>2, <2>3 DEF NowhereElse
  <2>6. QED
    BY <2>3, <2>4, <2>5
<1>4. CASE PrebuildFails \/ PrebuildCancelled
  BY <1>4 DEF PrebuildFails, PrebuildCancelled, NextPrebuild, OncePooled, OneHolder, NowhereElse, HasWhenUsed
<1>5. CASE CountPooled \/ PrebuildExit
  BY <1>5 DEF CountPooled, PrebuildExit, OncePooled, OneHolder, NowhereElse, HasWhenUsed
<1>6. QED
  BY <1>1, <1>2, <1>3, <1>4, <1>5 DEF PrebuildAny, PrebuildStep

(* The prebuild loop does not run before the client starts.                *)
LEMMA NothingPrebuiltStep == NothingPrebuilt /\ [Next]_vars => NothingPrebuilt'
<1> SUFFICES ASSUME NothingPrebuilt, [Next]_vars PROVE NothingPrebuilt'
  OBVIOUS
<1> USE DEF NothingPrebuilt
<1>1. CASE ClientStep
  BY <1>1 DEF ClientStep, CheckCircuits, StartPool, StartFails, StartServes, Stop, CancelPool,
       ClosePool, CloseListed, preVars
<1>2. CASE PrebuildAny
  BY <1>2 DEF PrebuildAny, PrebuildStep, CountPooled, PrebuildStart, PrebuildCancelled,
       PrebuildSucceeds, PrebuildFails, PrebuildPut, PrebuildExit
<1>3. CASE \/ \E u \in Users, r \in Requests, resolves \in BOOLEAN : Accept(u, r, resolves)
           \/ \E u \in Users, c \in Circuits \cup {NoCircuit} : GetStartsBuild(u, c)
           \/ \E u \in Users : \/ GetCircuit(u) \/ GetPooled(u) \/ GetBuilt(u) \/ GetFails(u)
                              \/ GetListed(u) \/ Release(u)
  BY <1>3 DEF Accept, GetStartsBuild, GetCircuit, GetPooled, GetBuilt, GetFails, GetListed, Release, preVars
<1>4. CASE UNCHANGED vars
  BY <1>4 DEF vars, preVars
<1>5. QED
  BY <1>1, <1>2, <1>3, <1>4 DEF Next, ClientStep, PrebuildAny, PrebuildStep

(* The invariant of the places is inductive.                               *)
LEMMA PlaceNextInv == PoolInv /\ NothingPrebuilt /\ PlaceInv /\ [Next]_vars => PlaceInv'
<1> SUFFICES ASSUME PoolInv, NothingPrebuilt, PlaceInv, [Next]_vars PROVE PlaceInv'
  OBVIOUS
<1>1. CASE UNCHANGED vars
  BY <1>1, NoPlaceStep DEF vars, userVars, preVars
<1>2. ASSUME NEW u \in Users,
             \/ \E r \in Requests, resolves \in BOOLEAN : Accept(u, r, resolves)
             \/ GetCircuit(u)
      PROVE  PlaceInv'
  <2>1. /\ UNCHANGED <<circ, lent, preCirc, pre, pool>> /\ pc[u] = "idle"
        /\ \E p : pc' = [pc EXCEPT ![u] = p]
    BY <1>2 DEF Accept, GetCircuit, preVars
  <2>2. circ[u] = NoCircuit /\ \A v \in Users \ {u} : pc'[v] = pc[v]
    BY <2>1 DEF PlaceInv, HasWhenUsed, PoolInv, Typed
  <2>3. QED
    BY <2>1, <2>2, NoPlaceStep
<1>3. CASE \E u \in Users : GetPooled(u) \/ GetBuilt(u) \/ GetFails(u) \/ GetListed(u) \/ Release(u)
  BY <1>3, PooledPlace, SamePlaceStep, ListedPlace, ReleasePlace
<1>4. CASE \E u \in Users, c \in Circuits \cup {NoCircuit} : GetStartsBuild(u, c)
  BY <1>4, StartsBuildPlace
<1>5. CASE PrebuildAny
  BY <1>5, PrebuildPlace
<1>6. CASE ClientStep
  <2>1. /\ UNCHANGED <<pc, circ, lent, preCirc>>
        /\ pool' = pool \/ pool' = [k \in AllKeys |-> << >>]
    BY <1>6 DEF ClientStep, CheckCircuits, StartPool, StartFails, StartServes, Stop, CancelPool,
         ClosePool, CloseListed, userVars, preVars
  <2>2. pre' = pre \/ preCirc = NoCircuit
    BY <1>6 DEF ClientStep, CheckCircuits, StartPool, StartFails, StartServes, Stop, CancelPool,
         ClosePool, CloseListed, preVars, PlaceInv, HasWhenUsed, NothingPrebuilt
  <2>3. QED
    BY <2>1, <2>2, NoPlaceStep
<1>7. QED
  BY <1>1, <1>2, <1>3, <1>4, <1>5, <1>6 DEF Next, PrebuildAny, PrebuildStep, ClientStep


(* A circuit is in one place at a time, a user's hands, one slot of one    *)
(* pool, or the prebuild loop's, unless GetCircuit's fallback has lent it: *)
(* Get removes what it returns, and who takes a circuit puts it back once, *)
(* although Put checks nothing.  It holds for any users, keys, circuits    *)
(* and sizes (circuit_pool.go:88-186, socks.go:388, client.go:535-560).    *)
THEOREM CircuitsInOnePlace == Spec => []OnePlace
<1>1. PoolInv /\ PlaceInv => OnePlace
  <2> SUFFICES ASSUME PoolInv, PlaceInv, NEW c \in Circuits, c \notin lent
               PROVE  Cardinality(Slots(c)) + Cardinality(Holders(c)) + (IF preCirc = c THEN 1 ELSE 0) <= 1
    BY DEF OnePlace
  <2>1. c # NoCircuit
    BY PoolCircuitsAssumption DEF PoolCircuitsAssumption
  <2>2. \A s \in Slots(c) : \E k \in AllKeys : \E i \in DOMAIN pool[k] : s = <<k, i>> /\ pool[k][i] = c
    BY DEF Slots
  <2>3. \A s, t \in Slots(c) : s = t
    <3> SUFFICES ASSUME NEW s \in Slots(c), NEW t \in Slots(c) PROVE s = t
      OBVIOUS
    <3>1. PICK k \in AllKeys : \E i \in DOMAIN pool[k] : s = <<k, i>> /\ pool[k][i] = c
      BY <2>2
    <3>2. PICK m \in AllKeys : \E i \in DOMAIN pool[m] : t = <<m, i>> /\ pool[m][i] = c
      BY <2>2
    <3>3. k = m
      BY <3>1, <3>2 DEF PoolInv, PooledByKey, InSeq
    <3>4. QED
      BY <3>1, <3>2, <3>3 DEF PlaceInv, OncePooled
  <2>4. \A u, v \in Holders(c) : u = v
    BY <2>1 DEF Holders, PlaceInv, OneHolder
  <2>5. Slots(c) # {} => \E k \in AllKeys : InSeq(c, pool[k])
    BY <2>2 DEF InSeq
  <2>6. /\ Slots(c) # {} => Holders(c) = {} /\ preCirc # c
        /\ Holders(c) # {} => preCirc # c
    BY <2>1, <2>5 DEF PlaceInv, NowhereElse, Holders
  <2>7. Cardinality(Slots(c)) = IF Slots(c) = {} THEN 0 ELSE 1
    <3>1. ASSUME NEW s \in Slots(c) PROVE Slots(c) = {s}
      BY <2>3
    <3>2. QED
      BY <3>1, FS_EmptySet, FS_Singleton
  <2>8. Cardinality(Holders(c)) = IF Holders(c) = {} THEN 0 ELSE 1
    <3>1. ASSUME NEW u \in Holders(c) PROVE Holders(c) = {u}
      BY <2>4
    <3>2. QED
      BY <3>1, FS_EmptySet, FS_Singleton
  <2>9. QED
    BY <2>6, <2>7, <2>8
<1>2. Init => NothingPrebuilt
  BY DEF Init, NewClient, NothingPrebuilt
<1>3. QED
  BY <1>1, <1>2, PoolInitInv, PoolNextInv, PlaceInitInv, PlaceNextInv, NothingPrebuiltStep, PTL DEF Spec

-----------------------------------------------------------------------------
(* Every step keeps it: a circuit is listed when it opens, and taken from  *)
(* the list only when it is not open.                                      *)
LEMMA OpenIsListedStep == PoolInv /\ OpenIsListed /\ [Next]_vars => OpenIsListed'
<1> SUFFICES ASSUME PoolInv, OpenIsListed, [Next]_vars PROVE OpenIsListed'
  OBVIOUS
<1>1. CASE /\ phase' = phase /\ listed \subseteq listed'
           /\ \A c \in Circuits : state'[c] = "OPEN" => state[c] = "OPEN" \/ c \in listed'
  BY <1>1 DEF OpenIsListed
<1>2. CASE UNCHANGED vars
  BY <1>1, <1>2 DEF vars
<1>3. CASE ClientStep
  <2>1. ASSUME NEW cut \in 0 .. Len(made), CheckCircuits(cut)
        PROVE  OpenIsListed'
    <3>1. /\ phase' = phase
          /\ \A c \in Circuits : state'[c] = "OPEN" /\ c \in listed => state[c] = "OPEN" /\ c \in listed'
          /\ \A c \in Circuits : state'[c] = "OPEN" => state[c] = "OPEN"
      BY <2>1 DEF CheckCircuits
    <3>2. QED
      BY <3>1 DEF OpenIsListed
  <2>2. CASE StartPool \/ StartFails \/ StartServes \/ Stop
    BY <2>2 DEF StartPool, StartFails, StartServes, Stop, OpenIsListed
  <2>3. CASE CancelPool \/ ClosePool \/ CloseListed
    BY <2>3 DEF CancelPool, ClosePool, CloseListed, OpenIsListed
  <2>4. QED
    BY <1>3, <2>1, <2>2, <2>3 DEF ClientStep
<1>4. CASE PrebuildAny
  <2>1. ASSUME NEW c \in Circuits \cup {NoCircuit}, PrebuildStart(c)
        PROVE  OpenIsListed'
    BY <1>1, <2>1 DEF PrebuildStart, StartBuild
  <2>2. CASE PrebuildSucceeds
    BY <1>1, <2>2 DEF PrebuildSucceeds, BuildSucceeds, PoolInv, Typed
  <2>3. CASE PrebuildFails
    BY <1>1, <2>3 DEF PrebuildFails, BuildFails
  <2>4. CASE CountPooled \/ PrebuildCancelled \/ PrebuildPut \/ PrebuildExit
    BY <1>1, <2>4 DEF CountPooled, PrebuildCancelled, PrebuildPut, PrebuildExit
  <2>5. QED
    BY <1>4, <2>1, <2>2, <2>3, <2>4 DEF PrebuildAny, PrebuildStep
<1>5. ASSUME NEW u \in Users, GetBuilt(u)
      PROVE  OpenIsListed'
  BY <1>1, <1>5 DEF GetBuilt, BuildSucceeds, PoolInv, Typed
<1>6. ASSUME NEW u \in Users, GetFails(u)
      PROVE  OpenIsListed'
  BY <1>1, <1>6 DEF GetFails, BuildFails
<1>7. ASSUME NEW u \in Users, NEW c \in Circuits \cup {NoCircuit}, GetStartsBuild(u, c)
      PROVE  OpenIsListed'
  BY <1>1, <1>7 DEF GetStartsBuild, StartBuild
<1>8. CASE \/ \E u \in Users, r \in Requests, resolves \in BOOLEAN : Accept(u, r, resolves)
           \/ \E u \in Users : GetCircuit(u) \/ GetPooled(u) \/ GetListed(u) \/ Release(u)
  BY <1>1, <1>8 DEF Accept, GetCircuit, GetPooled, GetListed, Release
<1>9. QED
  BY <1>2, <1>3, <1>4, <1>5, <1>6, <1>7, <1>8 DEF Next, ClientStep, PrebuildAny, PrebuildStep

(* Until Stop, an OPEN circuit is in the client's list, where the          *)
(* maintenance loop will find it when it is old, also when no user and no  *)
(* pool has it any more (client.go:421-425, circuit_pool.go:164).          *)
THEOREM OpenCircuitsListed == Spec => []OpenIsListed
<1>1. Init => OpenIsListed
  BY DEF Init, OpenIsListed
<1>2. QED
  BY <1>1, OpenIsListedStep, PoolInitInv, PoolNextInv, PTL DEF Spec
-----------------------------------------------------------------------------
(***************************************************************************)
(* The pool lends circuits out: it implements CircuitLeases.               *)
(***************************************************************************)

(* What was lent was open when it was, and still is, or has been closed.   *)
LentFinished == \A c \in lent : Finished(c)

(* Where Place says that a circuit is.                                     *)
FreeOf(c) == c \notin lent /\ ~Held(c)
PlacesKnown ==
  \A c \in Circuits :
    /\ c \in lent => Place(c) = "shared"
    /\ \A u \in Users : c \notin lent /\ circ[u] = c => Place(c) = u
    /\ FreeOf(c) /\ preCirc = c => Place(c) = "loop"
    /\ FreeOf(c) /\ preCirc # c /\ Pooled(c) => Place(c) = "pool"
    /\ FreeOf(c) /\ preCirc # c /\ ~Pooled(c) =>
         Place(c) = IF state[c] = "unmade" THEN "unmade" ELSE "dropped"

LeaseInv == PoolInv /\ PlaceInv /\ LentFinished /\ PlacesKnown

(* As a circuit has one holder, Place names it.                            *)
LEMMA PlacesAreKnown == PlaceInv => PlacesKnown
<1> SUFFICES ASSUME PlaceInv, NEW c \in Circuits
             PROVE  /\ c \in lent => Place(c) = "shared"
                    /\ \A u \in Users : c \notin lent /\ circ[u] = c => Place(c) = u
                    /\ FreeOf(c) /\ preCirc = c => Place(c) = "loop"
                    /\ FreeOf(c) /\ preCirc # c /\ Pooled(c) => Place(c) = "pool"
                    /\ FreeOf(c) /\ preCirc # c /\ ~Pooled(c) =>
                         Place(c) = IF state[c] = "unmade" THEN "unmade" ELSE "dropped"
  BY DEF PlacesKnown
<1>1. c # NoCircuit
  BY PoolCircuitsAssumption DEF PoolCircuitsAssumption
<1>2. ASSUME NEW u \in Users, c \notin lent, circ[u] = c
      PROVE  Place(c) = u
  <2>1. \A v \in Users : circ[v] = c => v = u
    BY <1>1, <1>2 DEF PlaceInv, OneHolder
  <2>2. (CHOOSE v \in Users : circ[v] = c) = u
    BY <1>2, <2>1
  <2>3. Held(c)
    BY <1>2 DEF Held
  <2>4. QED
    BY <1>2, <2>2, <2>3 DEF Place
<1>3. QED
  BY <1>2 DEF Place, FreeOf

(* Nobody but the pool does anything with c.                               *)
Untouched(c) ==
  /\ (c \in lent') <=> (c \in lent)
  /\ \A u \in Users : (circ'[u] = c) <=> (circ[u] = c)
  /\ (preCirc' = c) <=> (preCirc = c)
  /\ (state'[c] = "unmade") <=> (state[c] = "unmade")

(* Then it is where it was, if it is pooled as it was or had a holder.     *)
LEMMA StaysThere ==
  ASSUME PlacesKnown, PlacesKnown', NEW c \in Circuits,
         Untouched(c),
         FreeOf(c) /\ preCirc # c => (Pooled(c)' <=> Pooled(c))
  PROVE  Place(c)' = Place(c)
<1> USE DEF Untouched
<1>1. Held(c)' <=> Held(c)
  BY DEF Held
<1>2. CASE c \in lent
  BY <1>2 DEF PlacesKnown
<1>3. CASE c \notin lent /\ Held(c)
  <2>1. PICK u \in Users : circ[u] = c
    BY <1>3 DEF Held
  <2>2. QED
    BY <1>3, <2>1 DEF PlacesKnown
<1>4. CASE FreeOf(c)
  <2>1. FreeOf(c)'
    BY <1>1, <1>4 DEF FreeOf
  <2>2. QED
    BY <1>4, <2>1 DEF PlacesKnown
<1>5. QED
  BY <1>2, <1>3, <1>4 DEF FreeOf

(* A place other than those of the loop and the pool is no user's, and a   *)
(* user's, the loop's and the pool's are told apart.                       *)
LEMMA PlaceMeans ==
  ASSUME PlacesKnown, NEW c \in Circuits
  PROVE  /\ \A u \in Users : Place(c) = u => circ[u] = c /\ c \notin lent
         /\ Place(c) = "loop" => preCirc = c /\ FreeOf(c)
         /\ Place(c) = "pool" => Pooled(c) /\ preCirc # c /\ FreeOf(c)
         /\ Place(c) = "shared" => c \in lent
<1>1. \A u \in Users : u \notin {"unmade", "pool", "loop", "dropped", "shared"}
  BY PlacesAssumption DEF PlacesAssumption
<1>2. CASE c \in lent
  BY <1>1, <1>2 DEF PlacesKnown
<1>3. CASE c \notin lent /\ Held(c)
  <2>1. PICK u \in Users : circ[u] = c
    BY <1>3 DEF Held
  <2>2. Place(c) = u
    BY <1>3, <2>1 DEF PlacesKnown
  <2>3. QED
    BY <1>1, <1>3, <2>1, <2>2
<1>4. CASE FreeOf(c)
  <2>1. \/ Place(c) = "loop" /\ preCirc = c
        \/ Place(c) = "pool" /\ preCirc # c /\ Pooled(c)
        \/ Place(c) \in {"unmade", "dropped"}
    BY <1>4 DEF PlacesKnown
  <2>2. QED
    BY <1>1, <1>4, <2>1
<1>5. QED
  BY <1>2, <1>3, <1>4 DEF FreeOf

(* A circuit that only the pool may have let go is where it was, or has    *)
(* been dropped.                                                           *)
LEMMA MayLeavePool ==
  ASSUME PoolInv, PlacesKnown, PlacesKnown', NEW c \in Circuits,
         Untouched(c),
         Pooled(c)' => Pooled(c)
  PROVE  Place(c)' = IF Place(c) = "pool" /\ ~Pooled(c)' THEN "dropped" ELSE Place(c)
<1>1. CASE Place(c) = "pool" /\ ~Pooled(c)'
  <2>1. FreeOf(c) /\ preCirc # c /\ Pooled(c)
    BY <1>1, PlaceMeans
  <2>2. FreeOf(c)' /\ preCirc' # c
    BY <2>1 DEF FreeOf, Held, Untouched
  <2>3. state[c] # "unmade"
    BY <2>1 DEF Pooled, PoolInv, OthersFinished, Finished
  <2>4. Place(c)' = "dropped"
    BY <1>1, <2>2, <2>3 DEF PlacesKnown, Untouched
  <2>5. QED
    BY <1>1, <2>4
<1>2. CASE Place(c) = "pool" /\ Pooled(c)'
  BY <1>2, StaysThere
<1>3. CASE Place(c) # "pool"
  <2>1. FreeOf(c) /\ preCirc # c => ~Pooled(c)
    BY <1>3 DEF PlacesKnown
  <2>2. Place(c)' = Place(c)
    BY <2>1, StaysThere
  <2>3. QED
    BY <1>3, <2>2
<1>4. QED
  BY <1>1, <1>2, <1>3

(* One circuit goes to p, and the pool drops others.                       *)
LEMMA OneMoves ==
  ASSUME NEW c \in Circuits, NEW p, NEW D \in SUBSET Circuits, Place(c)' = p,
         \A x \in Circuits \ {c} : Place(x)' = IF x \in D THEN "dropped" ELSE Place(x)
  PROVE  places' = Leases!Moved(c, p, D)
BY DEF places, Leases!Moved

(* No circuit moves when nobody takes, makes or leaves one.                *)
LEMMA NoneMoves ==
  ASSUME PlacesKnown, PlacesKnown', UNCHANGED <<lent, circ, preCirc, pool>>,
         \A c \in Circuits : (state'[c] = "unmade") <=> (state[c] = "unmade")
  PROVE  UNCHANGED places
<1>1. \A c \in Circuits : Pooled(c)' <=> Pooled(c)
  BY DEF Pooled
<1>2. \A c \in Circuits : Untouched(c)
  BY DEF Untouched
<1>3. \A c \in Circuits : Place(c)' = Place(c)
  BY <1>1, <1>2, StaysThere
<1>4. QED
  BY <1>3 DEF places

(* A user that has no circuit has none in CircuitLeases either, and nor    *)
(* has the loop.                                                           *)
LEMMA EmptyHands ==
  ASSUME PlacesKnown
  PROVE  /\ \A u \in Users : circ[u] = NoCircuit => Leases!At(u) = {}
         /\ preCirc = NoCircuit => Leases!At("loop") = {}
<1>1. NoCircuit \notin Circuits
  BY PoolCircuitsAssumption DEF PoolCircuitsAssumption
<1>2. \A c \in Circuits : /\ \A u \in Users : Place(c) = u => circ[u] = c
                          /\ Place(c) = "loop" => preCirc = c
  BY PlaceMeans
<1>3. QED
  BY <1>1, <1>2 DEF Leases!At, places

(* What the pool does not keep in a step.                                  *)
Forgotten == {x \in Circuits : Place(x) = "pool" /\ ~Pooled(x)'}

(* A user that gets a pooled circuit takes it; if GetCircuit lent that one *)
(* before it came back, the pool only drops those it found closed.         *)
LEMMA PooledLease ==
  ASSUME LeaseInv, PlacesKnown', NEW u \in Users, GetPooled(u)
  PROVE  Leases!Next
<1> USE DEF LeaseInv
<1> DEFINE k == Key(want[u])
           q == pool[k]
<1>1. k \in AllKeys /\ q \in Seq(Circuits) /\ pool \in [AllKeys -> Seq(Circuits)]
  BY DEF PoolInv, Typed, AllKeys
<1>2. PICK i \in OpenAt(q) :
        /\ \A j \in OpenAt(q) : i <= j
        /\ pool' = [pool EXCEPT ![k] = SubSeq(q, i + 1, Len(q))]
        /\ Hold(u, q[i])
  BY DEF GetPooled
<1> DEFINE t == SubSeq(q, i + 1, Len(q))
<1>0. PICK c : c = q[i]
  OBVIOUS
<1>d. PICK D : D = Forgotten \ {c}
  OBVIOUS
<1>3. /\ UNCHANGED <<state, lent, preCirc>> /\ circ[u] = NoCircuit
      /\ circ' = [circ EXCEPT ![u] = c]
  BY <1>0, <1>2 DEF GetPooled, preVars, Hold, PlaceInv, HasWhenUsed
<1>4. i \in DOMAIN q /\ c \in Circuits /\ state[c] = "OPEN" /\ c # NoCircuit
  BY <1>0, <1>1, <1>2, PoolCircuitsAssumption DEF OpenAt, PoolCircuitsAssumption
<1>5. circ'[u] = c /\ \A v \in Users \ {u} : circ'[v] = circ[v]
  BY <1>3 DEF PoolInv, Typed
<1>6. pool'[k] = t /\ \A m \in AllKeys \ {k} : pool'[m] = pool[m]
  BY <1>1, <1>2
<1>7. \A x : InSeq(x, t) => InSeq(x, q)
  BY <1>1, <1>4, InTail
<1>8. \A x : Pooled(x)' => Pooled(x)
  BY <1>1, <1>6, <1>7 DEF Pooled
<1>9. ASSUME NEW j \in DOMAIN q, i < j
      PROVE  InSeq(q[j], t)
  <2> HIDE DEF k, q
  <2>1. i \in 1 .. Len(q) /\ j \in 1 .. Len(q) /\ Len(q) \in Nat
    BY <1>1, <1>4
  <2>2. Len(t) = Len(q) - i /\ t \in Seq(Circuits)
        /\ \A l \in DOMAIN t : l \in Nat \ {0} /\ i + l \in DOMAIN q /\ t[l] = q[i + l]
    BY <1>1, <2>1, TailPlaces
  <2> HIDE DEF t
  <2>3. DOMAIN t = 1 .. Len(t)
    BY <2>2
  <2>4. j - i \in DOMAIN t /\ i + (j - i) = j
    BY <1>9, <2>1, <2>2, <2>3
  <2>5. QED
    BY <2>2, <2>4 DEF InSeq
<1> HIDE DEF t
<1>10. ASSUME NEW x \in Circuits, x # c, Pooled(x), ~Pooled(x)'
       PROVE  state[x] # "OPEN"
  <2>1. InSeq(x, q) /\ ~InSeq(x, t)
    BY <1>1, <1>6, <1>10 DEF Pooled
  <2>2. PICK j \in DOMAIN q : q[j] = x
    BY <2>1 DEF InSeq
  <2>3. i \in Int /\ j \in Int
    BY <1>1, <1>4
  <2>4. j < i
    BY <1>0, <1>9, <1>10, <2>1, <2>2, <2>3
  <2>5. j \notin OpenAt(q)
    BY <1>2, <2>3, <2>4
  <2>6. QED
    BY <2>2, <2>5 DEF OpenAt
<1>11. Pooled(c)
  BY <1>0, <1>1, <1>4 DEF Pooled, InSeq
<1> HIDE DEF k, q
<1>12. \A x \in Circuits \ {c} :
         Place(x)' = IF x \in D THEN "dropped" ELSE Place(x)
  <2> SUFFICES ASSUME NEW x \in Circuits, x # c
               PROVE  Place(x)' = IF x \in D THEN "dropped" ELSE Place(x)
    OBVIOUS
  <2>1. Untouched(x)
    BY <1>3, <1>5, PoolCircuitsAssumption DEF PoolCircuitsAssumption, Untouched
  <2>2. Place(x)' = IF Place(x) = "pool" /\ ~Pooled(x)' THEN "dropped" ELSE Place(x)
    BY <1>8, <2>1, MayLeavePool
  <2>3. QED
    BY <1>d, <2>2 DEF Forgotten
<1>13. D \in SUBSET Circuits /\ D \subseteq Leases!At("pool") \ opened
  <2>1. \A x \in Circuits : Place(x) = "pool" => Pooled(x)
    BY PlaceMeans
  <2>2. QED
    BY <1>d, <1>10, <2>1 DEF Forgotten, Leases!At, places, opened
<1>14. UNCHANGED opened
  BY <1>3 DEF opened
<1>15. CASE c \in lent
  <2>1. Place(c) = "shared" /\ Place(c)' = "shared" /\ c \notin D
    BY <1>d, <1>3, <1>4, <1>15 DEF PlacesKnown
  <2>2. places' = [x \in Circuits |-> IF x \in D THEN "dropped" ELSE places[x]]
    BY <1>12, <2>1 DEF places
  <2>3. Leases!Discard(D)
    BY <1>13, <1>14, <2>2 DEF Leases!Discard
  <2>4. QED
    BY <1>13, <2>3 DEF Leases!Next
<1>16. CASE c \notin lent
  <2>1. Place(c)' = u
    BY <1>3, <1>4, <1>5, <1>16 DEF PlacesKnown
  <2>2. FreeOf(c) /\ preCirc # c
    BY <1>4, <1>11, <1>16 DEF PlaceInv, NowhereElse, FreeOf, Held, Pooled
  <2>3. Place(c) = "pool"
    BY <1>4, <1>11, <2>2 DEF PlacesKnown
  <2>4. c \in Leases!At("pool") \cap opened
    BY <1>4, <2>3 DEF Leases!At, places, opened
  <2>5. places' = Leases!Moved(c, u, D)
    BY <1>4, <1>12, <1>13, <2>1, OneMoves
  <2>6. Leases!At(u) = {}
    BY <1>3, EmptyHands
  <2>7. Leases!Take(u, c, D)
    BY <1>13, <1>14, <2>4, <2>5, <2>6 DEF Leases!Take
  <2>8. QED
    BY <1>4, <1>13, <2>7 DEF Leases!Next
<1>17. QED
  BY <1>15, <1>16

(* A circuit that is being built was unmade.                               *)
LEMMA StartPlace ==
  ASSUME LeaseInv, NEW c \in Circuits \cup {NoCircuit}, StartBuild(c)
  PROVE  /\ c # NoCircuit => c \in Circuits /\ c \notin lent /\ c \in Leases!At("unmade")
         /\ \A x \in Circuits : x # c => state'[x] = state[x]
         /\ UNCHANGED opened
<1> USE DEF LeaseInv
<1>1. /\ c # NoCircuit => c \in Circuits /\ state[c] = "unmade"
      /\ state' = [x \in Circuits |-> IF x = c THEN "BUILDING" ELSE state[x]]
  BY PoolCircuitsAssumption DEF PoolCircuitsAssumption, StartBuild, Unmade
<1>2. ASSUME c # NoCircuit
      PROVE  c \notin lent /\ c \in Leases!At("unmade")
  <2>1. c \notin lent
    BY <1>1, <1>2 DEF LentFinished, Finished
  <2>2. /\ \A u \in Users : circ[u] # c
        /\ preCirc # c
        /\ \A k \in AllKeys : ~InSeq(c, pool[k])
    BY <1>1, <1>2, UnmadeNowhere
  <2>3. FreeOf(c) /\ preCirc # c /\ ~Pooled(c)
    BY <2>1, <2>2 DEF FreeOf, Held, Pooled
  <2>4. Place(c) = "unmade"
    BY <1>1, <1>2, <2>3 DEF PlacesKnown
  <2>5. QED
    BY <1>1, <1>2, <2>1, <2>4 DEF Leases!At, places
<1>3. opened' = opened
  <2>1. \A x \in Circuits : (state'[x] = "OPEN") <=> (state[x] = "OPEN")
    BY <1>1, PoolCircuitsAssumption DEF PoolCircuitsAssumption
  <2>2. QED
    BY <2>1 DEF opened
<1>4. QED
  BY <1>1, <1>2, <1>3

(* A build that starts in hands that were empty, the user's or the loop's, *)
(* makes a circuit; when there is none to make, the pool at most drops     *)
(* some.                                                                   *)
LEMMA StartLease ==
  ASSUME LeaseInv, PlacesKnown', NEW c \in Circuits \cup {NoCircuit}, StartBuild(c),
         NEW h \in Leases!Hands, Leases!At(h) = {},
         c # NoCircuit => Place(c)' = h,
         \A x \in Circuits \ {c} : Untouched(x),
         \A x \in Circuits : /\ Pooled(x)' => Pooled(x)
                             /\ Pooled(x) /\ ~Pooled(x)' => state[x] # "OPEN"
  PROVE  Leases!Next
<1> USE DEF LeaseInv
<1>1. PICK D : D = Forgotten \ {c}
  OBVIOUS
<1>2. \A x \in Circuits \ {c} : Place(x)' = IF x \in D THEN "dropped" ELSE Place(x)
  BY <1>1, MayLeavePool DEF Forgotten
<1>3. D \in SUBSET Circuits /\ D \subseteq Leases!At("pool") \ opened
  <2>1. \A x \in Circuits : Place(x) = "pool" => Pooled(x)
    BY PlaceMeans
  <2>2. QED
    BY <1>1, <2>1 DEF Forgotten, Leases!At, places, opened
<1>4. UNCHANGED opened
  BY StartPlace
<1>5. CASE c = NoCircuit
  <2>1. \A x \in Circuits : Place(x)' = IF x \in D THEN "dropped" ELSE Place(x)
    BY <1>2, <1>5, PoolCircuitsAssumption DEF PoolCircuitsAssumption
  <2>2. places' = [x \in Circuits |-> IF x \in D THEN "dropped" ELSE places[x]]
    BY <2>1 DEF places
  <2>3. Leases!Discard(D)
    BY <1>3, <1>4, <2>2 DEF Leases!Discard
  <2>4. QED
    BY <1>3, <2>3 DEF Leases!Next
<1>6. CASE c # NoCircuit
  <2>1. c \in Circuits /\ c \in Leases!At("unmade")
    BY <1>6, StartPlace
  <2>2. places' = Leases!Moved(c, h, D)
    BY <1>2, <1>3, <1>6, <2>1, OneMoves
  <2>3. Leases!Make(h, c, D)
    BY <1>3, <1>4, <2>1, <2>2 DEF Leases!Make
  <2>4. QED
    BY <1>3, <2>1, <2>3 DEF Leases!Next
<1>7. QED
  BY <1>5, <1>6

(* A user that starts a build is about to have the circuit; the queue that *)
(* had no open circuit is emptied.                                         *)
LEMMA StartsBuildLease ==
  ASSUME LeaseInv, PlacesKnown', NEW u \in Users, NEW c \in Circuits \cup {NoCircuit},
         GetStartsBuild(u, c)
  PROVE  Leases!Next
<1> USE DEF LeaseInv
<1> DEFINE k == Key(want[u])
<1>1. /\ pool' = [pool EXCEPT ![k] = << >>] /\ OpenAt(pool[k]) = {} /\ StartBuild(c)
      /\ circ' = [circ EXCEPT ![u] = c] /\ circ[u] = NoCircuit
      /\ UNCHANGED <<lent, preCirc>>
  BY DEF GetStartsBuild, preVars, PlaceInv, HasWhenUsed
<1>2. /\ c # NoCircuit => c \in Circuits /\ c \notin lent
      /\ \A x \in Circuits : x # c => state'[x] = state[x]
  BY <1>1, StartPlace
<1>3. circ'[u] = c /\ \A v \in Users \ {u} : circ'[v] = circ[v]
  BY <1>1 DEF PoolInv, Typed
<1>4. k \in AllKeys /\ pool'[k] = << >> /\ \A m \in AllKeys \ {k} : pool'[m] = pool[m]
  BY <1>1 DEF PoolInv, Typed, AllKeys
<1>5. ASSUME NEW x \in Circuits
      PROVE  /\ Pooled(x)' => Pooled(x)
             /\ Pooled(x) /\ ~Pooled(x)' => state[x] # "OPEN"
  <2>1. ~InSeq(x, << >>)
    BY DEF InSeq
  <2>2. InSeq(x, pool[k]) => state[x] # "OPEN"
    BY <1>1 DEF InSeq, OpenAt
  <2> HIDE DEF k
  <2>3. QED
    BY <1>4, <2>1, <2>2 DEF Pooled
<1>6. \A x \in Circuits \ {c} : Untouched(x)
  BY <1>1, <1>2, <1>3, PoolCircuitsAssumption DEF PoolCircuitsAssumption, Untouched
<1>7. c # NoCircuit => Place(c)' = u
  BY <1>1, <1>2, <1>3 DEF PlacesKnown
<1>8. u \in Leases!Hands /\ Leases!At(u) = {}
  BY <1>1, EmptyHands DEF Leases!Hands
<1>9. QED
  BY <1>1, <1>5, <1>6, <1>7, <1>8, StartLease

(* So does the loop, which leaves the pool as it is.                       *)
LEMMA PrebuildStartLease ==
  ASSUME LeaseInv, PlacesKnown', NEW c \in Circuits \cup {NoCircuit}, PrebuildStart(c)
  PROVE  Leases!Next
<1> USE DEF LeaseInv
<1>1. /\ StartBuild(c) /\ preCirc = NoCircuit /\ preCirc' = c
      /\ UNCHANGED <<pool, lent, circ>>
  BY DEF PrebuildStart, userVars, PlaceInv, HasWhenUsed
<1>2. /\ c # NoCircuit => c \in Circuits /\ c \notin lent /\ state[c] = "unmade"
      /\ \A x \in Circuits : x # c => state'[x] = state[x]
  BY <1>1, StartPlace DEF StartBuild, Unmade
<1>3. \A x : Pooled(x)' <=> Pooled(x)
  BY <1>1 DEF Pooled
<1>4. \A x \in Circuits \ {c} : Untouched(x)
  BY <1>1, <1>2, PoolCircuitsAssumption DEF PoolCircuitsAssumption, Untouched
<1>5. c # NoCircuit => Place(c)' = "loop"
  <2>1. c # NoCircuit => \A u \in Users : circ[u] # c
    BY <1>2, UnmadeNowhere
  <2>2. c # NoCircuit => FreeOf(c)'
    BY <1>1, <1>2, <2>1 DEF FreeOf, Held
  <2>3. QED
    BY <1>1, <1>2, <2>2 DEF PlacesKnown
<1>6. "loop" \in Leases!Hands /\ Leases!At("loop") = {}
  BY <1>1, EmptyHands DEF Leases!Hands
<1>7. QED
  BY <1>1, <1>3, <1>4, <1>5, <1>6, StartLease

(* Who has a circuit in his hands has a lease on it, unless it was lent    *)
(* past the pool.                                                          *)
LEMMA InHands ==
  ASSUME LeaseInv, NEW c \in Circuits, c \notin lent
  PROVE  /\ \A u \in Users : circ[u] = c => c \in Leases!At(u) /\ u \in Leases!Hands
         /\ preCirc = c => c \in Leases!At("loop") /\ "loop" \in Leases!Hands
<1> USE DEF LeaseInv
<1>1. \A u \in Users : circ[u] = c => Place(c) = u
  BY DEF PlacesKnown
<1>2. preCirc = c => \A u \in Users : circ[u] # c
  BY PoolCircuitsAssumption DEF PoolCircuitsAssumption, PlaceInv, NowhereElse
<1>3. preCirc = c => Place(c) = "loop"
  BY <1>2 DEF PlacesKnown, FreeOf, Held
<1>4. QED
  BY <1>1, <1>3 DEF Leases!At, Leases!Hands, places

(* What is being built is in the hands of its builder, and not open.       *)
LEMMA BuilderHas ==
  ASSUME LeaseInv, NEW c \in Circuits, state[c] = "BUILDING", NEW h,
         \/ h \in Users /\ circ[h] = c
         \/ h = "loop" /\ preCirc = c
  PROVE  h \in Leases!Hands /\ c \in Leases!At(h) \ opened /\ c \notin lent
<1>1. c \notin lent
  BY DEF LeaseInv, LentFinished, Finished
<1>2. QED
  BY <1>1, InHands DEF opened

(* A build that succeeds opens the circuit where it is.                    *)
LEMMA SucceedsLease ==
  ASSUME LeaseInv, PlacesKnown',
         (\E u \in Users : GetBuilt(u)) \/ PrebuildSucceeds
  PROVE  Leases!Next
<1> USE DEF LeaseInv
<1>1. PICK h, c : /\ \/ h \in Users /\ circ[h] = c
                     \/ h = "loop" /\ preCirc = c
                  /\ c \in Circuits /\ state[c] = "BUILDING"
                  /\ state' = [state EXCEPT ![c] = "OPEN"]
                  /\ UNCHANGED <<pool, lent, circ, preCirc>>
  <2>1. ASSUME NEW u \in Users, GetBuilt(u)
        PROVE  /\ circ[u] \in Circuits /\ state[circ[u]] = "BUILDING"
               /\ state' = [state EXCEPT ![circ[u]] = "OPEN"]
               /\ UNCHANGED <<pool, lent, circ, preCirc>>
    BY <2>1 DEF GetBuilt, BuildSucceeds, Hold, preVars, PoolInv, Typed, BuildersApart
  <2>2. ASSUME PrebuildSucceeds
        PROVE  /\ preCirc \in Circuits /\ state[preCirc] = "BUILDING"
               /\ state' = [state EXCEPT ![preCirc] = "OPEN"]
               /\ UNCHANGED <<pool, lent, circ, preCirc>>
    BY <2>2 DEF PrebuildSucceeds, BuildSucceeds, userVars, PoolInv, Typed, BuildersApart
  <2>3. QED
    BY <2>1, <2>2
<1>2. h \in Leases!Hands /\ c \in Leases!At(h) \ opened
  BY <1>1, BuilderHas
<1>3. state'[c] = "OPEN" /\ \A x \in Circuits \ {c} : state'[x] = state[x]
  BY <1>1 DEF PoolInv, Typed
<1>4. UNCHANGED places
  BY <1>1, <1>3, NoneMoves
<1>5. opened' = opened \cup {c}
  BY <1>1, <1>3 DEF opened
<1>6. Leases!Finish(h, c)
  BY <1>2, <1>4, <1>5 DEF Leases!Finish
<1>7. QED
  BY <1>1, <1>2, <1>6 DEF Leases!Next

(* A build that fails gives the circuit up, if there was one.              *)
LEMMA FailsLease ==
  ASSUME LeaseInv, PlacesKnown',
         (\E u \in Users : GetFails(u)) \/ PrebuildFails
  PROVE  Leases!Next \/ UNCHANGED <<places, opened>>
<1> USE DEF LeaseInv
<1>1. PICK h, c :
        /\ \/ /\ h \in Users /\ circ[h] = c /\ UNCHANGED preCirc
              /\ circ'[h] = NoCircuit /\ \A v \in Users \ {h} : circ'[v] = circ[v]
           \/ h = "loop" /\ preCirc = c /\ preCirc' = NoCircuit /\ UNCHANGED circ
        /\ c \in Circuits \cup {NoCircuit} /\ (c # NoCircuit => state[c] = "BUILDING")
        /\ state' = [x \in Circuits |-> IF x = c THEN "unmade" ELSE state[x]]
        /\ UNCHANGED <<pool, lent>>
  <2>1. ASSUME NEW u \in Users, GetFails(u)
        PROVE  /\ circ[u] \in Circuits \cup {NoCircuit}
               /\ circ[u] # NoCircuit => state[circ[u]] = "BUILDING"
               /\ state' = [x \in Circuits |-> IF x = circ[u] THEN "unmade" ELSE state[x]]
               /\ circ' = [circ EXCEPT ![u] = NoCircuit]
               /\ UNCHANGED <<pool, lent, preCirc>>
    BY <2>1 DEF GetFails, BuildFails, Leave, preVars, PoolInv, Typed, BuildersApart
  <2>2. ASSUME PrebuildFails
        PROVE  /\ preCirc \in Circuits \cup {NoCircuit}
               /\ preCirc # NoCircuit => state[preCirc] = "BUILDING"
               /\ state' = [x \in Circuits |-> IF x = preCirc THEN "unmade" ELSE state[x]]
               /\ preCirc' = NoCircuit
               /\ UNCHANGED <<pool, lent, circ>>
    BY <2>2 DEF PrebuildFails, BuildFails, NextPrebuild, userVars, PoolInv, Typed, BuildersApart
  <2>3. ASSUME NEW u \in Users, circ' = [circ EXCEPT ![u] = NoCircuit]
        PROVE  circ'[u] = NoCircuit /\ \A v \in Users \ {u} : circ'[v] = circ[v]
    BY <2>3 DEF PoolInv, Typed
  <2>4. QED
    BY <2>1, <2>2, <2>3
<1>2. \A x : Pooled(x)' <=> Pooled(x)
  BY <1>1 DEF Pooled
<1>3. \A x \in Circuits \ {c} : Untouched(x) /\ state'[x] = state[x]
  BY <1>1, PoolCircuitsAssumption DEF PoolCircuitsAssumption, Untouched
<1>4. \A x \in Circuits \ {c} : Place(x)' = Place(x)
  BY <1>2, <1>3, StaysThere
<1>5. CASE c = NoCircuit
  <2>1. UNCHANGED places
    BY <1>4, <1>5, PoolCircuitsAssumption DEF PoolCircuitsAssumption, places
  <2>2. UNCHANGED opened
    BY <1>3, <1>5, PoolCircuitsAssumption DEF PoolCircuitsAssumption, opened
  <2>3. QED
    BY <2>1, <2>2
<1>6. CASE c # NoCircuit
  <2>1. c \in Circuits /\ state[c] = "BUILDING" /\ state'[c] = "unmade"
    BY <1>1, <1>6
  <2>2. h \in Leases!Hands /\ c \in Leases!At(h) \ opened /\ c \notin lent
    BY <1>1, <2>1, BuilderHas
  <2>3. /\ \A v \in Users : circ'[v] # c
        /\ preCirc' # c
    BY <1>1, <1>6, <2>2 DEF PlaceInv, OneHolder, NowhereElse
  <2>4. ~Pooled(c)
    BY <1>1, <1>6, <2>2 DEF PlaceInv, NowhereElse, Pooled
  <2>5. FreeOf(c)' /\ ~Pooled(c)'
    BY <1>1, <1>2, <2>2, <2>3, <2>4 DEF FreeOf, Held
  <2>6. Place(c)' = "unmade"
    BY <2>1, <2>3, <2>5 DEF PlacesKnown
  <2>7. places' = Leases!Moved(c, "unmade", {})
    BY <1>4, <2>1, <2>6, OneMoves
  <2>8. UNCHANGED opened
    BY <1>3, <2>1 DEF opened
  <2>9. Leases!GiveUp(h, c)
    BY <2>2, <2>7, <2>8 DEF Leases!GiveUp
  <2>10. QED
    BY <2>1, <2>2, <2>9 DEF Leases!Next
<1>7. QED
  BY <1>1, <1>5, <1>6

(* What GetCircuit takes from the client's list is shared from then on.    *)
LEMMA ListedLease ==
  ASSUME LeaseInv, PlacesKnown', NEW u \in Users, GetListed(u)
  PROVE  Leases!Next \/ UNCHANGED <<places, opened>>
<1> USE DEF LeaseInv
<1>1. UNCHANGED <<state, pool, preCirc>> /\ circ[u] = NoCircuit
  BY DEF GetListed, preVars, PlaceInv, HasWhenUsed
<1>2. UNCHANGED opened /\ \A x : Pooled(x)' <=> Pooled(x)
  BY <1>1 DEF opened, Pooled
<1>3. CASE circ' = [circ EXCEPT ![u] = NoCircuit] /\ UNCHANGED lent
  <2>1. circ' = circ
    BY <1>1, <1>3 DEF PoolInv, Typed
  <2>2. UNCHANGED places
    BY <1>1, <1>3, <2>1, NoneMoves
  <2>3. QED
    BY <1>2, <2>2
<1>4. ASSUME NEW c \in Circuits, state[c] = "OPEN",
             circ' = [circ EXCEPT ![u] = c], lent' = lent \cup {c}
      PROVE  Leases!Next
  <2>1. circ'[u] = c /\ \A v \in Users \ {u} : circ'[v] = circ[v]
    BY <1>4 DEF PoolInv, Typed
  <2>2. \A x \in Circuits \ {c} : Untouched(x)
    BY <1>1, <1>4, <2>1, PoolCircuitsAssumption DEF PoolCircuitsAssumption, Untouched
  <2>3. \A x \in Circuits \ {c} : Place(x)' = Place(x)
    BY <1>2, <2>2, StaysThere
  <2>4. Place(c)' = "shared"
    BY <1>4 DEF PlacesKnown
  <2>5. places' = Leases!Moved(c, "shared", {})
    BY <2>3, <2>4, OneMoves
  <2>6. Leases!Share(c)
    BY <1>2, <1>4, <2>5 DEF Leases!Share, opened
  <2>7. QED
    BY <2>6 DEF Leases!Next
<1>5. \/ circ' = [circ EXCEPT ![u] = NoCircuit] /\ UNCHANGED lent
      \/ \E c \in Circuits : /\ state[c] = "OPEN"
                             /\ circ' = [circ EXCEPT ![u] = c] /\ lent' = lent \cup {c}
  BY DEF GetListed, Hold, Leave, PoolInv, Typed
<1>6. QED
  BY <1>3, <1>4, <1>5

(* Put pools its circuit only if that is open, and no other.               *)
LEMMA PutPools ==
  ASSUME PoolInv, NEW c \in Circuits, Put(c)
  PROVE  /\ \A x \in Circuits \ {c} : Pooled(x)' <=> Pooled(x)
         /\ Pooled(c)' => Pooled(c) \/ state[c] = "OPEN"
<1> DEFINE k == Key(key[c])
           q == pool[k]
<1>1. CASE pool' = pool
  BY <1>1 DEF Pooled
<1>2. CASE pool' # pool
  <2>1. /\ state[c] = "OPEN" /\ k \in AllKeys /\ q \in Seq(Circuits)
        /\ pool' = [pool EXCEPT ![k] = Append(q, c)]
    BY <1>2 DEF Put, PoolInv, Typed, AllKeys
  <2>2. pool'[k] = Append(q, c) /\ \A m \in AllKeys \ {k} : pool'[m] = pool[m]
    BY <2>1 DEF PoolInv, Typed
  <2>3. ASSUME NEW x \in Circuits, x # c
        PROVE  InSeq(x, Append(q, c)) <=> InSeq(x, q)
    <3> HIDE DEF q, k
    <3>1. InSeq(x, Append(q, c)) => InSeq(x, q)
      BY <2>1, <2>3, InAppend
    <3>2. InSeq(x, q) => InSeq(x, Append(q, c))
      BY <2>1 DEF InSeq
    <3>3. QED
      BY <3>1, <3>2
  <2> HIDE DEF k
  <2>4. \A x \in Circuits \ {c} : Pooled(x)' <=> Pooled(x)
    BY <2>1, <2>2, <2>3 DEF Pooled
  <2>5. QED
    BY <2>1, <2>4
<1>3. QED
  BY <1>1, <1>2

(* Who had a circuit brings it back: the pool takes it or drops it.        *)
LEMMA ReturnLease ==
  ASSUME LeaseInv, PlacesKnown', NEW c \in Circuits, Finished(c), Put(c),
         UNCHANGED <<state, lent>>,
         NEW h, (h \in Users /\ circ[h] = c) \/ (h = "loop" /\ preCirc = c),
         c \notin lent => preCirc' # c /\ \A v \in Users : circ'[v] # c,
         \A x \in Circuits \ {c} : Untouched(x)
  PROVE  Leases!Next \/ UNCHANGED <<places, opened>>
<1> USE DEF LeaseInv
<1>1. \A x \in Circuits \ {c} : Place(x)' = Place(x)
  BY PutPools, StaysThere
<1>2. UNCHANGED opened
  BY DEF opened
<1>3. CASE c \in lent
  <2>1. Place(c)' = Place(c)
    BY <1>3 DEF PlacesKnown
  <2>2. UNCHANGED places
    BY <1>1, <2>1 DEF places
  <2>3. QED
    BY <1>2, <2>2
<1>4. CASE c \notin lent
  <2>1. h \in Leases!Hands /\ c \in Leases!At(h)
    BY <1>4, InHands
  <2>2. FreeOf(c)' /\ preCirc' # c
    BY <1>4 DEF FreeOf, Held
  <2>3. ~Pooled(c)
    BY <1>4, PoolCircuitsAssumption DEF PoolCircuitsAssumption, PlaceInv, NowhereElse, Pooled
  <2>4. PICK p : p = IF Pooled(c)' THEN "pool" ELSE "dropped"
    OBVIOUS
  <2>5. Place(c)' = p
    BY <2>2, <2>4 DEF PlacesKnown, Finished
  <2>6. p = "dropped" \/ (p = "pool" /\ c \in opened)
    BY <2>3, <2>4, PutPools DEF opened
  <2>7. places' = Leases!Moved(c, p, {})
    BY <1>1, <2>5, OneMoves
  <2>8. Leases!Return(h, c, p)
    BY <1>2, <2>1, <2>6, <2>7 DEF Leases!Return
  <2>9. QED
    BY <2>1, <2>6, <2>8 DEF Leases!Next
<1>5. QED
  BY <1>3, <1>4

(* A user's handler and the loop both Put what they have.                  *)
LEMMA PutLease ==
  ASSUME LeaseInv, PlacesKnown',
         (\E u \in Users : Release(u)) \/ PrebuildPut
  PROVE  Leases!Next \/ UNCHANGED <<places, opened>>
<1> USE DEF LeaseInv
<1>0. NoCircuit \notin Circuits
  BY PoolCircuitsAssumption DEF PoolCircuitsAssumption
<1>1. ASSUME NEW u \in Users, Release(u)
      PROVE  Leases!Next \/ UNCHANGED <<places, opened>>
  <2>1. PICK c : c = circ[u]
    OBVIOUS
  <2>2. /\ Finished(c) /\ c \in Circuits /\ Put(c)
        /\ UNCHANGED <<state, lent, preCirc>> /\ circ' = [circ EXCEPT ![u] = NoCircuit]
    BY <1>1, <2>1 DEF Release, Leave, preVars, PoolInv, OthersFinished, Finished
  <2>3. circ'[u] = NoCircuit /\ \A v \in Users \ {u} : circ'[v] = circ[v]
    BY <2>2 DEF PoolInv, Typed
  <2>4. c \notin lent => preCirc' # c /\ \A v \in Users : circ'[v] # c
    BY <1>0, <2>1, <2>2, <2>3 DEF PlaceInv, OneHolder, NowhereElse
  <2>5. \A x \in Circuits \ {c} : Untouched(x)
    BY <1>0, <2>1, <2>2, <2>3 DEF Untouched
  <2>6. QED
    BY <2>1, <2>2, <2>4, <2>5, ReturnLease
<1>2. ASSUME PrebuildPut
      PROVE  Leases!Next \/ UNCHANGED <<places, opened>>
  <2>1. PICK c : c = preCirc
    OBVIOUS
  <2>2. /\ Finished(c) /\ c \in Circuits /\ Put(c)
        /\ UNCHANGED <<state, lent, circ>> /\ preCirc' = NoCircuit
    BY <1>2, <2>1 DEF PrebuildPut, NextPrebuild, userVars, PoolInv, OthersFinished, Finished
  <2>3. c \notin lent => preCirc' # c /\ \A v \in Users : circ'[v] # c
    BY <1>0, <2>1, <2>2 DEF PlaceInv, NowhereElse
  <2>4. \A x \in Circuits \ {c} : Untouched(x)
    BY <1>0, <2>1, <2>2 DEF Untouched
  <2>5. QED
    BY <2>1, <2>2, <2>3, <2>4, ReturnLease
<1>3. QED
  BY <1>1, <1>2

(* When nobody takes, makes or leaves a circuit, some are closed at most.  *)
LEMMA ClosingLease ==
  ASSUME LeaseInv, PlacesKnown', UNCHANGED <<pool, lent, circ, preCirc>>,
         \A c \in Circuits : \/ state'[c] = state[c]
                             \/ Finished(c) /\ state'[c] = "CLOSED"
  PROVE  Leases!Next
<1> USE DEF LeaseInv
<1>1. \A c \in Circuits : (state'[c] = "unmade") <=> (state[c] = "unmade")
  BY DEF Finished
<1>2. UNCHANGED places
  BY <1>1, NoneMoves
<1>3. PICK D : D = {c \in opened : state'[c] = "CLOSED"}
  OBVIOUS
<1>4. D \in SUBSET Circuits /\ D \subseteq opened /\ opened' = opened \ D
  BY <1>3 DEF opened
<1>5. Leases!Close(D)
  BY <1>2, <1>4 DEF Leases!Close
<1>6. QED
  BY <1>4, <1>5 DEF Leases!Next

(* Close shuts the pool and every circuit in it.                           *)
LEMMA ShutLease ==
  ASSUME LeaseInv, PlacesKnown', ClosePool
  PROVE  Leases!Next
<1> USE DEF LeaseInv
<1>1. /\ UNCHANGED <<lent, circ, preCirc>>
      /\ \A c \in Circuits : state'[c] = IF Pooled(c) THEN "CLOSED" ELSE state[c]
      /\ \A k \in AllKeys : pool'[k] = << >>
  BY DEF ClosePool, userVars, preVars, Pooled
<1>2. \A c : ~Pooled(c)'
  BY <1>1 DEF Pooled, InSeq
<1>3. \A c \in Circuits : Pooled(c) => Finished(c)
  BY DEF Pooled, PoolInv, OthersFinished
<1>4. \A c \in Circuits : Untouched(c)
  BY <1>1, <1>3 DEF Untouched, Finished
<1>5. \A c \in Circuits : Place(c)' = IF Place(c) = "pool" THEN "dropped" ELSE Place(c)
  BY <1>2, <1>4, MayLeavePool
<1>6. places' = [c \in Circuits |-> IF places[c] = "pool" THEN "dropped" ELSE places[c]]
  BY <1>5 DEF places
<1>7. PICK D : D = {c \in Circuits : Pooled(c) /\ c \in lent}
  OBVIOUS
<1>8. D \in SUBSET Circuits /\ D \subseteq Leases!At("shared")
  BY <1>7 DEF PlacesKnown, Leases!At, places
<1>9. \A c \in Circuits : Pooled(c) <=> Place(c) = "pool" \/ c \in D
  <2> SUFFICES ASSUME NEW c \in Circuits, Pooled(c), c \notin lent
               PROVE  Place(c) = "pool"
    BY <1>7, PlaceMeans
  <2>1. c # NoCircuit
    BY PoolCircuitsAssumption DEF PoolCircuitsAssumption
  <2>2. FreeOf(c) /\ preCirc # c
    BY <2>1 DEF PlaceInv, NowhereElse, FreeOf, Held, Pooled
  <2>3. QED
    BY <2>2 DEF PlacesKnown
<1>10. opened' = opened \ (Leases!At("pool") \cup D)
  <2>1. \A c \in Circuits : c \in opened' <=> c \in opened /\ ~Pooled(c)
    BY <1>1 DEF opened
  <2>2. \A c \in Circuits : c \in Leases!At("pool") <=> Place(c) = "pool"
    BY DEF Leases!At, places
  <2>3. opened \subseteq Circuits /\ opened' \subseteq Circuits
    BY DEF opened
  <2>4. QED
    BY <1>9, <2>1, <2>2, <2>3
<1>11. Leases!Shut(D)
  BY <1>6, <1>8, <1>10 DEF Leases!Shut
<1>12. QED
  BY <1>8, <1>11 DEF Leases!Next

(* A circuit that was lent has been built: no build of it is under way.    *)
LEMMA LentFinishedStep == PoolInv /\ LentFinished /\ [Next]_vars => LentFinished'
<1> SUFFICES ASSUME PoolInv, LentFinished, [Next]_vars PROVE LentFinished'
  OBVIOUS
<1>1. CASE UNCHANGED <<state, lent>>
  BY <1>1 DEF LentFinished, Finished
<1>2. ASSUME UNCHANGED lent, \A c : Finished(c) => Finished(c)'
      PROVE  LentFinished'
  BY <1>2 DEF LentFinished
<1>3. ASSUME NEW u \in Users, GetListed(u)
      PROVE  LentFinished'
  <2>1. UNCHANGED state /\ \A c \in lent' : c \in lent \/ Finished(c)
    BY <1>3 DEF GetListed, Finished, PoolInv, Typed
  <2>2. QED
    BY <2>1 DEF LentFinished, Finished
<1>4. ASSUME NEW c \in Circuits \cup {NoCircuit}, StartBuild(c)
      PROVE  \A x : Finished(x) => Finished(x)'
  BY <1>4, PoolCircuitsAssumption DEF PoolCircuitsAssumption, StartBuild, Unmade, Finished
<1>5. ASSUME NEW c \in Circuits \cup {NoCircuit}, c # NoCircuit => state[c] = "BUILDING",
             BuildSucceeds(c) \/ BuildFails(c)
      PROVE  \A x : Finished(x) => Finished(x)'
  BY <1>5, PoolCircuitsAssumption
     DEF PoolCircuitsAssumption, BuildSucceeds, BuildFails, Finished, PoolInv, Typed
<1>6. ASSUME NEW u \in Users, NEW c \in Circuits \cup {NoCircuit}, GetStartsBuild(u, c)
      PROVE  LentFinished'
  BY <1>2, <1>4, <1>6 DEF GetStartsBuild
<1>7. ASSUME NEW u \in Users, GetBuilt(u) \/ GetFails(u)
      PROVE  LentFinished'
  <2>1. UNCHANGED lent /\ pc[u] = "building" /\ (BuildSucceeds(circ[u]) \/ BuildFails(circ[u]))
    BY <1>7 DEF GetBuilt, GetFails
  <2>2. /\ circ[u] \in Circuits \cup {NoCircuit}
        /\ circ[u] # NoCircuit => state[circ[u]] = "BUILDING"
    BY <2>1 DEF PoolInv, Typed, BuildersApart
  <2>3. QED
    BY <1>2, <1>5, <2>1, <2>2
<1>8. CASE PrebuildAny
  <2>1. ASSUME NEW c \in Circuits \cup {NoCircuit}, PrebuildStart(c)
        PROVE  LentFinished'
    BY <1>2, <1>4, <2>1 DEF PrebuildStart, userVars
  <2>2. ASSUME PrebuildSucceeds \/ PrebuildFails
        PROVE  LentFinished'
    <3>1. UNCHANGED lent /\ pre = "building" /\ (BuildSucceeds(preCirc) \/ BuildFails(preCirc))
      BY <2>2 DEF PrebuildSucceeds, PrebuildFails, userVars
    <3>2. /\ preCirc \in Circuits \cup {NoCircuit}
          /\ preCirc # NoCircuit => state[preCirc] = "BUILDING"
      BY <3>1 DEF PoolInv, Typed, BuildersApart
    <3>3. QED
      BY <1>2, <1>5, <3>1, <3>2
  <2>3. ASSUME CountPooled \/ PrebuildCancelled \/ PrebuildPut \/ PrebuildExit
        PROVE  LentFinished'
    BY <1>1, <2>3 DEF CountPooled, PrebuildCancelled, PrebuildPut, PrebuildExit, userVars
  <2>4. QED
    BY <1>8, <2>1, <2>2, <2>3 DEF PrebuildAny, PrebuildStep
<1>9. CASE ClientStep
  <2>1. UNCHANGED lent /\ \A x \in Circuits : state'[x] \in {state[x], "CLOSED"}
    BY <1>9 DEF ClientStep, CheckCircuits, StartPool, StartFails, StartServes, Stop, CancelPool,
         ClosePool, CloseListed, userVars, PoolInv, Typed
  <2>2. QED
    BY <1>2, <2>1 DEF Finished
<1>10. CASE \/ \E u \in Users, r \in Requests, resolves \in BOOLEAN : Accept(u, r, resolves)
            \/ \E u \in Users : GetCircuit(u) \/ GetPooled(u) \/ Release(u)
  BY <1>1, <1>10 DEF Accept, GetCircuit, GetPooled, Release
<1>11. CASE UNCHANGED vars
  BY <1>1, <1>11 DEF vars, userVars
<1>12. QED
  BY <1>3, <1>6, <1>7, <1>8, <1>9, <1>10, <1>11 DEF Next, ClientStep, PrebuildAny, PrebuildStep

(* Every step of the pool is one of CircuitLeases, or none.                *)
LEMMA LeaseStep ==
  ASSUME LeaseInv, PlacesKnown', NothingPrebuilt, [Next]_vars
  PROVE  [Leases!Next]_<<places, opened>>
<1> USE DEF LeaseInv
<1>1. ASSUME UNCHANGED <<state, pool, lent, circ, preCirc>>
      PROVE  Leases!Next
  BY <1>1, ClosingLease
<1>2. CASE UNCHANGED vars
  BY <1>1, <1>2 DEF vars, userVars, preVars
<1>3. CASE \/ \E u \in Users, r \in Requests, resolves \in BOOLEAN : Accept(u, r, resolves)
           \/ \E u \in Users : GetCircuit(u)
  BY <1>1, <1>3 DEF Accept, GetCircuit, preVars
<1>4. CASE \E u \in Users : GetPooled(u) \/ GetBuilt(u) \/ GetFails(u) \/ GetListed(u) \/ Release(u)
  BY <1>4, PooledLease, SucceedsLease, FailsLease, ListedLease, PutLease
<1>5. CASE \E u \in Users, c \in Circuits \cup {NoCircuit} : GetStartsBuild(u, c)
  BY <1>5, StartsBuildLease
<1>6. CASE PrebuildAny
  <2>1. CASE CountPooled \/ PrebuildExit
    BY <1>1, <2>1 DEF CountPooled, PrebuildExit, userVars
  <2>2. CASE PrebuildCancelled
    <3>1. preCirc = NoCircuit /\ preCirc' = NoCircuit
      BY <2>2 DEF PrebuildCancelled, NextPrebuild, PlaceInv, HasWhenUsed
    <3>2. QED
      BY <1>1, <2>2, <3>1 DEF PrebuildCancelled, userVars
  <2>3. CASE \E c \in Circuits \cup {NoCircuit} : PrebuildStart(c)
    BY <2>3, PrebuildStartLease
  <2>4. CASE PrebuildSucceeds \/ PrebuildFails \/ PrebuildPut
    BY <2>4, SucceedsLease, FailsLease, PutLease
  <2>5. QED
    BY <1>6, <2>1, <2>2, <2>3, <2>4 DEF PrebuildAny, PrebuildStep
<1>7. CASE ClosePool
  BY <1>7, ShutLease
<1>8. CASE StartPool \/ StartFails \/ StartServes \/ Stop \/ CancelPool
  BY <1>1, <1>8 DEF StartPool, StartFails, StartServes, Stop, CancelPool, userVars, preVars
<1>9. CASE CloseListed \/ \E cut \in 0 .. Len(made) : CheckCircuits(cut)
  <2>1. /\ UNCHANGED <<pool, lent, circ, preCirc>>
        /\ \A c \in Circuits : state'[c] = state[c] \/ (c \in listed /\ state'[c] = "CLOSED")
    BY <1>9 DEF CloseListed, CheckCircuits, userVars, preVars
  <2>2. \A c \in listed : Finished(c)
    BY DEF PoolInv, OthersFinished
  <2>3. QED
    BY <2>1, <2>2, ClosingLease
<1>10. QED
  BY <1>2, <1>3, <1>4, <1>5, <1>6, <1>7, <1>8, <1>9 DEF Next, PrebuildAny, PrebuildStep

(* The pool lends circuits out as CircuitLeases says, for any users, keys, *)
(* circuits and sizes and however the client starts, maintains and stops   *)
(* it: a circuit has one holder at a time, gets to it open and from the    *)
(* pool or newly built, comes back from that holder alone, and once it was *)
(* dropped the pool never hands it out again; the pool drops no open       *)
(* circuit but those it refuses when full and those it closes.  Promised   *)
(* is nothing of what GetCircuit's fallback took from the client's list    *)
(* (circuit_pool.go:88-186, 207-232, 270-294, client.go:358-428, 535-560). *)
THEOREM CircuitsAreLeased == Spec => ImplementsLeases
<1>1. Init => Leases!Init
  <2> SUFFICES ASSUME Init PROVE Leases!Init
    OBVIOUS
  <2>1. \A c \in Circuits : FreeOf(c) /\ preCirc # c /\ ~Pooled(c) /\ state[c] = "unmade"
    BY PoolCircuitsAssumption DEF PoolCircuitsAssumption, Init, FreeOf, Held, Pooled, InSeq
  <2>2. \A c \in Circuits : Place(c) = "unmade"
    BY <2>1 DEF Place, FreeOf
  <2>3. QED
    BY <2>1, <2>2 DEF Leases!Init, places, opened
<1>2. Init => LentFinished /\ NothingPrebuilt
  BY DEF Init, NewClient, LentFinished, NothingPrebuilt
<1>3. Spec => [](LeaseInv /\ NothingPrebuilt)
  BY <1>2, PoolInitInv, PoolNextInv, PlaceInitInv, PlaceNextInv, NothingPrebuiltStep,
     LentFinishedStep, PlacesAreKnown, PTL DEF Spec, LeaseInv
<1>4. LeaseInv /\ LeaseInv' /\ NothingPrebuilt /\ [Next]_vars => [Leases!Next]_<<places, opened>>
  BY LeaseStep DEF LeaseInv
<1>5. QED
  BY <1>1, <1>3, <1>4, PTL DEF Spec, ImplementsLeases, Leases!Spec
=============================================================================
