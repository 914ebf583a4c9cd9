---------------------------- MODULE CircuitPool ----------------------------
(***************************************************************************)
(* The circuit pool (pkg/pool/circuit_pool.go) between its users: the      *)
(* SOCKS handlers (pkg/socks/socks.go), the pool's prebuild loop, the      *)
(* client's maintenance loop, its GetCircuit/ReturnCircuit and its Stop    *)
(* (pkg/client/client.go).                                                 *)
(*                                                                         *)
(* Start makes the pool before it serves SOCKS, and may fail on the way.   *)
(* The pool's mutex is held while a circuit is built for a user and not    *)
(* while one is prebuilt.  The maintenance loop and Stop close circuits    *)
(* under the client's own lock, whoever has them.  Every critical section  *)
(* is one action; a build is two, its start and its end.                   *)
(***************************************************************************)
EXTENDS CircuitIsolation, Integers, Sequences, FiniteSets

CONSTANTS
  Users,         (* goroutines that take circuits                          *)
  ApiUsers,      (* those of them that call Client.GetCircuit              *)
  Requests,      (* SOCKS requests                                         *)
  Isolation,     (* socks.Config: the isolation level and its flags        *)
  Circuits,      (* bound: once all are in use every build fails           *)
  NoCircuit,     (* nil                                                    *)
  MinCircuits,   (* minCircuits                                            *)
  MaxCircuits    (* maxCircuits, per key                                   *)

ASSUME UsersAssumption == ApiUsers \subseteq Users
ASSUME IsolationAssumption ==
  /\ Isolation.level \in Levels
  /\ Isolation.isolate \subseteq Fields \ {"session"}
  /\ \A r \in Requests : DOMAIN r = Fields /\ r["session"] = Blank
ASSUME PoolCircuitsAssumption == NoCircuit \notin Circuits
ASSUME SizeAssumption == /\ MinCircuits \in Nat
                         /\ MaxCircuits \in Nat
                         /\ MinCircuits <= MaxCircuits

VARIABLES
  state,      (* Circuit.State, "unmade" before its build                  *)
  key,        (* Circuit.IsolationKey                                      *)
  pool,       (* isolatedCircuits by Key, and circuits under Unisolated    *)
  mu,         (* who holds the pool's mutex through a build, or "free"     *)
  made,       (* the circuits in the order of their CreatedAt              *)
  listed,     (* Client.circuits                                           *)
  pc,         (* where each user is                                        *)
  owner,      (* the request whose traffic a user carries                  *)
  want,       (* the key it asks for                                       *)
  circ,       (* the circuit it builds or holds                            *)
  lent,       (* history: circuits GetCircuit took from the list           *)
  pre,        (* where the prebuild loop is                                *)
  needed,     (* builds left in this round of ensureMinCircuits            *)
  preCirc,    (* the circuit it builds or is about to Put                  *)
  phase       (* how far Start, then Stop has got                          *)

userVars == <<pc, owner, want, circ, lent>>
preVars  == <<pre, needed, preCirc>>
vars == <<state, key, pool, mu, made, listed, userVars, preVars, phase>>

IsolationKeys == {RequestKey(Isolation, r) : r \in Requests} \cup {NoKey}
AllKeys == {Key(k) : k \in IsolationKeys}
Unmade == {c \in Circuits : state[c] = "unmade"}
InSeq(c, s) == \E i \in DOMAIN s : s[i] = c

TypeOK ==
  /\ state \in [Circuits -> {"unmade", "BUILDING", "OPEN", "CLOSED"}]
  /\ key \in [Circuits -> IsolationKeys]
  /\ pool \in [AllKeys -> Seq(Circuits)]
  /\ mu \in Users \cup {"free"}
  /\ made \in Seq(Circuits)
  /\ listed \subseteq Circuits
  /\ pc \in [Users -> {"idle", "accepted", "building", "fallback", "holding"}]
  /\ owner \in [Users -> Requests \cup {NoRequest}]
  /\ want \in [Users -> IsolationKeys]
  /\ circ \in [Users -> Circuits \cup {NoCircuit}]
  /\ lent \subseteq Circuits
  /\ pre \in {"none", "asleep", "looping", "building", "putting", "exited"}
  /\ needed \in 0 .. MinCircuits
  /\ preCirc \in Circuits \cup {NoCircuit}
  /\ phase \in {"new", "prebuilding", "running", "stopping", "cancelled", "poolClosed", "stopped"}

(* The client as New returns it.                                           *)
NewClient == listed = {} /\ pre = "none" /\ phase = "new"

Init ==
  /\ NewClient
  /\ state = [c \in Circuits |-> "unmade"]
  /\ key = [c \in Circuits |-> NoKey]
  /\ pool = [k \in AllKeys |-> << >>]
  /\ mu = "free"
  /\ made = << >>
  /\ pc = [u \in Users |-> "idle"]
  /\ owner = [u \in Users |-> NoRequest]
  /\ want = [u \in Users |-> NoKey]
  /\ circ = [u \in Users |-> NoCircuit]
  /\ lent = {}
  /\ needed = 0 /\ preCirc = NoCircuit

-----------------------------------------------------------------------------
(* buildCircuitForPool: it makes a circuit, and either returns it OPEN,    *)
(* appended to the client's list, or fails.  A circuit whose build failed  *)
(* is seen by nobody here and its object is used again.                    *)

StartBuild(c) ==
  /\ c \in Unmade \/ (Unmade = {} /\ c = NoCircuit)
  /\ state' = [x \in Circuits |-> IF x = c THEN "BUILDING" ELSE state[x]]
  /\ made' = IF c = NoCircuit THEN made ELSE Append(made, c)

BuildSucceeds(c) ==
  /\ c # NoCircuit
  /\ state' = [state EXCEPT ![c] = "OPEN"]
  /\ listed' = listed \cup {c}

BuildFails(c) ==
  /\ state' = [x \in Circuits |-> IF x = c THEN "unmade" ELSE state[x]]
  /\ made' = SelectSeq(made, LAMBDA x : x # c)

-----------------------------------------------------------------------------
(* GetWithIsolation and Put.                                               *)

OpenAt(q) == {i \in DOMAIN q : state[q[i]] = "OPEN"}

(* CONNECT asks for the key of its request; RESOLVE and RESOLVE_PTR for    *)
(* none.                                                                   *)
Accept(u, r, resolves) ==
  /\ pc[u] = "idle" /\ u \notin ApiUsers
  /\ pre # "none" /\ phase \in {"running", "stopping"}
  /\ pc' = [pc EXCEPT ![u] = "accepted"]
  /\ owner' = [owner EXCEPT ![u] = r]
  /\ want' = [want EXCEPT ![u] = IF resolves THEN NoKey ELSE RequestKey(Isolation, r)]
  /\ UNCHANGED <<state, key, pool, mu, made, listed, circ, lent, preVars, phase>>

(* GetCircuit, which looks at the list at once while there is no pool.     *)
GetCircuit(u) ==
  /\ pc[u] = "idle" /\ u \in ApiUsers
  /\ phase \in {"new", "prebuilding", "running", "stopping"}
  /\ pc' = [pc EXCEPT ![u] = IF pre = "none" THEN "fallback" ELSE "accepted"]
  /\ UNCHANGED <<state, key, pool, mu, made, listed, owner, want, circ, lent, preVars, phase>>

(* The user's goroutine ends.                                              *)
Leave(u) ==
  /\ pc' = [pc EXCEPT ![u] = "idle"]
  /\ owner' = [owner EXCEPT ![u] = NoRequest]
  /\ want' = [want EXCEPT ![u] = NoKey]
  /\ circ' = [circ EXCEPT ![u] = NoCircuit]

Hold(u, c) ==
  /\ pc' = [pc EXCEPT ![u] = "holding"]
  /\ circ' = [circ EXCEPT ![u] = c]

(* Mutant: the circuit that is returned stays in the pool.                 *)
GetWithoutRemoving(u) ==
  /\ pc[u] = "accepted"
  /\ mu = "free"
  /\ LET q == pool[Key(want[u])] IN
       \E i \in OpenAt(q) :
         /\ \A j \in OpenAt(q) : i <= j
         /\ pool' = [pool EXCEPT ![Key(want[u])] = SubSeq(q, i, Len(q))]
         /\ Hold(u, q[i])
  /\ UNCHANGED <<state, key, mu, made, listed, owner, want, lent, preVars, phase>>

(* The pool's first OPEN circuit; the ones before it are dropped.          *)
GetPooled(u) ==
  /\ pc[u] = "accepted"
  /\ mu = "free"
  /\ LET q == pool[Key(want[u])] IN
       \E i \in OpenAt(q) :
         /\ \A j \in OpenAt(q) : i <= j
         /\ pool' = [pool EXCEPT ![Key(want[u])] = SubSeq(q, i + 1, Len(q))]
         /\ Hold(u, q[i])
  /\ UNCHANGED <<state, key, mu, made, listed, owner, want, lent, preVars, phase>>

(* None is OPEN: all are dropped and one is built under the mutex.         *)
GetStartsBuild(u, c) ==
  /\ pc[u] = "accepted"
  /\ mu = "free"
  /\ OpenAt(pool[Key(want[u])]) = {}
  /\ pool' = [pool EXCEPT ![Key(want[u])] = << >>]
  /\ mu' = u
  /\ StartBuild(c)
  /\ pc' = [pc EXCEPT ![u] = "building"]
  /\ circ' = [circ EXCEPT ![u] = c]
  /\ UNCHANGED <<key, listed, owner, want, lent, preVars, phase>>

GetBuilt(u) ==
  /\ pc[u] = "building"
  /\ BuildSucceeds(circ[u])
  /\ key' = [key EXCEPT ![circ[u]] = want[u]]
  /\ Hold(u, circ[u])
  /\ mu' = "free"
  /\ UNCHANGED <<pool, made, owner, want, lent, preVars, phase>>

(* Mutant: an error return leaves the mutex locked.                        *)
GetFailsLocked(u) ==
  /\ pc[u] = "building"
  /\ BuildFails(circ[u])
  /\ IF u \in ApiUsers
       THEN /\ pc' = [pc EXCEPT ![u] = "fallback"]
            /\ circ' = [circ EXCEPT ![u] = NoCircuit]
            /\ UNCHANGED <<owner, want>>
       ELSE Leave(u)
  /\ UNCHANGED <<mu, key, pool, listed, lent, preVars, phase>>

GetFails(u) ==
  /\ pc[u] = "building"
  /\ BuildFails(circ[u])
  /\ IF u \in ApiUsers
       THEN /\ pc' = [pc EXCEPT ![u] = "fallback"]
            /\ circ' = [circ EXCEPT ![u] = NoCircuit]
            /\ UNCHANGED <<owner, want>>
       ELSE Leave(u)
  /\ mu' = "free"
  /\ UNCHANGED <<key, pool, listed, lent, preVars, phase>>

(* GetCircuit's second strategy: the youngest OPEN circuit of the list.    *)
GetListed(u) ==
  /\ pc[u] = "fallback"
  /\ LET healthy == {i \in DOMAIN made : made[i] \in listed /\ state[made[i]] = "OPEN"} IN
       IF healthy = {}
         THEN Leave(u) /\ UNCHANGED lent
         ELSE /\ \E i \in healthy :
                   /\ \A j \in healthy : j <= i
                   /\ Hold(u, made[i])
                   /\ lent' = lent \cup {made[i]}
              /\ UNCHANGED <<owner, want>>
  /\ UNCHANGED <<state, key, pool, mu, made, listed, preVars, phase>>

(* Mutant: Put forgets the isolation key.                                  *)
PutWithoutKey(c) ==
  /\ mu = "free"
  /\ pool' = IF state[c] = "OPEN" /\ Len(pool[Unisolated]) < MaxCircuits
               THEN [pool EXCEPT ![Unisolated] = Append(@, c)]
               ELSE pool

Put(c) ==
  /\ mu = "free"
  /\ pool' = IF state[c] = "OPEN" /\ Len(pool[Key(key[c])]) < MaxCircuits
               THEN [pool EXCEPT ![Key(key[c])] = Append(@, c)]
               ELSE pool

Release(u) ==
  /\ pc[u] = "holding"
  /\ Put(circ[u])
  /\ Leave(u)
  /\ UNCHANGED <<state, key, mu, made, listed, lent, preVars, phase>>

-----------------------------------------------------------------------------
(* prebuildLoop and ensureMinCircuits.                                     *)

PoolCancelled == phase \in {"cancelled", "poolClosed", "stopped"}

(* The end of one pass of the building loop.                               *)
NextPrebuild ==
  /\ needed' = needed - 1
  /\ pre' = IF needed = 1 THEN "asleep" ELSE "looping"
  /\ preCirc' = NoCircuit

CountPooled ==
  /\ pre = "asleep"
  /\ mu = "free"
  /\ Len(pool[Unisolated]) < MinCircuits
  /\ needed' = MinCircuits - Len(pool[Unisolated])
  /\ pre' = "looping"
  /\ UNCHANGED <<state, key, pool, mu, made, listed, userVars, preCirc, phase>>

(* Once the pool's context is cancelled a new build fails at once.         *)
PrebuildStart(c) ==
  /\ pre = "looping"
  /\ ~PoolCancelled
  /\ StartBuild(c)
  /\ pre' = "building"
  /\ preCirc' = c
  /\ UNCHANGED <<key, pool, mu, listed, userVars, needed, phase>>

PrebuildCancelled ==
  /\ pre = "looping"
  /\ PoolCancelled
  /\ NextPrebuild
  /\ UNCHANGED <<state, key, pool, mu, made, listed, userVars, phase>>

PrebuildSucceeds ==
  /\ pre = "building"
  /\ BuildSucceeds(preCirc)
  /\ pre' = "putting"
  /\ UNCHANGED <<key, pool, mu, made, userVars, needed, preCirc, phase>>

PrebuildFails ==
  /\ pre = "building"
  /\ BuildFails(preCirc)
  /\ NextPrebuild
  /\ UNCHANGED <<key, pool, mu, listed, userVars, phase>>

PrebuildPut ==
  /\ pre = "putting"
  /\ Put(preCirc)
  /\ NextPrebuild
  /\ UNCHANGED <<state, key, mu, made, listed, userVars, phase>>

PrebuildExit ==
  /\ pre = "asleep"
  /\ PoolCancelled
  /\ pre' = "exited"
  /\ UNCHANGED <<state, key, pool, mu, made, listed, userVars, needed, preCirc, phase>>

-----------------------------------------------------------------------------
(* The client: Start, its maintenance loop and Stop.                       *)

(* The consensus is there: the pool is made, and prebuilds.                *)
StartPool ==
  /\ phase = "new"
  /\ phase' = "prebuilding"
  /\ pre' = "asleep"
  /\ UNCHANGED <<state, key, pool, mu, made, listed, userVars, needed, preCirc>>

StartFails ==
  /\ phase = "new"
  /\ phase' = "running"
  /\ UNCHANGED <<state, key, pool, mu, made, listed, userVars, preVars>>

(* After a second, SOCKS is served, and then the maintenance loop started; *)
(* if the control or the metrics server fails first, Start returns an      *)
(* error, leaves the rest as it is, and the loop never ticks.              *)
StartServes ==
  /\ phase = "prebuilding"
  /\ phase' = "running"
  /\ UNCHANGED <<state, key, pool, mu, made, listed, userVars, preVars>>

(* Mutant: old circuits leave the list without being closed.               *)
ForgetOldCircuits(cut) ==
  /\ pre # "none" /\ phase \in {"running", "stopping"}
  /\ listed' = {c \in listed : state[c] = "OPEN"} \ {made[i] : i \in 1 .. cut}
  /\ UNCHANGED <<state, key, pool, mu, made, userVars, preVars, phase>>

(* checkAndRebuildCircuits: circuits that are no longer OPEN leave the     *)
(* list, and so do the oldest ones, which are closed whoever has them.     *)
CheckCircuits(cut) ==
  /\ pre # "none" /\ phase \in {"running", "stopping"}
  /\ LET open == {c \in listed : state[c] = "OPEN"}
         old == {made[i] : i \in 1 .. cut} \cap open
     IN  /\ state' = [c \in Circuits |-> IF c \in old THEN "CLOSED" ELSE state[c]]
         /\ listed' = open \ old
  /\ UNCHANGED <<key, pool, mu, made, userVars, preVars, phase>>

(* Nobody calls Stop before Start has returned; after an error they do.    *)
Stop ==
  /\ phase = "running"
  /\ phase' = "stopping"
  /\ UNCHANGED <<state, key, pool, mu, made, listed, userVars, preVars>>

(* CircuitPool.Close cancels, waits for the loop, then takes the mutex.    *)
CancelPool ==
  /\ phase = "stopping"
  /\ phase' = IF pre = "none" THEN "poolClosed" ELSE "cancelled"
  /\ UNCHANGED <<state, key, pool, mu, made, listed, userVars, preVars>>

(* Mutant: Close takes the mutex before it waits for the loop, and so      *)
(* keeps it for ever when the loop still has a circuit to Put.             *)
ClosePoolLocked ==
  /\ phase = "cancelled"
  /\ mu = "free"
  /\ IF pre = "putting"
       THEN mu' \in Users /\ UNCHANGED <<state, pool, phase>>
       ELSE /\ state' = [c \in Circuits |->
                  IF \E k \in AllKeys : InSeq(c, pool[k]) THEN "CLOSED" ELSE state[c]]
            /\ pool' = [k \in AllKeys |-> << >>]
            /\ phase' = "poolClosed"
            /\ UNCHANGED mu
  /\ UNCHANGED <<key, made, listed, userVars, preVars>>

ClosePool ==
  /\ phase = "cancelled"
  /\ pre = "exited"
  /\ mu = "free"
  /\ state' = [c \in Circuits |->
                 IF \E k \in AllKeys : InSeq(c, pool[k]) THEN "CLOSED" ELSE state[c]]
  /\ pool' = [k \in AllKeys |-> << >>]
  /\ phase' = "poolClosed"
  /\ UNCHANGED <<key, mu, made, listed, userVars, preVars>>

CloseListed ==
  /\ phase = "poolClosed"
  /\ state' = [c \in Circuits |-> IF c \in listed THEN "CLOSED" ELSE state[c]]
  /\ phase' = "stopped"
  /\ UNCHANGED <<key, pool, mu, made, listed, userVars, preVars>>

-----------------------------------------------------------------------------
Next ==
  \/ \E u \in Users, r \in Requests, resolves \in BOOLEAN : Accept(u, r, resolves)
  \/ \E u \in Users : \/ GetCircuit(u) \/ GetPooled(u) \/ GetBuilt(u) \/ GetFails(u)
                      \/ GetListed(u) \/ Release(u)
  \/ \E u \in Users, c \in Circuits \cup {NoCircuit} : GetStartsBuild(u, c)
  \/ \E c \in Circuits \cup {NoCircuit} : PrebuildStart(c)
  \/ CountPooled \/ PrebuildCancelled \/ PrebuildSucceeds \/ PrebuildFails
  \/ PrebuildPut \/ PrebuildExit
  \/ \E cut \in 0 .. Len(made) : CheckCircuits(cut)
  \/ StartPool \/ StartFails \/ StartServes \/ Stop \/ CancelPool \/ ClosePool \/ CloseListed

Spec == Init /\ [][Next]_vars

Get(u) == GetPooled(u) \/ \E c \in Circuits \cup {NoCircuit} : GetStartsBuild(u, c)
Built(u) == GetBuilt(u) \/ GetFails(u)
PrebuildStep ==
  \/ \E c \in Circuits \cup {NoCircuit} : PrebuildStart(c)
  \/ PrebuildCancelled \/ PrebuildSucceeds \/ PrebuildFails

(* A build ends, by its timeout if by nothing else.  A goroutine that      *)
(* waits for a sync.Mutex gets it: the lock hands itself to a waiter that  *)
(* has been passed over for a millisecond, hence strong fairness of every  *)
(* step that takes it.  Users that hold a circuit may hold it for ever,    *)
(* and nothing makes anybody call Stop.                                    *)
FairSpec ==
  /\ Spec
  /\ \A u \in Users : SF_vars(Get(u)) /\ WF_vars(Built(u)) /\ WF_vars(GetListed(u))
  /\ WF_vars(PrebuildStep) /\ SF_vars(PrebuildPut) /\ SF_vars(PrebuildExit)
  /\ WF_vars(CancelPool) /\ SF_vars(ClosePool) /\ WF_vars(CloseListed)

-----------------------------------------------------------------------------
(* Properties.                                                             *)

(* Where a circuit is: in how many hands plus in how many pool slots.      *)
Slots(c) == UNION {{<<k, i>> : i \in {j \in DOMAIN pool[k] : pool[k][j] = c}} : k \in AllKeys}
Holders(c) == {u \in Users : circ[u] = c}

(* A circuit is in one place at a time: one user's hands, one slot of one  *)
(* pool or the prebuild loop.  It holds because Get removes what it        *)
(* returns and every taker puts back once, although Put checks nothing.    *)
(* The only way around it is GetCircuit's fallback, which takes from the   *)
(* client's list what others hold (circuit_pool.go:88-186, socks.go:388,   *)
(* client.go:535-560).                                                     *)
OnePlace ==
  \A c \in Circuits \ lent :
    Cardinality(Slots(c)) + Cardinality(Holders(c))
      + (IF preCirc = c THEN 1 ELSE 0) <= 1

(* A circuit that was built for an isolation key carries only requests     *)
(* with the user name, target or port in that key: not another's after it  *)
(* went back to the pool, and not when the pool was full, closed or raced  *)
(* by the prebuild loop; again unless GetCircuit's fallback lent it        *)
(* (docs/CIRCUIT_ISOLATION.md:22; socks.go:323-351, isolation.go:157-176,  *)
(* circuit_pool.go:93-137, 160-176).                                       *)
IsolatedCircuitPrivate ==
  \A u \in Users :
    pc[u] = "holding" /\ circ[u] \notin lent /\ key[circ[u]] # NoKey
      => owner[u][Isolation.level] = Field(key[circ[u]])

(* Until Stop, an OPEN circuit is in the client's list, so that the        *)
(* maintenance loop will close it when it is old: also one that a full     *)
(* pool refused and nobody holds (client.go:421-425, circuit_pool.go:164). *)
OpenIsListed ==
  phase \notin {"cancelled", "poolClosed", "stopped"} =>
    \A c \in Circuits : state[c] = "OPEN" => c \in listed

(* Whoever asks for a circuit is answered, with one or with an error,      *)
(* although the pool's mutex is held through other users' builds.          *)
UserAnswered ==
  \A u \in Users : pc[u] \in {"accepted", "fallback"} ~> pc[u] \in {"holding", "idle"}

(* Stop finishes, also after a Start that failed: Close waits for the      *)
(* prebuild loop without the mutex that the loop's last Put needs          *)
(* (circuit_pool.go:270-275, client.go:153-155).                           *)
StopFinishes == phase = "stopping" ~> phase = "stopped"
=============================================================================
