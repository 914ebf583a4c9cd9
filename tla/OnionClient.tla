---------------------------- MODULE OnionClient ----------------------------
(***************************************************************************)
(* A client of onion services (pkg/onion/onion.go) next to the host that   *)
(* publishes the descriptor: one call of ConnectToOnionService at a time,  *)
(* from the descriptor cache to RENDEZVOUS2, and the other calls that      *)
(* touch the cache and the list of HSDirs meanwhile.                       *)
(*                                                                         *)
(* A CircuitBuilder and a CellSender are set; without them the code mocks  *)
(* circuits and cells.  Time is abstract in the client: a cached           *)
(* descriptor expires, a wait times out and a context is cancelled at any  *)
(* moment.                                                                 *)
(***************************************************************************)
EXTENDS OnionService

CONSTANTS
  MaxRetries,   (* maxRetries of FetchDescriptor                           *)
  MaxInbox      (* bound: unread cells when a cell nobody asked for comes  *)

ASSUME RetriesAssumption == MaxRetries \in Nat \ {0} /\ MaxInbox \in Nat

VARIABLES
  consensus,   (* Client.consensus                                         *)
  cache,       (* DescriptorCache, the entry of the service's address      *)
  step,        (* where ConnectToOnionService is                           *)
  cancelled,   (* its context                                              *)
  replica,     (* 1 or 2                                                   *)
  attempt,     (* 1 .. MaxRetries                                          *)
  chosen,      (* the HSDirs selected for each replica                     *)
  left,        (* those not yet asked in this attempt                      *)
  desc,        (* the descriptor it works with                             *)
  point,       (* the introduction point it has selected                   *)
  inbox,       (* relay cells that have arrived on the rendezvous circuit  *)
  mail,        (* commands of the answers under way to it                  *)
  pending,     (* pendingIntros of the service holds an introduction       *)
  result,      (* how the call ended                                       *)
  refused,     (* history: which HSDir failed in which attempt             *)
  lastCell     (* history: the cell the connection was completed with      *)

fetchVars == <<replica, attempt, chosen, left, refused>>
rendVars  == <<inbox, mail, pending, lastCell>>
clientVars == <<consensus, cache, step, cancelled, fetchVars, desc, point, rendVars, result>>
vars == <<serviceVars, clientVars>>

NoDesc == [rev |-> 0, points |-> << >>]
Empty  == [state |-> "none", desc |-> NoDesc]

ClientInit ==
  /\ consensus = {}
  /\ cache = Empty
  /\ step = "idle" /\ cancelled = FALSE
  /\ replica = 1 /\ attempt = 1 /\ chosen = << {}, {} >> /\ left = {}
  /\ desc = NoDesc /\ point = NoPoint
  /\ inbox = << >> /\ mail = {} /\ pending = FALSE
  /\ result = "none"
  /\ refused = {} /\ lastCell = "none"

Init == ServiceInit /\ ClientInit

-----------------------------------------------------------------------------
(* The cache, and the list of HSDirs.                                      *)

CacheOnly == UNCHANGED <<serviceVars, consensus, step, cancelled, fetchVars, desc, point, rendVars, result>>

Expire ==
  /\ cache.state = "fresh"
  /\ cache' = [cache EXCEPT !.state = "expired"]
  /\ CacheOnly

(* Remove, Clear, and CleanExpired, which removes expired entries only.    *)
Forget == cache # Empty /\ cache' = Empty /\ CacheOnly
CleanExpired == cache.state = "expired" /\ cache' = Empty /\ CacheOnly

(* Put overwrites whatever is there.  Another GetDescriptor does it with   *)
(* what it fetched, CacheDescriptor with what it is given.                 *)
Put(d) == cache' = [state |-> "fresh", desc |-> d]

OtherPut(d) ==
  /\ stored[d] # NoText
  /\ Put(Parsed(stored[d]))
  /\ CacheOnly

UpdateHSDirs(dirs) ==
  /\ consensus' = dirs
  /\ UNCHANGED <<serviceVars, cache, step, cancelled, fetchVars, desc, point, rendVars, result>>

-----------------------------------------------------------------------------
(* GetDescriptor and FetchDescriptor.                                      *)

(* The call returns: nothing closes the circuits it has built.             *)
Finish(how) ==
  /\ step' = "done"
  /\ result' = how

Connect ==
  /\ step = "idle"
  /\ \/ /\ cache.state = "fresh"
        /\ desc' = cache.desc
        /\ step' = "establish"
        /\ UNCHANGED <<result, fetchVars>>
     \/ /\ cache.state # "fresh"
        /\ consensus = {}
        /\ Finish("failed")
        /\ UNCHANGED <<desc, fetchVars>>
     \/ /\ cache.state # "fresh"
        /\ \E one \in Selections(consensus), two \in Selections(consensus) :
             /\ one # {}
             /\ chosen' = << one, two >>
             /\ left' = one
        /\ replica' = 1 /\ attempt' = 1 /\ refused' = {}
        /\ step' = "fetching"
        /\ UNCHANGED <<result, desc>>
  /\ UNCHANGED <<serviceVars, consensus, cache, cancelled, point, rendVars>>

(* fetchFromHSDir: an answer is the descriptor, something else that parses *)
(* all the same, or an error.                                              *)
Answers(d) ==
  IF cancelled THEN {}
  ELSE {Parsed(JunkText)} \cup (IF stored[d] = NoText THEN {} ELSE {Parsed(stored[d])})

AskHSDir(d) ==
  /\ step = "fetching"
  /\ d \in left
  /\ \/ /\ \E answer \in Answers(d) : desc' = answer
        /\ step' = "caching"
        /\ left' = {}
        /\ UNCHANGED refused
     \/ /\ left' = left \ {d}
        /\ refused' = refused \cup {<<replica, attempt, d>>}
        /\ UNCHANGED <<step, desc>>
  /\ UNCHANGED <<serviceVars, consensus, cache, cancelled, replica, attempt, chosen, point, rendVars, result>>

(* Mutant: the second replica is not tried when the first has failed.      *)
NextAttemptOneReplica ==
  /\ step = "fetching"
  /\ left = {}
  /\ IF attempt < MaxRetries
       THEN /\ attempt' = attempt + 1
            /\ step' = "backoff"
            /\ UNCHANGED <<replica, left, result>>
       ELSE Finish("noDescriptor") /\ UNCHANGED <<replica, attempt, left>>
  /\ UNCHANGED <<serviceVars, consensus, cache, cancelled, chosen, refused, desc, point, rendVars>>

(* All of them failed: the next attempt, after a pause, then the other     *)
(* replica, at once, then the error.                                       *)
NextAttempt ==
  /\ step = "fetching"
  /\ left = {}
  /\ \/ /\ attempt < MaxRetries
        /\ attempt' = attempt + 1
        /\ step' = "backoff"
        /\ UNCHANGED <<replica, left, result>>
     \/ /\ attempt = MaxRetries /\ replica = 1
        /\ replica' = 2 /\ attempt' = 1 /\ left' = chosen[2]
        /\ UNCHANGED <<step, result>>
     \/ /\ attempt = MaxRetries /\ replica = 2
        /\ Finish("noDescriptor")
        /\ UNCHANGED <<replica, attempt, left>>
  /\ UNCHANGED <<serviceVars, consensus, cache, cancelled, chosen, refused, desc, point, rendVars>>

Backoff ==
  /\ step = "backoff"
  /\ \/ /\ step' = "fetching"
        /\ left' = chosen[replica]
        /\ UNCHANGED result
     \/ /\ cancelled
        /\ Finish("cancelled")
        /\ UNCHANGED left
  /\ UNCHANGED <<serviceVars, consensus, cache, cancelled, replica, attempt, chosen, refused,
                 desc, point, rendVars>>

CacheFetched ==
  /\ step = "caching"
  /\ Put(desc)
  /\ step' = "establish"
  /\ UNCHANGED <<serviceVars, consensus, cancelled, fetchVars, desc, point, rendVars, result>>

-----------------------------------------------------------------------------
(* EstablishRendezvousPoint.                                               *)

RendOnly == UNCHANGED <<serviceVars, consensus, cache, cancelled, fetchVars>>

(* The first relay of the list, which is read again.                       *)
RendezvousPointAvailable == consensus # {}

CreateRendezvousCircuit ==
  /\ step = "establish"
  /\ \/ RendezvousPointAvailable /\ ~cancelled /\ step' = "sendEstablish" /\ UNCHANGED result
     \/ Finish("failed")
  /\ UNCHANGED <<desc, point, rendVars>>
  /\ RendOnly

SendEstablishRendezvous ==
  /\ step = "sendEstablish"
  /\ \/ /\ step' = "awaitAck"
        /\ mail' = {"RENDEZVOUS_ESTABLISHED"}
        /\ UNCHANGED result
     \/ /\ Finish("failed")
        /\ UNCHANGED mail
  /\ UNCHANGED <<desc, point, inbox, pending, lastCell>>
  /\ RendOnly

(* Relay cells, which a CellSender hands on as bytes, without the command: *)
(* "other" is DROP, TRUNCATED, END or an answer once more, and "empty" any *)
(* cell that has no data.                                                  *)
RendCells == {"RENDEZVOUS_ESTABLISHED", "RENDEZVOUS2", "other", "empty"}

(* Nobody reads the circuit after the call has returned.                   *)
HasRendCircuit ==
  step \in {"sendEstablish", "awaitAck", "introduce", "createIntro", "sendIntro", "awaitMeeting"}

(* An answer under way arrives, with data or without.                      *)
AnswerArrives(cell) ==
  /\ cell \in mail
  /\ HasRendCircuit
  /\ mail' = mail \ {cell}
  /\ \E arrived \in {cell, "empty"} : inbox' = Append(inbox, arrived)
  /\ UNCHANGED <<desc, point, step, pending, lastCell, result>>
  /\ RendOnly

(* A cell arrives that nobody asked for.                                   *)
OtherArrives(cell) ==
  /\ HasRendCircuit
  /\ Len(inbox) < MaxInbox
  /\ inbox' = Append(inbox, cell)
  /\ UNCHANGED <<desc, point, step, mail, pending, lastCell, result>>
  /\ RendOnly

(* The first cell is the acknowledgment, whatever it is.                   *)
ReceiveAck ==
  /\ step = "awaitAck"
  /\ inbox # << >>
  /\ inbox' = Tail(inbox)
  /\ step' = "introduce"
  /\ UNCHANGED <<desc, point, mail, pending, lastCell, result>>
  /\ RendOnly

(* "Continuing anyway".                                                    *)
AckTimeout ==
  /\ step = "awaitAck"
  /\ step' = "introduce"
  /\ UNCHANGED <<desc, point, rendVars, result>>
  /\ RendOnly

-----------------------------------------------------------------------------
(* SelectIntroductionPoint, CreateIntroductionCircuit, BuildIntroduce1Cell *)
(* and SendIntroduce1; at the other end HandleIntroduce2.                  *)

SelectIntroductionPoint ==
  /\ step = "introduce"
  /\ \/ /\ \E i \in DOMAIN desc.points : point' = desc.points[i]
        /\ step' = "createIntro"
        /\ UNCHANGED result
     \/ /\ desc.points = << >>
        /\ Finish("failed")
        /\ UNCHANGED point
  /\ UNCHANGED <<desc, rendVars>>
  /\ RendOnly

CreateIntroductionCircuit ==
  /\ step = "createIntro"
  /\ \/ ~cancelled /\ step' = "sendIntro" /\ UNCHANGED result
     \/ Finish("failed")
  /\ UNCHANGED <<desc, point, rendVars>>
  /\ RendOnly

(* The cell names the point by its authentication key, 32 zeros if there   *)
(* is none, and is in clear when there is no encryption key.               *)
Introduce1 ==
  [auth |-> IF point.auth = NoKey THEN ZeroKey ELSE point.auth, clear |-> point.enc = NoKey]

(* A relay passes an INTRODUCE1 on to the service whose key it names.      *)
RelaysIntroduction(cell) == \E j \in DOMAIN introPoints : cell.auth = << introPoints[j] >>

(* The service notes whatever has 52 bytes, and looks at no key; what it   *)
(* takes for the cookie are the zeros that INTRODUCE1 begins with.         *)
HandleIntroduce2 == pending' = TRUE

SendIntroduce1 ==
  /\ step = "sendIntro"
  /\ \/ /\ IF RelaysIntroduction(Introduce1) THEN HandleIntroduce2 ELSE UNCHANGED pending
        /\ step' = "awaitMeeting"
        /\ UNCHANGED result
     \/ /\ Finish("failed")
        /\ UNCHANGED pending
  /\ UNCHANGED <<desc, point, inbox, mail, lastCell>>
  /\ RendOnly

(* The service comes to the rendezvous point: not this host, which does    *)
(* nothing more with an introduction, but others.                          *)
ServiceComes ==
  /\ pending
  /\ HasRendCircuit
  /\ pending' = FALSE
  /\ mail' = mail \cup {"RENDEZVOUS2"}
  /\ UNCHANGED <<desc, point, step, inbox, lastCell, result>>
  /\ RendOnly

(* WaitForRendezvous2 takes the next cell, whatever its command, and only  *)
(* wants data in it.  No key was stored for the circuit (its id is not in  *)
(* the IntroduceRequest), so that nothing more is verified.                *)
CompleteRendezvous ==
  /\ step = "awaitMeeting"
  /\ inbox # << >>
  /\ inbox' = Tail(inbox)
  /\ \/ /\ Head(inbox) # "empty"
        /\ lastCell' = Head(inbox)
        /\ Finish("connected")
     \/ /\ Head(inbox) = "empty"
        /\ Finish("failed")
        /\ UNCHANGED lastCell
  /\ UNCHANGED <<desc, point, mail, pending>>
  /\ RendOnly

(* Mutant: the wait for RENDEZVOUS2 has no limit but the context.          *)
MeetingTimeoutByContext ==
  /\ step = "awaitMeeting"
  /\ cancelled
  /\ Finish("failed")
  /\ UNCHANGED <<desc, point, rendVars>>
  /\ RendOnly

MeetingTimeout ==
  /\ step = "awaitMeeting"
  /\ Finish("failed")
  /\ UNCHANGED <<desc, point, rendVars>>
  /\ RendOnly

(* The caller goes on; a later call has circuits of its own.               *)
Again ==
  /\ step = "done"
  /\ step' = "idle" /\ cancelled' = FALSE /\ result' = "none"
  /\ replica' = 1 /\ attempt' = 1 /\ chosen' = << {}, {} >> /\ left' = {} /\ refused' = {}
  /\ desc' = NoDesc /\ point' = NoPoint
  /\ inbox' = << >> /\ mail' = {} /\ pending' = FALSE /\ lastCell' = "none"
  /\ UNCHANGED <<serviceVars, consensus, cache>>

Cancel ==
  /\ step \notin {"idle", "done"}
  /\ ~cancelled
  /\ cancelled' = TRUE
  /\ UNCHANGED <<serviceVars, consensus, cache, step, fetchVars, desc, point, rendVars, result>>

-----------------------------------------------------------------------------
EstablishRendezvousPoint ==
  CreateRendezvousCircuit \/ SendEstablishRendezvous \/ ReceiveAck \/ AckTimeout

ConnectStep ==
  \/ \E d \in HSDirs : AskHSDir(d)
  \/ NextAttempt \/ Backoff \/ CacheFetched
  \/ EstablishRendezvousPoint
  \/ SelectIntroductionPoint \/ CreateIntroductionCircuit \/ SendIntroduce1
  \/ CompleteRendezvous \/ MeetingTimeout

ClientNext ==
  \/ ConnectStep
  \/ Connect \/ Again \/ Cancel \/ ServiceComes
  \/ Expire \/ Forget \/ CleanExpired
  \/ \E d \in HSDirs : OtherPut(d)
  \/ \E dirs \in {{}, HSDirs} : UpdateHSDirs(dirs)
  \/ \E cell \in {"RENDEZVOUS_ESTABLISHED", "RENDEZVOUS2"} : AnswerArrives(cell)
  \/ \E cell \in {"other", "empty"} : OtherArrives(cell)

Next ==
  \/ ServiceNext /\ UNCHANGED clientVars
  \/ ClientNext

Spec == Init /\ [][Next]_vars

(* The call runs and its timers fire; no HSDir and no relay has to answer. *)
FairSpec == Spec /\ WF_vars(ConnectStep)

-----------------------------------------------------------------------------
(* Properties.                                                             *)

(* A fetch gives up, unless it is cancelled between two attempts, only     *)
(* when each HSDir selected for each of the two replicas has failed in     *)
(* each attempt (onion.go:1163-1217).                                      *)
GivesUpOnlyAfterAll ==
  result = "noDescriptor" =>
    refused = {r \in {1, 2} \X (1 .. MaxRetries) \X HSDirs : r[3] \in chosen[r[1]]}

(* Every call of ConnectToOnionService returns, whatever HSDirs, relays    *)
(* and the service do or leave undone (onion.go:1690-1775).                *)
ConnectReturns == step = "establish" \/ step = "fetching" ~> step = "done"

(* onion.go:1982, "WaitForRendezvous2 waits for a RENDEZVOUS2 cell on a    *)
(* circuit": a connection is reported when one has come.                   *)
ConnectedMeansMet == result = "connected" => lastCell = "RENDEZVOUS2"
=============================================================================
