---------------------------- MODULE OnionService ----------------------------
(***************************************************************************)
(* The host of an onion service (pkg/onion/service.go) and the directories *)
(* (HSDirs) that keep its descriptor.                                      *)
(*                                                                         *)
(* Every call of Start that succeeds goes on as its maintenance loop, with *)
(* the context that was given to Start; both are one "publisher" here.     *)
(* Stop cancels another context, which nothing watches.  Start and the     *)
(* loops touch introPoints without a lock.                                 *)
(***************************************************************************)
EXTENDS OnionDescriptor, FiniteSets

CONSTANTS
  Publishers,     (* calls of Start with their maintenance loops           *)
  HSDirs,         (* the relays given to Start, all of them HSDirs         *)
  Spread,         (* HSDirs selected for each of the two replicas          *)
  NumIntroPoints, (* config.NumIntroPoints                                 *)
  MaxClock,       (* bound: seconds                                        *)
  MaxPoints       (* bound: Start is called while introPoints is shorter   *)

ASSUME SpreadAssumption == Spread \in 1 .. Cardinality(HSDirs)
ASSUME PointsAssumption == NumIntroPoints \in 1 .. Cardinality(HSDirs)
ASSUME BoundAssumption == MaxClock \in Nat /\ MaxPoints \in Nat

VARIABLES
  running,      (* Service.running                                         *)
  introPoints,  (* Service.introPoints                                     *)
  descriptor,   (* Service.descriptor, rev 0 when nil                      *)
  clock,        (* time.Now().Unix(), the revision counter                 *)
  live,         (* the context of each publisher is not cancelled          *)
  at,           (* where each publisher is                                 *)
  inLoop,       (* it is the maintenance loop, Start has returned          *)
  count,        (* introduction points it has established                  *)
  draft,        (* what it has read: introPoints, or a descriptor's points *)
  draftRev,     (* the revision it has computed                            *)
  todo,         (* uploads left                                            *)
  uploaded,     (* one of them succeeded                                   *)
  stored,       (* the text each HSDir holds                               *)
  overlapped    (* history: a Start began while another was running        *)

serviceVars == <<running, introPoints, descriptor, clock, live, at, inLoop, count,
                 draft, draftRev, todo, uploaded, stored, overlapped>>

NoDescriptor == [rev |-> 0, points |-> << >>]

ServiceInit ==
  /\ running = FALSE
  /\ introPoints = << >>
  /\ descriptor = NoDescriptor
  /\ clock = 1
  /\ live = [p \in Publishers |-> FALSE]
  /\ at = [p \in Publishers |-> "off"]
  /\ inLoop = [p \in Publishers |-> FALSE]
  /\ count = [p \in Publishers |-> 0]
  /\ draft = [p \in Publishers |-> << >>]
  /\ draftRev = [p \in Publishers |-> 0]
  /\ todo = [p \in Publishers |-> {}]
  /\ uploaded = [p \in Publishers |-> FALSE]
  /\ stored = [d \in HSDirs |-> NoText]
  /\ overlapped = FALSE

-----------------------------------------------------------------------------
(* SelectHSDirs: the closest by a hash of descriptor and replica, so any.  *)
Selections(dirs) ==
  {s \in SUBSET dirs :
     Cardinality(s) = IF Cardinality(dirs) < Spread THEN Cardinality(dirs) ELSE Spread}

Busy(p) == at[p] # "off" /\ ~inLoop[p]

Start(p) ==
  /\ at[p] = "off"
  /\ ~running
  /\ Len(introPoints) < MaxPoints
  /\ running' = TRUE
  /\ live' = [live EXCEPT ![p] = TRUE]
  /\ at' = [at EXCEPT ![p] = "establishing"]
  /\ inLoop' = [inLoop EXCEPT ![p] = FALSE]
  /\ count' = [count EXCEPT ![p] = 0]
  /\ overlapped' = (overlapped \/ \E q \in Publishers : Busy(q))
  /\ UNCHANGED <<introPoints, descriptor, clock, draft, draftRev, todo, uploaded, stored>>

(* establishIntroductionPoints reads the list and, later, writes it back   *)
(* longer: a write in between is lost.                                     *)
ReadPoints(p) ==
  /\ at[p] = "establishing"
  /\ at' = [at EXCEPT ![p] = "appending"]
  /\ draft' = [draft EXCEPT ![p] = introPoints]
  /\ UNCHANGED <<running, introPoints, descriptor, clock, live, inLoop, count, draftRev,
                 todo, uploaded, stored, overlapped>>

NewPoint(p) == [key |-> p, relay |-> count[p], circuit |-> Len(draft[p])]

AppendPoint(p) ==
  /\ at[p] = "appending"
  /\ introPoints' = Append(draft[p], NewPoint(p))
  /\ count' = [count EXCEPT ![p] = @ + 1]
  /\ at' = [at EXCEPT ![p] = IF count[p] + 1 < NumIntroPoints THEN "establishing" ELSE "creating"]
  /\ UNCHANGED <<running, descriptor, clock, live, inLoop, draft, draftRev, todo, uploaded,
                 stored, overlapped>>

(* createDescriptor: points and clock are read without the lock that       *)
(* stores the result.                                                      *)
CreateDescriptor(p) ==
  /\ at[p] = "creating"
  /\ draft' = [draft EXCEPT ![p] = introPoints]
  /\ draftRev' = [draftRev EXCEPT ![p] = clock]
  /\ at' = [at EXCEPT ![p] = "storing"]
  /\ UNCHANGED <<running, introPoints, descriptor, clock, live, inLoop, count, todo, uploaded,
                 stored, overlapped>>

(* The descriptor carries a zero onion key and two random keys per point.  *)
DescribedPoint(p) == Point(ZeroKey, << p >>, << p >>)

StoreDescriptor(p) ==
  /\ at[p] = "storing"
  /\ descriptor' = [rev |-> draftRev[p],
                    points |-> [i \in DOMAIN draft[p] |-> DescribedPoint(draft[p][i])]]
  /\ at' = [at EXCEPT ![p] = "publishing"]
  /\ todo' = [todo EXCEPT ![p] = {}]
  /\ draft' = [draft EXCEPT ![p] = << >>]
  /\ draftRev' = [draftRev EXCEPT ![p] = 0]
  /\ UNCHANGED <<running, introPoints, clock, live, inLoop, count, uploaded, stored, overlapped>>

(* publishDescriptor reads the descriptor, then uploads it to the selected *)
(* HSDirs of both replicas.                                                *)
BeginPublish(p, one, two) ==
  /\ at[p] = "publishing"
  /\ todo' = [todo EXCEPT ![p] = one \cup two]
  /\ draft' = [draft EXCEPT ![p] = descriptor.points]
  /\ draftRev' = [draftRev EXCEPT ![p] = descriptor.rev]
  /\ uploaded' = [uploaded EXCEPT ![p] = FALSE]
  /\ at' = [at EXCEPT ![p] = "uploading"]
  /\ UNCHANGED <<running, introPoints, descriptor, clock, live, inLoop, count, stored, overlapped>>

(* signDescriptor encodes twice: to sign the text and to append the        *)
(* signature to it.                                                        *)
RawDescriptor(d) == Encoded(d, TRUE)

(* An HSDir, which is outside the code, keeps the highest revision.        *)
Keep(d, desc) ==
  stored' = [stored EXCEPT ![d] =
               IF @ = NoText \/ Parsed(@).rev < desc.rev THEN RawDescriptor(desc) ELSE @]

(* An upload fails only when the context is cancelled.  The code simulates *)
(* the rest: it waits 10 ms, sends nothing and reports success; that the   *)
(* HSDir now keeps the descriptor is what the upload it stands for does.   *)
Upload(p, d) ==
  /\ at[p] = "uploading"
  /\ d \in todo[p]
  /\ todo' = [todo EXCEPT ![p] = @ \ {d}]
  /\ IF live[p]
       THEN /\ Keep(d, [rev |-> draftRev[p], points |-> draft[p]])
            /\ uploaded' = [uploaded EXCEPT ![p] = TRUE]
       ELSE UNCHANGED <<stored, uploaded>>
  /\ UNCHANGED <<running, introPoints, descriptor, clock, live, at, inLoop, count, draft,
                 draftRev, overlapped>>

(* A Start that has published becomes the loop; one that has not fails and *)
(* clears running without the lock.  The loop only logs.                   *)
EndPublish(p) ==
  /\ at[p] = "uploading"
  /\ todo[p] = {}
  /\ IF inLoop[p] \/ uploaded[p]
       THEN /\ at' = [at EXCEPT ![p] = "waiting"]
            /\ inLoop' = [inLoop EXCEPT ![p] = TRUE]
            /\ UNCHANGED running
       ELSE /\ at' = [at EXCEPT ![p] = "off"]
            /\ running' = FALSE
            /\ UNCHANGED inLoop
  /\ draft' = [draft EXCEPT ![p] = << >>]
  /\ draftRev' = [draftRev EXCEPT ![p] = 0]
  /\ uploaded' = [uploaded EXCEPT ![p] = FALSE]
  /\ count' = [count EXCEPT ![p] = 0]
  /\ UNCHANGED <<introPoints, descriptor, clock, live, todo, stored, overlapped>>

(* maintenanceLoop: a tick, or the end of the context given to Start.      *)
LoopTick(p) ==
  /\ at[p] = "waiting"
  /\ at' = [at EXCEPT ![p] = "creating"]
  /\ UNCHANGED <<running, introPoints, descriptor, clock, live, inLoop, count, draft, draftRev,
                 todo, uploaded, stored, overlapped>>

LoopEnds(p) ==
  /\ at[p] = "waiting"
  /\ ~live[p]
  /\ at' = [at EXCEPT ![p] = "off"]
  /\ inLoop' = [inLoop EXCEPT ![p] = FALSE]
  /\ UNCHANGED <<running, introPoints, descriptor, clock, live, count, draft, draftRev,
                 todo, uploaded, stored, overlapped>>

(* The owner of the context.                                               *)
CancelContext(p) ==
  /\ live[p]
  /\ live' = [live EXCEPT ![p] = FALSE]
  /\ UNCHANGED <<running, introPoints, descriptor, clock, at, inLoop, count, draft, draftRev,
                 todo, uploaded, stored, overlapped>>

(* Mutant: Stop forgets the introduction points.                           *)
StopAndClear ==
  /\ running
  /\ running' = FALSE
  /\ introPoints' = << >>
  /\ UNCHANGED <<descriptor, clock, live, at, inLoop, count, draft, draftRev,
                 todo, uploaded, stored, overlapped>>

(* Stop: the context it cancels is the one NewService made.                *)
Stop ==
  /\ running
  /\ running' = FALSE
  /\ UNCHANGED <<introPoints, descriptor, clock, live, at, inLoop, count, draft, draftRev,
                 todo, uploaded, stored, overlapped>>

PassSecond ==
  /\ clock < MaxClock
  /\ clock' = clock + 1
  /\ UNCHANGED <<running, introPoints, descriptor, live, at, inLoop, count, draft, draftRev,
                 todo, uploaded, stored, overlapped>>

ServiceNext ==
  \/ \E p \in Publishers :
       \/ Start(p) \/ ReadPoints(p) \/ AppendPoint(p) \/ CreateDescriptor(p)
       \/ StoreDescriptor(p) \/ EndPublish(p) \/ LoopTick(p) \/ LoopEnds(p)
       \/ CancelContext(p)
  \/ \E p \in Publishers, one \in Selections(HSDirs), two \in Selections(HSDirs) :
       BeginPublish(p, one, two)
  \/ \E p \in Publishers, d \in HSDirs : Upload(p, d)
  \/ Stop \/ PassSecond

ServiceSpec == ServiceInit /\ [][ServiceNext]_serviceVars

-----------------------------------------------------------------------------
(* Every introduction point of a descriptor that an HSDir holds is one of  *)
(* the service's, and no two of the service's share a circuit id: restarts *)
(* append to the list and number by its length.  Only a Stop that lets a   *)
(* second Start in while the first is still working, on the same list and  *)
(* without the lock, can break it (service.go:243-260, 283-291, 355-375).  *)
PublishedPointsKnown ==
  ~overlapped =>
    /\ \A d \in HSDirs : \A i \in DOMAIN Parsed(stored[d]).points :
         \E j \in DOMAIN introPoints : Parsed(stored[d]).points[i].auth = << introPoints[j] >>
    /\ \A i, j \in DOMAIN introPoints :
         introPoints[i].circuit = introPoints[j].circuit => i = j
=============================================================================
