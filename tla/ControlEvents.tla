--------------------------- MODULE ControlEvents ----------------------------
(***************************************************************************)
(* The control server (pkg/control): the accept loop, a handler for each   *)
(* connection, the event dispatcher with its goroutine for each event and  *)
(* subscriber, and Stop.                                                   *)
(***************************************************************************)
EXTENDS Naturals, Sequences, FiniteSets

CONSTANTS
  Clients,               (* control connections, each accepted once        *)
  Events,                (* types of events                                *)
  MaxEvents, MaxCommands

ASSUME ControlAssumption == MaxEvents \in Nat /\ MaxCommands \in Nat

VARIABLES
  stopping,    (* Server.Stop: no, cancelled, unlistened, swept, returned  *)
  accepting,   (* acceptLoop runs                                          *)
  at,          (* where the handler of each connection is                  *)
  conns,       (* Server.conns                                             *)
  closed,      (* connections closed at this end                           *)
  client,      (* it reads, does not read (a write blocks), or has gone    *)
  auth,        (* connection.authenticated                                 *)
  wanted,      (* connection.events                                        *)
  subscribers, (* EventDispatcher.subscribers: of whom, and of what        *)
  flying,      (* goroutines of Dispatch that have not written             *)
  got,         (* events written to each connection                        *)
  dispatched,  (* number of the latest event                               *)
  commands,    (* bound: commands of each client                           *)
  confirmed    (* history: SETEVENTS answered with 250                     *)

serverVars  == <<stopping, accepting, conns>>
eventVars   == <<flying, got, dispatched>>
controlVars == <<serverVars, at, closed, client, auth, wanted, subscribers, eventVars,
                 commands, confirmed>>

ControlInit ==
  /\ stopping = "no" /\ accepting = TRUE
  /\ at = [c \in Clients |-> "none"]
  /\ conns = {} /\ closed = {} /\ auth = {}
  /\ client = [c \in Clients |-> "reads"]
  /\ wanted = [c \in Clients |-> {}]
  /\ subscribers = [c \in {} |-> {}]
  /\ flying = {} /\ got = [c \in Clients |-> << >>] /\ dispatched = 0
  /\ commands = [c \in Clients |-> 0]
  /\ confirmed = [c \in Clients |-> 0]

Cancelled == stopping # "no"
Go(c, there) == at' = [at EXCEPT ![c] = there]

(* A write ends when the client reads, or with an error nobody looks at.   *)
Closed(c) == c \in closed \/ client[c] = "gone"
CanWrite(c) == client[c] # "stalls" \/ Closed(c)

-----------------------------------------------------------------------------
(* The accept loop.                                                        *)

Accept(c) ==
  /\ accepting /\ at[c] = "none"
  /\ stopping \in {"no", "cancelled"}
  /\ Go(c, "accepted")
  /\ UNCHANGED <<serverVars, closed, client, auth, wanted, subscribers, eventVars, commands, confirmed>>

(* With another error, or none, it goes on.                                *)
AcceptEnds ==
  /\ accepting
  /\ stopping \in {"unlistened", "swept"}
  /\ accepting' = FALSE
  /\ UNCHANGED <<stopping, conns, at, closed, client, auth, wanted, subscribers, eventVars, commands, confirmed>>

-----------------------------------------------------------------------------
(* handleConnection.                                                       *)

HandlerOnly == UNCHANGED <<stopping, accepting, client, eventVars>>

(* The greeting that follows changes nothing here: nothing is in front of  *)
(* it on the connection, and it does not wait for the client.              *)
Register(c) ==
  /\ at[c] = "accepted"
  /\ conns' = conns \cup {c}
  /\ Go(c, "loop")
  /\ UNCHANGED <<closed, auth, wanted, subscribers, commands, confirmed>>
  /\ HandlerOnly

(* Mutant: the loop relies on Stop to close the connection.                *)
LoopUnchecked(c) ==
  /\ at[c] = "loop"
  /\ Go(c, "read")
  /\ UNCHANGED <<conns, closed, auth, wanted, subscribers, commands, confirmed>>
  /\ HandlerOnly

(* The top of the loop.                                                    *)
Loop(c) ==
  /\ at[c] = "loop"
  /\ Go(c, IF Cancelled THEN "unsubscribe" ELSE "read")
  /\ UNCHANGED <<conns, closed, auth, wanted, subscribers, commands, confirmed>>
  /\ HandlerOnly

(* The connection is closed at one of its ends.                            *)
ReadFails(c) ==
  /\ at[c] = "read" /\ Closed(c)
  /\ Go(c, "unsubscribe")
  /\ UNCHANGED <<conns, closed, auth, wanted, subscribers, commands, confirmed>>
  /\ HandlerOnly

(* 30 seconds without a command, even for a client that waits for events.  *)
ReadDeadline(c) ==
  /\ at[c] = "read"
  /\ Go(c, "unsubscribe")
  /\ UNCHANGED <<conns, closed, auth, wanted, subscribers, commands, confirmed>>
  /\ HandlerOnly

Reads(c) ==
  /\ at[c] = "read" /\ ~Closed(c)
  /\ commands[c] < MaxCommands
  /\ commands' = [commands EXCEPT ![c] = @ + 1]

HandleAuthenticate(c) ==
  /\ Reads(c)
  /\ auth' = auth \cup {c}
  /\ Go(c, "reply")
  /\ UNCHANGED <<conns, closed, wanted, subscribers, confirmed>>
  /\ HandlerOnly

(* GETINFO, GETCONF, SETCONF, PROTOCOLINFO, what is not a command, and     *)
(* SETEVENTS without authentication: nothing but a reply.                  *)
HandleOther(c) ==
  /\ Reads(c)
  /\ Go(c, "reply")
  /\ UNCHANGED <<conns, closed, auth, wanted, subscribers, confirmed>>
  /\ HandlerOnly

HandleSetEvents(c, events) ==
  /\ Reads(c) /\ c \in auth
  /\ wanted' = [wanted EXCEPT ![c] = events]
  /\ Go(c, "subscribe")
  /\ UNCHANGED <<conns, closed, auth, subscribers, confirmed>>
  /\ HandlerOnly

Subscribed(c, events) ==
  [d \in DOMAIN subscribers \cup {c} |-> IF d = c THEN events ELSE subscribers[d]]

(* Mutant: the subscriptions of the connection are not cleared.            *)
SubscribeMore(c) ==
  /\ at[c] = "subscribe"
  /\ subscribers' = Subscribed(c, IF c \in DOMAIN subscribers THEN subscribers[c] \cup wanted[c] ELSE wanted[c])
  /\ Go(c, "confirm")
  /\ UNCHANGED <<conns, closed, auth, wanted, commands, confirmed>>
  /\ HandlerOnly

Subscribe(c) ==
  /\ at[c] = "subscribe"
  /\ subscribers' = Subscribed(c, wanted[c])
  /\ Go(c, "confirm")
  /\ UNCHANGED <<conns, closed, auth, wanted, commands, confirmed>>
  /\ HandlerOnly

HandleQuit(c) ==
  /\ Reads(c)
  /\ Go(c, "quit")
  /\ UNCHANGED <<conns, closed, auth, wanted, subscribers, confirmed>>
  /\ HandlerOnly

WriteReply(c) ==
  /\ at[c] \in {"reply", "confirm", "quit"}
  /\ CanWrite(c)
  /\ confirmed' = [confirmed EXCEPT ![c] = IF at[c] = "confirm" THEN @ + 1 ELSE @]
  /\ closed' = IF at[c] = "quit" THEN closed \cup {c} ELSE closed
  /\ Go(c, "loop")
  /\ UNCHANGED <<conns, auth, wanted, subscribers, commands>>
  /\ HandlerOnly

Unsubscribe(c) ==
  /\ at[c] = "unsubscribe"
  /\ subscribers' = [d \in DOMAIN subscribers \ {c} |-> subscribers[d]]
  /\ Go(c, "unregister")
  /\ UNCHANGED <<conns, closed, auth, wanted, commands, confirmed>>
  /\ HandlerOnly

(* The connection is closed, and the handler is done.                      *)
Unregister(c) ==
  /\ at[c] = "unregister"
  /\ conns' = conns \ {c}
  /\ closed' = closed \cup {c}
  /\ Go(c, "gone")
  /\ UNCHANGED <<auth, wanted, subscribers, commands, confirmed>>
  /\ HandlerOnly

-----------------------------------------------------------------------------
(* Clients.                                                                *)

ClientOnly ==
  UNCHANGED <<serverVars, at, closed, auth, wanted, subscribers, eventVars, commands, confirmed>>

ClientTurns(c) ==
  /\ at[c] \notin {"none", "gone"} /\ client[c] # "gone"
  /\ \E mood \in {"reads", "stalls", "gone"} \ {client[c]} : client' = [client EXCEPT ![c] = mood]
  /\ ClientOnly

-----------------------------------------------------------------------------
(* Dispatch, and its goroutines.                                           *)

EventOnly ==
  UNCHANGED <<serverVars, at, closed, client, auth, wanted, subscribers, commands, confirmed>>

(* The goroutine remembers nothing but the event; the number, what was     *)
(* under way with it and the confirmations are history.                    *)
Dispatch(type) ==
  /\ dispatched < MaxEvents
  /\ dispatched' = dispatched + 1
  /\ flying' = flying \cup
       { [to |-> c, type |-> type, n |-> dispatched', confirmed |-> confirmed[c],
          behind |-> {e.n : e \in {f \in flying : f.to = c}}] :
         c \in {d \in DOMAIN subscribers : type \in subscribers[d]} }
  /\ UNCHANGED got
  /\ EventOnly

(* It is not asked whether the connection still wants the event.           *)
WriteEvent(e) ==
  /\ e \in flying
  /\ CanWrite(e.to)
  /\ flying' = flying \ {e}
  /\ got' = IF Closed(e.to) THEN got ELSE [got EXCEPT ![e.to] = Append(@, [n |-> e.n, behind |-> e.behind])]
  /\ UNCHANGED dispatched
  /\ EventOnly

-----------------------------------------------------------------------------
(* Stop.                                                                   *)

StopOnly == UNCHANGED <<accepting, conns, at, client, auth, wanted, subscribers, eventVars, commands, confirmed>>

Cancel == stopping = "no" /\ stopping' = "cancelled" /\ UNCHANGED closed /\ StopOnly
CloseListener == stopping = "cancelled" /\ stopping' = "unlistened" /\ UNCHANGED closed /\ StopOnly
CloseConns ==
  /\ stopping = "unlistened"
  /\ stopping' = "swept"
  /\ closed' = closed \cup conns
  /\ StopOnly
StopReturns ==
  /\ stopping = "swept"
  /\ ~accepting /\ \A c \in Clients : at[c] \in {"none", "gone"}
  /\ stopping' = "returned"
  /\ UNCHANGED closed
  /\ StopOnly

-----------------------------------------------------------------------------
Command(c) ==
  \/ HandleAuthenticate(c) \/ HandleOther(c) \/ HandleQuit(c)
  \/ \E events \in SUBSET Events : HandleSetEvents(c, events)

HandlerStep(c) ==
  Register(c) \/ Loop(c) \/ ReadFails(c) \/ Subscribe(c) \/ WriteReply(c) \/ Unsubscribe(c) \/ Unregister(c)

StopStep == CloseListener \/ CloseConns \/ StopReturns

ControlNext ==
  \/ AcceptEnds \/ Cancel \/ StopStep
  \/ \E c \in Clients :
       Accept(c) \/ Command(c) \/ HandlerStep(c) \/ ReadDeadline(c) \/ ClientTurns(c)
  \/ \E type \in Events : Dispatch(type)
  \/ \E e \in flying : WriteEvent(e)

(* The goroutines run.  What clients send, whether they read, and the      *)
(* deadline, which a client can put off, are not relied on.                *)
ControlFairness ==
  /\ WF_controlVars(AcceptEnds) /\ WF_controlVars(StopStep)
  /\ \A c \in Clients : WF_controlVars(HandlerStep(c))

ControlSpec == ControlInit /\ [][ControlNext]_controlVars /\ ControlFairness

-----------------------------------------------------------------------------
(* A connection gets no event twice, and a later one before an earlier one *)
(* only if both were under way together; an event on its way that the      *)
(* connection has not asked for was dispatched before its latest SETEVENTS *)
(* was confirmed; and no handler that is gone has a subscription           *)
(* (control.go:152-215, 367-391, events.go:243-291).                       *)
EventsAsSubscribed ==
  /\ \A c \in Clients :
       /\ \A j \in DOMAIN got[c] : \A i \in 1 .. j - 1 :
            got[c][i].n < got[c][j].n \/ got[c][j].n \in got[c][i].behind
       /\ at[c] \in {"none", "unregister", "gone"} => c \notin DOMAIN subscribers
  /\ \A e \in flying :
       at[e.to] \in {"loop", "read", "reply"} /\ e.confirmed = confirmed[e.to] => e.type \in wanted[e.to]

(* Stop returns, whatever the clients do and whenever their connections    *)
(* were accepted (control.go:97-149, 184-189).                             *)
ControlStops == Cancelled ~> stopping = "returned"
=============================================================================
