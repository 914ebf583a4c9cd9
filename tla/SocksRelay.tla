----------------------------- MODULE SocksRelay -----------------------------
(***************************************************************************)
(* SOCKS connections from accept to close: the accept loop and Shutdown of *)
(* pkg/socks, the stream manager of pkg/stream, and the stream functions   *)
(* of a Circuit (OpenStream, ReadFromStream, EndStream, ResolveHostname).  *)
(*                                                                         *)
(* Every connection has a goroutine of its own, and two more while it      *)
(* relays: `up' reads the SOCKS client and sends DATA, `down' reads the    *)
(* circuit and writes to the client.  All streams of a circuit, and its    *)
(* DNS queries, read the one queue of received cells, one user at a time:  *)
(* the pool gives a circuit to one connection at a time (CircuitPool).     *)
(* Cells carry the connection they answer, which the code cannot see.      *)
(*                                                                         *)
(* Left out: onion addresses (answered without a stream), the requests'    *)
(* syntax, and the Send and Receive queues of a Stream, which nothing uses.*)
(***************************************************************************)
EXTENDS Integers, Sequences, FiniteSets

CONSTANTS
  Handlers,   (* SOCKS connections, one goroutine each                      *)
  Circuits,   (* the open circuits the pool can hand out                    *)
  IdLimit,    (* 2^16: stream ids are 1 .. IdLimit - 1                      *)
  MaxConns,   (* Config.MaxConnections                                      *)
  QueueCap,   (* 32, the capacity of relayReceiveChan                       *)
  MaxData,    (* bound: DATA cells an exit sends on one stream              *)
  None        (* nil                                                        *)

ASSUME HandlersAssumption == None \notin Handlers /\ None \notin Circuits
ASSUME IdLimitAssumption == IdLimit \in Nat \ {0, 1}
ASSUME LimitsAssumption == MaxConns \in Nat \ {0} /\ QueueCap \in Nat \ {0} /\ MaxData \in Nat

VARIABLES
  loop,       (* the connection acceptLoop has accepted and not yet tracked *)
  active,     (* Server.activeConns                                         *)
  stopping,   (* the context of ListenAndServe is cancelled                 *)
  shutdown,   (* Shutdown has run: the listener is closed                   *)
  conn,       (* the TCP connection to the SOCKS client                     *)
  pc,         (* where each handler is                                      *)
  up,         (* the goroutine that reads the client                        *)
  down,       (* the goroutine that reads the circuit                       *)
  held,       (* the DATA that `down' is about to write                     *)
  streams,    (* Manager.streams                                            *)
  nextID,     (* Manager.nextID                                             *)
  sid,        (* the handler's Stream.ID, 0 before CreateStream             *)
  pooled,     (* circuits in the pool                                       *)
  circ,       (* the circuit the handler was given                          *)
  queue,      (* Circuit.relayReceiveChan                                   *)
  exit,       (* what the exit knows of the handler's stream or query       *)
  sent,       (* DATA cells the exit has sent on it                         *)
  got,        (* DATA written to the handler's client                       *)
  answer      (* whose query the RESOLVED cell given to the client answered *)

serverVars == <<loop, active, stopping, shutdown>>
relayVars  == <<up, down, held>>
streamVars == <<streams, nextID, sid>>
poolVars   == <<pooled, circ>>
exitVars   == <<exit, sent>>
clientVars == <<got, answer>>
vars == <<serverVars, conn, pc, relayVars, streamVars, poolVars, queue, exitVars, clientVars>>

StreamIDs == 1 .. IdLimit - 1

Data == [of : Handlers, n : 1 .. MaxData]
Cells == [id : 0 .. IdLimit - 1, cmd : {"CONNECTED", "DATA", "END", "RESOLVED"},
          of : Handlers, n : 0 .. MaxData]

WithStream == {"beginning", "opening", "relaying"}
WithCircuit == WithStream \cup {"creating", "querying", "resolving", "leaving"}

TypeOK ==
  /\ loop \in Handlers \cup {None}
  /\ active \subseteq Handlers
  /\ stopping \in BOOLEAN /\ shutdown \in BOOLEAN
  /\ conn \in [Handlers -> {"none", "open", "gone", "closed"}]
  /\ pc \in [Handlers -> {"idle", "tracking", "accepted", "done"} \cup WithCircuit]
  /\ up \in [Handlers -> {"none", "reading", "done"}]
  /\ down \in [Handlers -> {"none", "reading", "writing", "done"}]
  /\ held \in [Handlers -> Data \cup {None}]
  /\ streams \in [StreamIDs -> Handlers \cup {None}]
  /\ nextID \in StreamIDs
  /\ sid \in [Handlers -> 0 .. IdLimit - 1]
  /\ pooled \subseteq Circuits
  /\ circ \in [Handlers -> Circuits \cup {None}]
  /\ \A c \in Circuits : queue[c] \in Seq(Cells) /\ Len(queue[c]) <= QueueCap
  /\ exit \in [Handlers -> {"none", "begun", "open", "asked", "ended"}]
  /\ sent \in [Handlers -> 0 .. MaxData]
  /\ \A h \in Handlers : got[h] \in Seq(Data)
  /\ answer \in [Handlers -> Handlers \cup {None}]

Init ==
  /\ loop = None /\ active = {}
  /\ stopping = FALSE /\ shutdown = FALSE
  /\ conn = [h \in Handlers |-> "none"]
  /\ pc = [h \in Handlers |-> "idle"]
  /\ up = [h \in Handlers |-> "none"]
  /\ down = [h \in Handlers |-> "none"]
  /\ held = [h \in Handlers |-> None]
  /\ streams = [i \in StreamIDs |-> None]
  /\ nextID = 1
  /\ sid = [h \in Handlers |-> 0]
  /\ pooled = Circuits
  /\ circ = [h \in Handlers |-> None]
  /\ queue = [c \in Circuits |-> << >>]
  /\ exit = [h \in Handlers |-> "none"]
  /\ sent = [h \in Handlers |-> 0]
  /\ got = [h \in Handlers |-> << >>]
  /\ answer = [h \in Handlers |-> None]

-----------------------------------------------------------------------------
(* The server.                                                             *)

Accept(h) ==
  /\ pc[h] = "idle"
  /\ loop = None
  /\ ~shutdown
  /\ loop' = h
  /\ conn' = [conn EXCEPT ![h] = "open"]
  /\ pc' = [pc EXCEPT ![h] = "tracking"]
  /\ UNCHANGED <<active, stopping, shutdown, relayVars, streamVars, poolVars,
                 queue, exitVars, clientVars>>

(* acceptLoop looks at the limit under s.mu, after Accept: Shutdown may    *)
(* have closed the connections that were active in between.                *)
TrackConn(h) ==
  /\ loop = h
  /\ loop' = None
  /\ IF Cardinality(active) >= MaxConns
       THEN /\ conn' = [conn EXCEPT ![h] = "closed"]
            /\ pc' = [pc EXCEPT ![h] = "done"]
            /\ UNCHANGED active
       ELSE /\ active' = active \cup {h}
            /\ pc' = [pc EXCEPT ![h] = "accepted"]
            /\ UNCHANGED conn
  /\ UNCHANGED <<stopping, shutdown, relayVars, streamVars, poolVars, queue,
                 exitVars, clientVars>>

Cancel ==
  /\ ~stopping
  /\ stopping' = TRUE
  /\ UNCHANGED <<loop, active, shutdown, conn, pc, relayVars, streamVars,
                 poolVars, queue, exitVars, clientVars>>

Shutdown ==
  /\ stopping
  /\ ~shutdown
  /\ shutdown' = TRUE
  /\ conn' = [h \in Handlers |-> IF h \in active THEN "closed" ELSE conn[h]]
  /\ UNCHANGED <<loop, active, stopping, pc, relayVars, streamVars, poolVars,
                 queue, exitVars, clientVars>>

(* The SOCKS client closes its end.                                        *)
ClientGone(h) ==
  /\ conn[h] = "open"
  /\ conn' = [conn EXCEPT ![h] = "gone"]
  /\ UNCHANGED <<serverVars, pc, relayVars, streamVars, poolVars, queue,
                 exitVars, clientVars>>

-----------------------------------------------------------------------------
(* A handler, until it relays.                                             *)

(* Handshake and request have been read and the pool has given a circuit.  *)
TakeCircuit(h, c) ==
  /\ pc[h] = "accepted"
  /\ c \in pooled
  /\ pooled' = pooled \ {c}
  /\ circ' = [circ EXCEPT ![h] = c]
  /\ \E next \in {"creating", "querying"} : pc' = [pc EXCEPT ![h] = next]
  /\ UNCHANGED <<serverVars, conn, relayVars, streamVars, queue, exitVars, clientVars>>

(* A bad handshake or request, its deadline, or no circuit.                *)
Refuse(h) ==
  /\ pc[h] = "accepted"
  /\ pc' = [pc EXCEPT ![h] = "leaving"]
  /\ UNCHANGED <<serverVars, conn, relayVars, streamVars, poolVars, queue,
                 exitVars, clientVars>>

NextStreamID == IF nextID + 1 = IdLimit THEN 1 ELSE nextID + 1

(* Nothing looks whether the id is still in use.                           *)
CreateStream(h) ==
  /\ pc[h] = "creating"
  /\ streams' = [streams EXCEPT ![nextID] = h]
  /\ sid' = [sid EXCEPT ![h] = nextID]
  /\ nextID' = NextStreamID
  /\ pc' = [pc EXCEPT ![h] = "beginning"]
  /\ UNCHANGED <<serverVars, conn, relayVars, poolVars, queue, exitVars, clientVars>>

(* OpenStream's RELAY_BEGIN: the send may fail.                            *)
SendBegin(h) ==
  /\ pc[h] = "beginning"
  /\ \/ /\ exit' = [exit EXCEPT ![h] = "begun"]
        /\ pc' = [pc EXCEPT ![h] = "opening"]
     \/ pc' = [pc EXCEPT ![h] = "leaving"] /\ UNCHANGED exit
  /\ UNCHANGED <<serverVars, conn, relayVars, streamVars, poolVars, queue, sent, clientVars>>

Pop(c) == queue' = [queue EXCEPT ![c] = Tail(@)]

(* OpenStream takes one cell, whatever it is.                              *)
OpenReceive(h) ==
  /\ pc[h] = "opening"
  /\ queue[circ[h]] # << >>
  /\ Pop(circ[h])
  /\ LET cell == Head(queue[circ[h]])
     IN  IF cell.id = sid[h] /\ cell.cmd = "CONNECTED"
           THEN /\ pc' = [pc EXCEPT ![h] = "relaying"]
                /\ up' = [up EXCEPT ![h] = "reading"]
                /\ down' = [down EXCEPT ![h] = "reading"]
           ELSE pc' = [pc EXCEPT ![h] = "leaving"] /\ UNCHANGED <<up, down>>
  /\ UNCHANGED <<serverVars, conn, held, streamVars, poolVars, exitVars, clientVars>>

(* Mutant: OpenStream's error returns before the calls are deferred.       *)
OpenTimeoutUndeferred(h) ==
  /\ pc[h] = "opening"
  /\ pc' = [pc EXCEPT ![h] = "done"]
  /\ UNCHANGED <<serverVars, conn, relayVars, streamVars, poolVars, queue,
                 exitVars, clientVars>>

(* 30 seconds have passed; the exit is told nothing.                       *)
OpenTimeout(h) ==
  /\ pc[h] = "opening"
  /\ pc' = [pc EXCEPT ![h] = "leaving"]
  /\ UNCHANGED <<serverVars, conn, relayVars, streamVars, poolVars, queue,
                 exitVars, clientVars>>

(* ResolveHostname, ResolveIP: a query on stream 0 ...                     *)
SendResolve(h) ==
  /\ pc[h] = "querying"
  /\ \/ /\ exit' = [exit EXCEPT ![h] = "asked"]
        /\ pc' = [pc EXCEPT ![h] = "resolving"]
     \/ pc' = [pc EXCEPT ![h] = "leaving"] /\ UNCHANGED exit
  /\ UNCHANGED <<serverVars, conn, relayVars, streamVars, poolVars, queue, sent, clientVars>>

(* ... answered by the next cell of the circuit, if it is a RESOLVED.      *)
ResolveReceive(h) ==
  /\ pc[h] = "resolving"
  /\ queue[circ[h]] # << >>
  /\ Pop(circ[h])
  /\ LET cell == Head(queue[circ[h]])
     IN  answer' = [answer EXCEPT ![h] = IF cell.cmd = "RESOLVED" THEN cell.of ELSE @]
  /\ pc' = [pc EXCEPT ![h] = "leaving"]
  /\ UNCHANGED <<serverVars, conn, relayVars, streamVars, poolVars, exitVars, got>>

(* DNSTimeout, or the server's context.                                    *)
ResolveTimeout(h) ==
  /\ pc[h] = "resolving"
  /\ pc' = [pc EXCEPT ![h] = "leaving"]
  /\ UNCHANGED <<serverVars, conn, relayVars, streamVars, poolVars, queue,
                 exitVars, clientVars>>

-----------------------------------------------------------------------------
(* A handler that relays.                                                  *)

(* EndStream, whose send may fail.                                         *)
EndStream(h) ==
  \/ exit' = [exit EXCEPT ![h] = "ended"]
  \/ UNCHANGED exit

(* `up' reads the end of the connection, or nothing for five minutes.      *)
UpEnds(h) ==
  /\ up[h] = "reading"
  /\ up' = [up EXCEPT ![h] = "done"]
  /\ EndStream(h)
  /\ UNCHANGED <<serverVars, conn, pc, down, held, streamVars, poolVars, queue,
                 sent, clientVars>>

(* WriteToStream fails: the exit is told nothing.                          *)
UpFails(h) ==
  /\ up[h] = "reading"
  /\ up' = [up EXCEPT ![h] = "done"]
  /\ UNCHANGED <<serverVars, conn, pc, down, held, streamVars, poolVars, queue,
                 exitVars, clientVars>>

(* Mutant: END is skipped like an unexpected command.                      *)
DownSkipsEnd(h) ==
  /\ down[h] = "reading"
  /\ queue[circ[h]] # << >>
  /\ Pop(circ[h])
  /\ LET cell == Head(queue[circ[h]])
     IN  IF cell.id = sid[h] /\ cell.cmd = "DATA"
           THEN /\ held' = [held EXCEPT ![h] = [of |-> cell.of, n |-> cell.n]]
                /\ down' = [down EXCEPT ![h] = "writing"]
           ELSE UNCHANGED <<held, down>>
  /\ UNCHANGED <<serverVars, conn, pc, up, streamVars, poolVars, exitVars, clientVars>>

(* ReadFromStream: cells of other streams are skipped.                     *)
DownReads(h) ==
  /\ down[h] = "reading"
  /\ queue[circ[h]] # << >>
  /\ Pop(circ[h])
  /\ LET cell == Head(queue[circ[h]])
     IN  \/ /\ cell.id = sid[h] /\ cell.cmd = "DATA"
            /\ held' = [held EXCEPT ![h] = [of |-> cell.of, n |-> cell.n]]
            /\ down' = [down EXCEPT ![h] = "writing"]
            /\ UNCHANGED conn
         \/ /\ cell.id = sid[h] /\ cell.cmd = "END"
            /\ conn' = [conn EXCEPT ![h] = "closed"]
            /\ down' = [down EXCEPT ![h] = "done"]
            /\ UNCHANGED held
         \/ /\ cell.id # sid[h] \/ cell.cmd \notin {"DATA", "END"}
            /\ UNCHANGED <<conn, held, down>>
  /\ UNCHANGED <<serverVars, pc, up, streamVars, poolVars, exitVars, clientVars>>

(* Mutant: on an error `down' leaves the connection to `up'.               *)
DownCancelledQuietly(h) ==
  /\ down[h] = "reading"
  /\ stopping
  /\ down' = [down EXCEPT ![h] = "done"]
  /\ UNCHANGED <<serverVars, conn, pc, up, held, streamVars, poolVars, queue, exitVars,
                 clientVars>>

DownCancelled(h) ==
  /\ down[h] = "reading"
  /\ stopping
  /\ conn' = [conn EXCEPT ![h] = "closed"]
  /\ down' = [down EXCEPT ![h] = "done"]
  /\ UNCHANGED <<serverVars, pc, up, held, streamVars, poolVars, queue, exitVars,
                 clientVars>>

(* The write has no deadline: it may wait for ever for a client that stays *)
(* and does not read.  To a client that has gone it may still succeed.     *)
DownWrites(h) ==
  /\ down[h] = "writing"
  /\ held' = [held EXCEPT ![h] = None]
  /\ \/ /\ conn[h] # "closed"
        /\ got' = [got EXCEPT ![h] = Append(@, held[h])]
        /\ down' = [down EXCEPT ![h] = "reading"]
        /\ UNCHANGED exit
     \/ /\ conn[h] # "open"
        /\ down' = [down EXCEPT ![h] = "done"]
        /\ EndStream(h)
        /\ UNCHANGED got
  /\ UNCHANGED <<serverVars, conn, pc, up, streamVars, poolVars, queue, sent, answer>>

Join(h) ==
  /\ pc[h] = "relaying"
  /\ up[h] = "done" /\ down[h] = "done"
  /\ pc' = [pc EXCEPT ![h] = "leaving"]
  /\ UNCHANGED <<serverVars, conn, relayVars, streamVars, poolVars, queue,
                 exitVars, clientVars>>

(* The deferred calls: RemoveStream, Put, Close and delete(activeConns).   *)
Leave(h) ==
  /\ pc[h] = "leaving"
  /\ pc' = [pc EXCEPT ![h] = "done"]
  /\ streams' = [i \in StreamIDs |-> IF i = sid[h] THEN None ELSE streams[i]]
  /\ pooled' = pooled \cup ({circ[h]} \ {None})
  /\ conn' = [conn EXCEPT ![h] = "closed"]
  /\ active' = active \ {h}
  /\ UNCHANGED <<loop, stopping, shutdown, relayVars, nextID, sid, circ, queue,
                 exitVars, clientVars>>

-----------------------------------------------------------------------------
(* The exit, and the delivery of its cells: DeliverRelayCell waits 100 ms  *)
(* for room in the queue and then drops the cell.                          *)

(* Mutant: a goroutine for each cell waits for room, and a later one gets  *)
(* it first.                                                               *)
DeliverOvertaking(h, cmd, n) ==
  LET c == circ[h]
      cell == [id |-> sid[h], cmd |-> cmd, of |-> h, n |-> n]
  IN  queue' = [queue EXCEPT ![c] = IF Len(@) < QueueCap THEN <<cell>> \o @ ELSE @]

Deliver(h, cmd, n) ==
  LET c == circ[h]
      cell == [id |-> sid[h], cmd |-> cmd, of |-> h, n |-> n]
  IN  queue' = [queue EXCEPT ![c] = IF Len(@) < QueueCap THEN Append(@, cell) ELSE @]

exitUnchanged == <<serverVars, conn, pc, relayVars, streamVars, poolVars, clientVars>>

ExitConnects(h) ==
  /\ exit[h] = "begun"
  /\ exit' = [exit EXCEPT ![h] = "open"]
  /\ Deliver(h, "CONNECTED", 0)
  /\ UNCHANGED <<sent, exitUnchanged>>

ExitSendsData(h) ==
  /\ exit[h] = "open"
  /\ sent[h] < MaxData
  /\ sent' = [sent EXCEPT ![h] = @ + 1]
  /\ Deliver(h, "DATA", sent[h] + 1)
  /\ UNCHANGED <<exit, exitUnchanged>>

ExitEnds(h) ==
  /\ exit[h] \in {"begun", "open"}
  /\ exit' = [exit EXCEPT ![h] = "ended"]
  /\ Deliver(h, "END", 0)
  /\ UNCHANGED <<sent, exitUnchanged>>

ExitResolves(h) ==
  /\ exit[h] = "asked"
  /\ exit' = [exit EXCEPT ![h] = "ended"]
  /\ Deliver(h, "RESOLVED", 0)
  /\ UNCHANGED <<sent, exitUnchanged>>

-----------------------------------------------------------------------------
Setup(h) ==
  \/ TrackConn(h) \/ Refuse(h) \/ \E c \in Circuits : TakeCircuit(h, c)
  \/ CreateStream(h) \/ SendBegin(h) \/ OpenReceive(h) \/ OpenTimeout(h)
  \/ SendResolve(h) \/ ResolveReceive(h) \/ ResolveTimeout(h)

Next ==
  \/ Cancel \/ Shutdown
  \/ \E h \in Handlers :
       \/ Accept(h) \/ TrackConn(h) \/ ClientGone(h) \/ Refuse(h)
       \/ CreateStream(h) \/ SendBegin(h) \/ OpenReceive(h) \/ OpenTimeout(h)
       \/ SendResolve(h) \/ ResolveReceive(h) \/ ResolveTimeout(h)
       \/ UpEnds(h) \/ UpFails(h) \/ DownReads(h) \/ DownCancelled(h)
       \/ DownWrites(h) \/ Join(h) \/ Leave(h)
       \/ ExitConnects(h) \/ ExitSendsData(h) \/ ExitEnds(h) \/ ExitResolves(h)
  \/ \E h \in Handlers, c \in Circuits : TakeCircuit(h, c)

Spec == Init /\ [][Next]_vars

(* Goroutines that can run do; every wait of the set-up has a timeout.     *)
(* Read and Write of the connection are only sure to return when it is no  *)
(* longer open: a client that keeps sending never meets the five minutes,  *)
(* and one that does not read keeps Write waiting.  The select of          *)
(* ReceiveRelayCell picks among its ready cases at random, so a cancelled  *)
(* context is not passed over for ever: strong fairness.  Nothing is       *)
(* assumed of clients, of exits or of whoever calls Stop.                  *)
Fairness ==
  /\ WF_vars(Shutdown)
  /\ \A h \in Handlers :
       /\ WF_vars(Setup(h))
       /\ WF_vars(conn[h] # "open" /\ UpEnds(h))
       /\ WF_vars(conn[h] # "open" /\ DownWrites(h))
       /\ WF_vars(DownReads(h)) /\ SF_vars(DownCancelled(h))
       /\ WF_vars(Join(h)) /\ WF_vars(Leave(h))

FairSpec == Spec /\ Fairness

-----------------------------------------------------------------------------
(* Properties.                                                             *)

(* What is written to a SOCKS client is of its own stream, or of a stream  *)
(* that had the same circuit and the same id before ids came round again:  *)
(* no other left-over cell of an earlier user of the circuit gets through. *)
(* A cell is written once, to one client, and after the cells of its       *)
(* stream that this client got before it (circuit.go:965-992).             *)
OwnDataInOrder ==
  \A h \in Handlers : \A i \in DOMAIN got[h] :
    LET d == got[h][i]
    IN  /\ circ[d.of] = circ[h] /\ sid[d.of] = sid[h]
        /\ \A g \in Handlers : \A j \in DOMAIN got[g] : got[g][j].of = d.of =>
             /\ g # h => got[g][j].n # d.n
             /\ g = h /\ j < i => got[g][j].n < d.n

(* Whatever way a handler ends, it leaves nothing behind: circuits are in  *)
(* the pool or with exactly one handler, registered streams and tracked    *)
(* connections belong to running handlers, also when stream ids have       *)
(* wrapped and entries were overwritten (socks.go:224-230, 388, 418).      *)
NothingLeaks ==
  /\ \A c \in Circuits :
       Cardinality({h \in Handlers : circ[h] = c /\ pc[h] \in WithCircuit})
         = (IF c \in pooled THEN 0 ELSE 1)
  /\ \A i \in StreamIDs : streams[i] # None =>
       pc[streams[i]] \in WithStream \cup {"leaving"} /\ sid[streams[i]] = i
  /\ active = {h \in Handlers : pc[h] \in WithCircuit \cup {"accepted"}}

(* `down' waits in Write for a client that stays and does not read.        *)
Stalled(h) == down[h] = "writing" /\ conn[h] = "open"
TakesItsData(h) == []<>~Stalled(h)

(* Shutdown ends every connection, also one that was accepted before it    *)
(* and tracked after it, which it does not close: the cancelled context    *)
(* reaches that one.  What it closes ends even if its client has stopped   *)
(* reading; the one it missed ends unless its client never takes what is   *)
(* written to it (socks.go:167-220, 773-785, 789, 812-839).                *)
ShutdownDrains ==
  \A h \in Handlers : TakesItsData(h) => (shutdown ~> pc[h] \in {"idle", "done"})

(* An END the exit sent on an open stream ends the connection, whatever    *)
(* the two goroutines are doing, unless `down' waits for ever for the      *)
(* client to take the data before it (socks.go:773-789).                   *)
EndReachesClient ==
  \A h \in Handlers :
    TakesItsData(h) =>
      ((pc[h] = "relaying" /\ \E i \in DOMAIN queue[circ[h]] :
          queue[circ[h]][i].cmd = "END" /\ queue[circ[h]][i].of = h)
         ~> pc[h] = "done")

(* dns.go:45, "ResolveHostname resolves a hostname to IP addresses through *)
(* the circuit": the answer given is to the query that was asked.          *)
AnswersOwnQuery == \A h \in Handlers : answer[h] \in {h, None}
=============================================================================
