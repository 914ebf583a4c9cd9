-------------------------- MODULE SocksRelayProofs --------------------------
(***************************************************************************)
(* Handlers leave nothing behind, and clients get the data of their own    *)
(* stream in order, for any connections, circuits, stream ids, limits and  *)
(* queues.                                                                 *)
(***************************************************************************)
EXTENDS RelayedStreams, FiniteSetTheorems, TLAPS

(* Before Early ends, a handler has nothing to do with the exit.           *)
Early == {"idle", "tracking", "accepted", "creating", "beginning", "querying"}
Places == Early \cup {"done"} \cup WithCircuit
Settled(h) == pc[h] \notin Early

Datum == [of : Handlers, n : Nat]
Cell  == [id : Nat, cmd : {"CONNECTED", "DATA", "END", "RESOLVED"}, of : Handlers, n : Nat]

(* Where a handler is, and what it has by then.                            *)
HandlersTyped ==
  /\ pc \in [Handlers -> Places]
  /\ up \in [Handlers -> {"none", "reading", "done"}]
  /\ down \in [Handlers -> {"none", "reading", "writing", "done"}]
  /\ DOMAIN exit = Handlers
  /\ circ \in [Handlers -> Circuits \cup {None}]
  /\ sid \in [Handlers -> Nat]
  /\ \A h \in Handlers :
       /\ pc[h] \in Early => up[h] = "none" /\ down[h] = "none" /\ exit[h] = "none"
       /\ up[h] = "reading" \/ down[h] \in {"reading", "writing"} => pc[h] = "relaying"
       /\ pc[h] \in {"idle", "tracking", "accepted"} => circ[h] = None
       /\ pc[h] \in WithCircuit \ {"leaving"} => circ[h] \in Circuits

Holds(h, c) == circ[h] = c /\ pc[h] \in WithCircuit

CircuitsHeld ==
  /\ pooled \subseteq Circuits
  /\ \A c \in Circuits : c \in pooled <=> \A h \in Handlers : ~Holds(h, c)
  /\ \A c \in Circuits, g, h \in Handlers : Holds(g, c) /\ Holds(h, c) => g = h

StreamsKnown ==
  /\ DOMAIN streams = StreamIDs /\ nextID \in StreamIDs
  /\ \A i \in StreamIDs : streams[i] # None =>
       /\ streams[i] \in Handlers
       /\ pc[streams[i]] \in WithStream \cup {"leaving"} /\ sid[streams[i]] = i

ActiveKnown ==
  /\ active = {h \in Handlers : pc[h] \in WithCircuit \cup {"accepted"}}
  /\ loop # None => loop \in Handlers /\ pc[loop] = "tracking"

LeaksInv == HandlersTyped /\ CircuitsHeld /\ StreamsKnown /\ ActiveKnown
-----------------------------------------------------------------------------
(* Data on its way.                                                        *)

DataTyped ==
  /\ queue \in [Circuits -> Seq(Cell)]
  /\ sent \in [Handlers -> Nat]
  /\ DOMAIN held = Handlers
  /\ got \in [Handlers -> Seq(Datum)]

(* d comes from a stream that h cannot tell from its own.                  *)
ForStreamOf(h, d) ==
  /\ Settled(h) /\ Settled(d.of)
  /\ circ[d.of] = circ[h] /\ sid[d.of] = sid[h]
  /\ d.n <= sent[d.of]

(* What is still in a queue was sent later.                                *)
Later(d, cell) == cell.cmd = "DATA" /\ cell.of = d.of => d.n < cell.n
AheadOfQueues(d) == \A c \in Circuits : \A i \in DOMAIN queue[c] : Later(d, queue[c][i])

CellPlaced(c, cell) ==
  /\ Settled(cell.of) /\ circ[cell.of] = c /\ cell.id = sid[cell.of]
  /\ cell.cmd = "DATA" => cell.n <= sent[cell.of]
QueuedInOrder ==
  \A c \in Circuits : \A i \in DOMAIN queue[c] :
    /\ CellPlaced(c, queue[c][i])
    /\ queue[c][i].cmd = "DATA" => \A j \in i + 1 .. Len(queue[c]) : Later(queue[c][i], queue[c][j])

HeldInOrder ==
  \A h \in Handlers : down[h] = "writing" =>
    /\ held[h] \in Datum
    /\ ForStreamOf(h, held[h]) /\ AheadOfQueues(held[h])
    /\ \A i \in DOMAIN got[h] : got[h][i].of = held[h].of => got[h][i].n < held[h].n

GotInOrder ==
  \A h \in Handlers : \A i \in DOMAIN got[h] :
    /\ ForStreamOf(h, got[h][i]) /\ AheadOfQueues(got[h][i])
    /\ \A j \in i + 1 .. Len(got[h]) : got[h][i].of = got[h][j].of => got[h][i].n < got[h][j].n

DataInv == DataTyped /\ QueuedInOrder /\ HeldInOrder /\ GotInOrder
-----------------------------------------------------------------------------
(* Where handlers are.                                                     *)

(* The types hold in the first state.                                      *)
LEMMA HandlersTypedInit == Init => HandlersTyped
BY DEF Init, HandlersTyped, Early, Places, WithCircuit, WithStream

(* One case for each place a handler can leave or be in.                   *)
LEMMA HandlersTypedStep ==
  ASSUME HandlersTyped, StreamsKnown, ActiveKnown, [Next]_vars
  PROVE  HandlersTyped'
<1> USE DEF HandlersTyped, Early, Places, WithCircuit, WithStream
<1>1. CASE Cancel \/ Shutdown \/ UNCHANGED vars
  BY <1>1 DEF Cancel, Shutdown, vars, relayVars, streamVars, poolVars, exitVars
<1>2. ASSUME NEW h \in Handlers, Accept(h) \/ TrackConn(h)
      PROVE  HandlersTyped'
  <2>1. /\ \E there \in {"tracking", "accepted", "done"} : pc' = [pc EXCEPT ![h] = there]
        /\ UNCHANGED <<up, down, exit, circ, sid>>
    BY <1>2 DEF Accept, TrackConn, relayVars, streamVars, poolVars, exitVars
  <2>2. pc[h] \in {"idle", "tracking"}
    BY <1>2, HandlersAssumption DEF Accept, TrackConn, ActiveKnown
  <2>3. QED
    BY <2>1, <2>2
<1>3. ASSUME NEW h \in Handlers, NEW c \in Circuits, TakeCircuit(h, c)
      PROVE  HandlersTyped'
  BY <1>3 DEF TakeCircuit, relayVars, streamVars, exitVars
<1>4. ASSUME NEW h \in Handlers, ClientGone(h) \/ Refuse(h) \/ OpenTimeout(h) \/ ResolveTimeout(h)
      PROVE  HandlersTyped'
  BY <1>4 DEF ClientGone, Refuse, OpenTimeout, ResolveTimeout, relayVars, streamVars, poolVars, exitVars
<1>5. ASSUME NEW h \in Handlers, CreateStream(h)
      PROVE  HandlersTyped'
  <2>1. nextID \in Nat
    BY IdLimitAssumption DEF StreamsKnown, StreamIDs
  <2>2. QED
    BY <1>5, <2>1 DEF CreateStream, relayVars, poolVars, exitVars
<1>6. ASSUME NEW h \in Handlers, SendBegin(h) \/ SendResolve(h)
      PROVE  HandlersTyped'
  BY <1>6 DEF SendBegin, SendResolve, relayVars, streamVars, poolVars
<1>7. ASSUME NEW h \in Handlers, OpenReceive(h) \/ ResolveReceive(h)
      PROVE  HandlersTyped'
  <2>1. CASE OpenReceive(h)
    <3>1. /\ pc[h] = "opening" /\ UNCHANGED <<exit, circ, sid>>
          /\ \/ /\ pc' = [pc EXCEPT ![h] = "relaying"]
                /\ up' = [up EXCEPT ![h] = "reading"]
                /\ down' = [down EXCEPT ![h] = "reading"]
             \/ pc' = [pc EXCEPT ![h] = "leaving"] /\ UNCHANGED <<up, down>>
      BY <2>1 DEF OpenReceive, streamVars, poolVars, exitVars
    <3>2. QED
      BY <3>1
  <2>2. CASE ResolveReceive(h)
    BY <2>2 DEF ResolveReceive, relayVars, streamVars, poolVars, exitVars
  <2>3. QED
    BY <1>7, <2>1, <2>2
<1>8. ASSUME NEW h \in Handlers, UpEnds(h) \/ UpFails(h)
      PROVE  HandlersTyped'
  BY <1>8 DEF UpEnds, UpFails, EndStream, streamVars, poolVars, exitVars
<1>9. ASSUME NEW h \in Handlers, DownReads(h) \/ DownCancelled(h) \/ DownWrites(h)
      PROVE  HandlersTyped'
  <2>1. /\ UNCHANGED <<pc, up, circ, sid>> /\ down[h] \in {"reading", "writing"}
        /\ down' = down \/ \E there \in {"reading", "writing", "done"} : down' = [down EXCEPT ![h] = there]
    <3>1. CASE DownReads(h)
      BY <3>1 DEF DownReads, streamVars, poolVars
    <3>2. CASE DownCancelled(h) \/ DownWrites(h)
      BY <3>2 DEF DownCancelled, DownWrites, streamVars, poolVars
    <3>3. QED
      BY <1>9, <3>1, <3>2
  <2>2. exit' = exit \/ exit' = [exit EXCEPT ![h] = "ended"]
    BY <1>9 DEF DownReads, DownCancelled, DownWrites, EndStream, exitVars
  <2>3. QED
    BY <2>1, <2>2
<1>10. ASSUME NEW h \in Handlers, Join(h) \/ Leave(h)
       PROVE  HandlersTyped'
  BY <1>10 DEF Join, Leave, relayVars, streamVars, poolVars, exitVars
<1>11. ASSUME NEW h \in Handlers, ExitConnects(h) \/ ExitSendsData(h) \/ ExitEnds(h) \/ ExitResolves(h)
       PROVE  HandlersTyped'
  BY <1>11 DEF ExitConnects, ExitSendsData, ExitEnds, ExitResolves, exitUnchanged, relayVars, streamVars,
       poolVars
<1> HIDE DEF HandlersTyped, Early, Places, WithCircuit, WithStream
<1>12. QED
  BY <1>1, <1>2, <1>3, <1>4, <1>5, <1>6, <1>7, <1>8, <1>9, <1>10, <1>11 DEF Next

(* All but a few steps leave handlers with the circuit and the stream that *)
(* they have.                                                              *)
Inside ==
  /\ UNCHANGED <<active, loop, streams, nextID, sid, pooled, circ>>
  /\ DOMAIN pc' = Handlers
  /\ \A h \in Handlers : pc'[h] = pc[h] \/
       /\ pc[h] \in WithCircuit \ {"leaving"} /\ pc'[h] \in WithCircuit
       /\ pc[h] \in WithStream => pc'[h] \in WithStream \cup {"leaving"}
       /\ pc'[h] \notin Early

(* A handler moves between the phases of a connection only in these steps. *)
LEMMA Moves ==
  ASSUME HandlersTyped, [Next]_vars
  PROVE  Inside \/ \E h \in Handlers :
           \/ Accept(h) \/ TrackConn(h) \/ Refuse(h) \/ CreateStream(h) \/ Leave(h)
           \/ \E c \in Circuits : TakeCircuit(h, c)
<1> USE DEF Inside, HandlersTyped
<1>1. CASE Cancel \/ Shutdown \/ UNCHANGED vars
  BY <1>1 DEF Cancel, Shutdown, vars, serverVars, streamVars, poolVars
<1>2. ASSUME NEW h \in Handlers, ClientGone(h) \/ UpEnds(h) \/ UpFails(h)
      PROVE  Inside
  BY <1>2 DEF ClientGone, UpEnds, UpFails, serverVars, streamVars, poolVars
<1>3. ASSUME NEW h \in Handlers, DownReads(h) \/ DownCancelled(h) \/ DownWrites(h)
      PROVE  Inside
  BY <1>3 DEF DownReads, DownCancelled, DownWrites, serverVars, streamVars, poolVars
<1>4. ASSUME NEW h \in Handlers, ExitConnects(h) \/ ExitSendsData(h) \/ ExitEnds(h) \/ ExitResolves(h)
      PROVE  Inside
  BY <1>4 DEF ExitConnects, ExitSendsData, ExitEnds, ExitResolves, exitUnchanged, serverVars, streamVars,
       poolVars
<1>5. ASSUME NEW h \in Handlers,
             \/ SendBegin(h) \/ OpenReceive(h) \/ OpenTimeout(h)
             \/ SendResolve(h) \/ ResolveReceive(h) \/ ResolveTimeout(h) \/ Join(h)
      PROVE  Inside
  <2>1. /\ UNCHANGED <<active, loop, streams, nextID, sid, pooled, circ>>
        /\ \/ /\ pc[h] \in WithStream
              /\ \E there \in {"opening", "relaying", "leaving"} : pc' = [pc EXCEPT ![h] = there]
           \/ /\ pc[h] \in {"querying", "resolving"}
              /\ \E there \in {"resolving", "leaving"} : pc' = [pc EXCEPT ![h] = there]
    <3> USE DEF WithStream
    <3>1. CASE SendBegin(h) \/ OpenTimeout(h) \/ Join(h)
      BY <3>1 DEF SendBegin, OpenTimeout, Join, serverVars, streamVars, poolVars
    <3>2. CASE OpenReceive(h)
      BY <3>2 DEF OpenReceive, serverVars, streamVars, poolVars
    <3>3. CASE SendResolve(h) \/ ResolveReceive(h) \/ ResolveTimeout(h)
      BY <3>3 DEF SendResolve, ResolveReceive, ResolveTimeout, serverVars, streamVars, poolVars
    <3>4. QED
      BY <1>5, <3>1, <3>2, <3>3
  <2>2. QED
    BY <2>1 DEF WithCircuit, WithStream, Early
<1>6. QED
  BY <1>1, <1>2, <1>3, <1>4, <1>5 DEF Next

(* After every step a circuit is in the pool or with one handler.          *)
LEMMA CircuitsHeldStep ==
  ASSUME HandlersTyped, CircuitsHeld, ActiveKnown, [Next]_vars
  PROVE  CircuitsHeld'
<1> USE DEF CircuitsHeld
<1>1. CASE Inside
  <2>1. \A h \in Handlers, c \in Circuits : Holds(h, c)' <=> Holds(h, c)
    BY <1>1 DEF Inside, Holds, WithCircuit, WithStream
  <2>2. QED
    BY <1>1, <2>1 DEF Inside
<1>2. ASSUME NEW h \in Handlers, Accept(h) \/ TrackConn(h) \/ Refuse(h) \/ CreateStream(h)
      PROVE  CircuitsHeld'
  <2>1. /\ UNCHANGED <<pooled, circ>> /\ \A g \in Handlers \ {h} : pc'[g] = pc[g]
        /\ \/ pc[h] \in {"idle", "tracking"} /\ pc'[h] \in {"tracking", "accepted", "done"}
           \/ pc[h] = "accepted" /\ pc'[h] = "leaving"
           \/ pc[h] = "creating" /\ pc'[h] = "beginning"
    BY <1>2, HandlersAssumption
       DEF HandlersTyped, ActiveKnown, Accept, TrackConn, Refuse, CreateStream, poolVars
  <2>2. pc[h] = "accepted" => circ[h] = None
    BY DEF HandlersTyped
  <2>3. \A g \in Handlers, c \in Circuits : Holds(g, c)' <=> Holds(g, c)
    BY <2>1, <2>2, HandlersAssumption DEF Holds, WithCircuit, WithStream
  <2>4. QED
    BY <2>1, <2>3
<1>3. ASSUME NEW h \in Handlers, NEW c \in Circuits, TakeCircuit(h, c)
      PROVE  CircuitsHeld'
  <2>1. /\ pc[h] = "accepted" /\ c \in pooled /\ pooled' = pooled \ {c}
        /\ pc'[h] \in {"creating", "querying"} /\ circ'[h] = c
        /\ \A g \in Handlers \ {h} : pc'[g] = pc[g] /\ circ'[g] = circ[g]
    BY <1>3 DEF TakeCircuit, HandlersTyped
  <2>2. \A g \in Handlers, d \in Circuits : Holds(g, d)' <=> Holds(g, d) \/ (g = h /\ d = c)
    BY <2>1 DEF Holds, WithCircuit, WithStream
  <2>3. QED
    BY <2>1, <2>2
<1>4. ASSUME NEW h \in Handlers, Leave(h)
      PROVE  CircuitsHeld'
  <2>1. /\ pc[h] = "leaving" /\ pc'[h] = "done" /\ circ' = circ
        /\ pooled' = pooled \cup ({circ[h]} \ {None})
        /\ \A g \in Handlers \ {h} : pc'[g] = pc[g]
    BY <1>4 DEF Leave, HandlersTyped
  <2>2. \A g \in Handlers, d \in Circuits : Holds(g, d)' <=> Holds(g, d) /\ g # h
    BY <2>1 DEF Holds, WithCircuit, WithStream
  <2>3. \A d \in Circuits : Holds(h, d) <=> circ[h] = d
    BY <2>1 DEF Holds, WithCircuit
  <2>4. circ[h] \in Circuits \cup {None}
    BY DEF HandlersTyped
  <2>5. pooled' \subseteq Circuits
    BY <2>1, <2>4
  <2>6. \A d \in Circuits : d \in pooled' <=> \A g \in Handlers : ~Holds(g, d)'
    BY <2>1, <2>2, <2>3, HandlersAssumption
  <2>7. QED
    BY <2>2, <2>5, <2>6
<1>5. QED
  BY <1>1, <1>2, <1>3, <1>4, Moves

(* After every step a known stream is that of a handler that has not left. *)
LEMMA StreamsKnownStep ==
  ASSUME HandlersTyped, StreamsKnown, ActiveKnown, [Next]_vars
  PROVE  StreamsKnown'
<1> USE DEF StreamsKnown
<1>1. CASE Inside
  BY <1>1 DEF Inside, WithCircuit, WithStream
<1>2. ASSUME NEW h \in Handlers,
             Accept(h) \/ TrackConn(h) \/ Refuse(h) \/ \E c \in Circuits : TakeCircuit(h, c)
      PROVE  StreamsKnown'
  <2>1. /\ UNCHANGED <<streams, nextID, sid>> /\ \A g \in Handlers \ {h} : pc'[g] = pc[g]
        /\ pc[h] \in {"idle", "tracking", "accepted"}
    BY <1>2, HandlersAssumption
       DEF HandlersTyped, ActiveKnown, Accept, TrackConn, Refuse, TakeCircuit, streamVars
  <2>2. QED
    BY <2>1 DEF WithStream
<1>3. ASSUME NEW h \in Handlers, CreateStream(h)
      PROVE  StreamsKnown'
  <2>1. /\ pc[h] = "creating" /\ pc'[h] = "beginning" /\ \A g \in Handlers \ {h} : pc'[g] = pc[g]
        /\ sid'[h] = nextID /\ \A g \in Handlers \ {h} : sid'[g] = sid[g]
        /\ DOMAIN streams' = StreamIDs /\ streams'[nextID] = h
        /\ \A i \in StreamIDs \ {nextID} : streams'[i] = streams[i]
    BY <1>3 DEF CreateStream, HandlersTyped
  <2>2. nextID' \in StreamIDs
    BY <1>3, IdLimitAssumption DEF CreateStream, NextStreamID, StreamIDs
  <2>3. \A i \in StreamIDs : streams[i] # h
    BY <2>1, HandlersAssumption DEF WithStream
  <2>4. QED
    BY <2>1, <2>2, <2>3 DEF WithStream
<1>4. ASSUME NEW h \in Handlers, Leave(h)
      PROVE  StreamsKnown'
  <2>1. /\ pc[h] = "leaving" /\ \A g \in Handlers \ {h} : pc'[g] = pc[g]
        /\ streams' = [i \in StreamIDs |-> IF i = sid[h] THEN None ELSE streams[i]]
        /\ UNCHANGED <<nextID, sid>>
    BY <1>4 DEF Leave, HandlersTyped
  <2>2. QED
    BY <2>1
<1>5. QED
  BY <1>1, <1>2, <1>3, <1>4, Moves

(* After every step the active connections are those of handlers.          *)
LEMMA ActiveKnownStep ==
  ASSUME HandlersTyped, ActiveKnown, [Next]_vars
  PROVE  ActiveKnown'
<1> USE DEF ActiveKnown
<1>1. CASE Inside
  BY <1>1, HandlersAssumption DEF Inside, WithCircuit, WithStream
<1>2. ASSUME NEW h \in Handlers, Accept(h)
      PROVE  ActiveKnown'
  BY <1>2 DEF Accept, HandlersTyped, WithCircuit, WithStream
<1>3. ASSUME NEW h \in Handlers, TrackConn(h)
      PROVE  ActiveKnown'
  <2>1. /\ pc[h] = "tracking" /\ loop' = None /\ \A g \in Handlers \ {h} : pc'[g] = pc[g]
        /\ \/ pc'[h] = "done" /\ active' = active
           \/ pc'[h] = "accepted" /\ active' = active \cup {h}
    BY <1>3, HandlersAssumption DEF TrackConn, HandlersTyped
  <2>2. QED
    BY <2>1 DEF WithCircuit, WithStream
<1>4. ASSUME NEW h \in Handlers,
             Refuse(h) \/ CreateStream(h) \/ \E c \in Circuits : TakeCircuit(h, c)
      PROVE  ActiveKnown'
  <2>1. /\ UNCHANGED <<active, loop>> /\ \A g \in Handlers \ {h} : pc'[g] = pc[g]
        /\ pc[h] \in {"accepted", "creating"}
        /\ pc'[h] \in {"leaving", "beginning", "creating", "querying"}
    BY <1>4 DEF HandlersTyped, Refuse, CreateStream, TakeCircuit, serverVars
  <2>2. QED
    BY <2>1, HandlersAssumption DEF WithCircuit, WithStream
<1>5. ASSUME NEW h \in Handlers, Leave(h)
      PROVE  ActiveKnown'
  <2>1. /\ active' = active \ {h} /\ loop' = loop /\ \A g \in Handlers \ {h} : pc'[g] = pc[g]
        /\ pc[h] = "leaving" /\ pc'[h] = "done"
    BY <1>5 DEF HandlersTyped, Leave
  <2>2. QED
    BY <2>1, HandlersAssumption DEF WithCircuit, WithStream
<1>6. QED
  BY <1>1, <1>2, <1>3, <1>4, <1>5, Moves

(* The invariant holds before the first connection.                        *)
LEMMA InitLeaksInv == Init => LeaksInv
<1> SUFFICES ASSUME Init PROVE CircuitsHeld /\ StreamsKnown /\ ActiveKnown
  BY HandlersTypedInit DEF LeaksInv
<1>1. /\ \A h \in Handlers : pc[h] = "idle"
      /\ pooled = Circuits /\ active = {} /\ loop = None /\ nextID = 1
      /\ streams = [i \in StreamIDs |-> None]
  BY DEF Init
<1>2. 1 \in StreamIDs
  BY IdLimitAssumption DEF StreamIDs
<1>3. QED
  BY <1>1, <1>2
     DEF CircuitsHeld, StreamsKnown, ActiveKnown, Holds, WithCircuit, WithStream

(* The invariant is inductive.                                             *)
LEMMA LeaksStep == LeaksInv /\ [Next]_vars => LeaksInv'
BY HandlersTypedStep, CircuitsHeldStep, StreamsKnownStep, ActiveKnownStep DEF LeaksInv

(* Whatever way a handler ends, its circuit is back in the pool and its    *)
(* stream and connection are no longer registered, for any connections,    *)
(* circuits, limits and stream ids, also when these have wrapped           *)
(* (socks.go:224-230, 388, 418).                                           *)
THEOREM NothingEverLeaks == Spec => []NothingLeaks
<1>1. LeaksInv => NothingLeaks
  <2> SUFFICES ASSUME LeaksInv PROVE NothingLeaks
    OBVIOUS
  <2>1. ASSUME NEW c \in Circuits
        PROVE  Cardinality({h \in Handlers : circ[h] = c /\ pc[h] \in WithCircuit})
                 = (IF c \in pooled THEN 0 ELSE 1)
    <3> DEFINE H == {h \in Handlers : circ[h] = c /\ pc[h] \in WithCircuit}
    <3>1. \A h \in Handlers : h \in H <=> Holds(h, c)
      BY DEF Holds
    <3>2. CASE c \in pooled
      <4>1. H = {}
        BY <3>1, <3>2 DEF LeaksInv, CircuitsHeld
      <4>2. QED
        BY <3>2, <4>1, FS_EmptySet
    <3>3. CASE c \notin pooled
      <4>1. PICK h \in Handlers : Holds(h, c)
        BY <3>3 DEF LeaksInv, CircuitsHeld
      <4>2. H = {h}
        BY <3>1, <4>1 DEF LeaksInv, CircuitsHeld
      <4>3. Cardinality({h}) = 1
        BY FS_Singleton
      <4>4. QED
        BY <3>3, <4>2, <4>3
    <3>4. QED
      BY <3>2, <3>3
  <2>2. QED
    BY <2>1 DEF LeaksInv, StreamsKnown, ActiveKnown, NothingLeaks
<1>2. QED
  BY <1>1, InitLeaksInv, LeaksStep, PTL DEF Spec
-----------------------------------------------------------------------------
(* Data.                                                                   *)

(* A handler that has begun keeps its circuit and its stream id.           *)
Unmoved ==
  \A h \in Handlers : Settled(h) => pc'[h] \notin Early /\ circ'[h] = circ[h] /\ sid'[h] = sid[h]

(* A handler that has its stream keeps it, with its circuit, until it      *)
(* leaves.                                                                 *)
LEMMA SettledStays ==
  ASSUME HandlersTyped, ActiveKnown, [Next]_vars
  PROVE  Unmoved
<1>1. CASE Inside
  BY <1>1 DEF Inside, Unmoved, Settled
<1>2. ASSUME NEW h \in Handlers,
             \/ Accept(h) \/ TrackConn(h) \/ Refuse(h) \/ CreateStream(h)
             \/ \E c \in Circuits : TakeCircuit(h, c)
      PROVE  Unmoved
  <2>1. /\ pc[h] \in Early /\ \A g \in Handlers \ {h} : pc'[g] = pc[g] /\ circ'[g] = circ[g] /\ sid'[g] = sid[g]
    BY <1>2, HandlersAssumption DEF Early, HandlersTyped, ActiveKnown, Accept, TrackConn, Refuse,
         CreateStream, TakeCircuit, poolVars, streamVars
  <2>2. QED
    BY <2>1 DEF Unmoved, Settled
<1>3. ASSUME NEW h \in Handlers, Leave(h)
      PROVE  Unmoved
  BY <1>3 DEF Leave, HandlersTyped, Unmoved, Settled, Early
<1>4. QED
  BY <1>1, <1>2, <1>3, Moves

(* The parts of the invariant after a step, of what is there before it.    *)
ForStreamNext(h, d) ==
  /\ pc'[h] \notin Early /\ pc'[d.of] \notin Early
  /\ circ'[d.of] = circ'[h] /\ sid'[d.of] = sid'[h]
  /\ d.n <= sent'[d.of]
AheadNext(d) == \A c \in Circuits : \A i \in DOMAIN queue'[c] : Later(d, queue'[c][i])
PlacedNext(c, cell) ==
  /\ pc'[cell.of] \notin Early /\ circ'[cell.of] = c /\ cell.id = sid'[cell.of]
  /\ cell.cmd = "DATA" => cell.n <= sent'[cell.of]

SentGrows == \A g \in Handlers : sent[g] \in Nat /\ sent'[g] \in Nat /\ sent[g] <= sent'[g]

(* What was for the stream of a handler still is.                          *)
LEMMA StreamKept ==
  ASSUME Unmoved, SentGrows, NEW h \in Handlers, NEW d \in Datum, ForStreamOf(h, d)
  PROVE  ForStreamNext(h, d)
BY DEF Unmoved, SentGrows, ForStreamOf, ForStreamNext, Datum

(* A cell that was placed on its circuit still is.                         *)
LEMMA PlacedKept ==
  ASSUME Unmoved, SentGrows, NEW c, NEW cell \in Cell, CellPlaced(c, cell)
  PROVE  PlacedNext(c, cell)
BY DEF Unmoved, SentGrows, CellPlaced, PlacedNext, Cell

(* The order of the queues in the next state, from that of each queue.     *)
LEMMA QueuedNext ==
  ASSUME \A c \in Circuits : \A i \in DOMAIN queue'[c] :
           /\ PlacedNext(c, queue'[c][i])
           /\ queue'[c][i].cmd = "DATA" =>
                \A j \in i + 1 .. Len(queue'[c]) : Later(queue'[c][i], queue'[c][j])
  PROVE  QueuedInOrder'
BY DEF QueuedInOrder, CellPlaced, PlacedNext, Settled, Later

(* The same for what a handler holds.                                      *)
LEMMA HeldNext ==
  ASSUME \A h \in Handlers : down'[h] = "writing" =>
           /\ held'[h] \in Datum
           /\ ForStreamNext(h, held'[h]) /\ AheadNext(held'[h])
           /\ \A i \in DOMAIN got'[h] : got'[h][i].of = held'[h].of => got'[h][i].n < held'[h].n
  PROVE  HeldInOrder'
BY DEF HeldInOrder, ForStreamOf, ForStreamNext, AheadOfQueues, AheadNext, Settled, Later, Datum

(* The same for what a handler has delivered.                              *)
LEMMA GotNext ==
  ASSUME \A h \in Handlers : \A i \in DOMAIN got'[h] :
           /\ ForStreamNext(h, got'[h][i]) /\ AheadNext(got'[h][i])
           /\ \A j \in i + 1 .. Len(got'[h]) :
                got'[h][i].of = got'[h][j].of => got'[h][i].n < got'[h][j].n
  PROVE  GotInOrder'
BY DEF GotInOrder, ForStreamOf, ForStreamNext, AheadOfQueues, AheadNext, Settled, Later

(* What is in a sequence has its type.                                     *)
LEMMA ElementsTyped ==
  ASSUME DataTyped
  PROVE  /\ \A c \in Circuits : \A i \in DOMAIN queue[c] : queue[c][i] \in Cell
         /\ \A h \in Handlers : \A i \in DOMAIN got[h] : got[h][i] \in Datum
<1>1. \A c \in Circuits : queue[c] \in Seq(Cell)
  BY DEF DataTyped
<1>2. \A h \in Handlers : got[h] \in Seq(Datum)
  BY DEF DataTyped
<1> HIDE DEF Cell, Datum
<1>3. QED
  BY <1>1, <1>2

(* A step that touches none of it, but may end a write.                    *)
LEMMA QuietKeeps ==
  ASSUME DataInv, Unmoved, UNCHANGED <<queue, sent, got>>, DOMAIN held' = Handlers,
         \A h \in Handlers : down'[h] = "writing" => down[h] = "writing" /\ held'[h] = held[h]
  PROVE  DataInv'
<1> USE DEF DataInv
<1>1. DataTyped'
  BY DEF DataTyped
<1>2. SentGrows
  BY DEF SentGrows, DataTyped
<1>3. QueuedInOrder'
  BY <1>2, ElementsTyped, PlacedKept, QueuedNext DEF QueuedInOrder
<1>4. \A d : AheadOfQueues(d) => AheadNext(d)
  BY DEF AheadOfQueues, AheadNext
<1>5. HeldInOrder'
  BY <1>2, <1>4, StreamKept, HeldNext DEF HeldInOrder
<1>6. GotInOrder'
  BY <1>2, <1>4, ElementsTyped, StreamKept, GotNext DEF GotInOrder
<1>7. QED
  BY <1>1, <1>3, <1>5, <1>6

(* A cell leaves its queue.                                                *)
LEMMA PopEffect ==
  ASSUME DataInv, Unmoved, sent' = sent, NEW c \in Circuits, queue[c] # << >>, Pop(c)
  PROVE  /\ queue' \in [Circuits -> Seq(Cell)] /\ QueuedInOrder'
         /\ \A d : AheadOfQueues(d) => AheadNext(d)
         /\ Len(queue[c]) \in Nat /\ 1 \in DOMAIN queue[c] /\ Head(queue[c]) = queue[c][1]
         /\ \A k \in Circuits \ {c} : queue'[k] = queue[k]
         /\ DOMAIN queue'[c] = 1 .. Len(queue[c]) - 1
         /\ \A i \in DOMAIN queue'[c] : queue'[c][i] = queue[c][i + 1]
<1> USE DEF DataInv
<1>1. queue[c] \in Seq(Cell) /\ queue' = [queue EXCEPT ![c] = Tail(queue[c])]
  BY DEF DataTyped, Pop
<1>2. \A k \in Circuits : queue[k] \in Seq(Cell)
  BY DEF DataTyped
<1> HIDE DEF Cell
<1>3. /\ Tail(queue[c]) \in Seq(Cell) /\ Len(queue[c]) \in Nat /\ Len(queue[c]) > 0
      /\ Len(Tail(queue[c])) = Len(queue[c]) - 1 /\ Head(queue[c]) = queue[c][1]
      /\ \A i \in 1 .. Len(queue[c]) - 1 : Tail(queue[c])[i] = queue[c][i + 1]
  BY <1>1
<1>4. /\ DOMAIN queue[c] = 1 .. Len(queue[c])
      /\ DOMAIN Tail(queue[c]) = 1 .. Len(queue[c]) - 1
  BY <1>1, <1>3
<1>5. queue'[c] = Tail(queue[c]) /\ \A k \in Circuits \ {c} : queue'[k] = queue[k]
  BY <1>1 DEF DataTyped
<1>6. queue' \in [Circuits -> Seq(Cell)]
  <2>1. queue \in [Circuits -> Seq(Cell)]
    BY DEF DataTyped
  <2>2. QED
    BY <1>1, <1>3, <2>1
<1>7. /\ DOMAIN queue'[c] = 1 .. Len(queue[c]) - 1
      /\ \A i \in DOMAIN queue'[c] : i + 1 \in DOMAIN queue[c] /\ queue'[c][i] = queue[c][i + 1]
  BY <1>3, <1>4, <1>5
<1>8. \A d : AheadOfQueues(d) => AheadNext(d)
  <2> SUFFICES ASSUME NEW d, AheadOfQueues(d), NEW k \in Circuits, NEW i \in DOMAIN queue'[k]
               PROVE  Later(d, queue'[k][i])
    BY DEF AheadNext
  <2>1. CASE k = c
    BY <1>7, <2>1 DEF AheadOfQueues
  <2>2. CASE k # c
    BY <1>5, <2>2 DEF AheadOfQueues
  <2>3. QED
    BY <2>1, <2>2
<1>9. SentGrows
  BY DEF SentGrows, DataTyped
<1>10. QueuedInOrder'
  <2> SUFFICES ASSUME NEW k \in Circuits, NEW i \in DOMAIN queue'[k]
               PROVE  /\ PlacedNext(k, queue'[k][i])
                      /\ queue'[k][i].cmd = "DATA" =>
                           \A j \in i + 1 .. Len(queue'[k]) : Later(queue'[k][i], queue'[k][j])
    BY QueuedNext
  <2>1. CASE k # c
    <3>1. queue'[k] = queue[k] /\ queue[k][i] \in Cell
      BY <1>5, <2>1, ElementsTyped
    <3>2. QED
      BY <1>9, <3>1, PlacedKept DEF QueuedInOrder
  <2>2. CASE k = c
    <3>1. /\ i + 1 \in DOMAIN queue[c] /\ queue'[c][i] = queue[c][i + 1] /\ queue[c][i + 1] \in Cell
          /\ i \in Nat
      BY <1>7, <2>2, ElementsTyped, <1>3
    <3>2. PlacedNext(c, queue'[c][i])
      BY <1>9, <3>1, PlacedKept DEF QueuedInOrder
    <3>3. ASSUME queue'[c][i].cmd = "DATA", NEW j \in i + 1 .. Len(queue'[c])
          PROVE  Later(queue'[c][i], queue'[c][j])
      <4>1. Len(queue'[c]) = Len(queue[c]) - 1
        BY <1>3, <1>5
      <4>2. j \in DOMAIN queue'[c] /\ j + 1 \in i + 1 + 1 .. Len(queue[c])
        BY <1>3, <1>7, <3>1, <4>1
      <4>3. Later(queue[c][i + 1], queue[c][j + 1])
        BY <3>1, <3>3, <4>2 DEF QueuedInOrder
      <4>4. QED
        BY <1>7, <3>1, <4>2, <4>3
    <3>4. QED
      BY <2>2, <3>2, <3>3
  <2>3. QED
    BY <2>1, <2>2
<1>11. QED
  BY <1>3, <1>4, <1>5, <1>6, <1>7, <1>8, <1>10

(* A cell that is taken off a queue and delivered to nobody leaves the     *)
(* order alone.                                                            *)
LEMMA SkipKeeps ==
  ASSUME DataInv, Unmoved, UNCHANGED <<sent, held, got>>, NEW c \in Circuits, queue[c] # << >>, Pop(c),
         \A h \in Handlers : down'[h] = "writing" => down[h] = "writing"
  PROVE  DataInv'
<1> USE DEF DataInv
<1>1. queue' \in [Circuits -> Seq(Cell)] /\ QueuedInOrder'
  BY PopEffect
<1>2. \A d : AheadOfQueues(d) => AheadNext(d)
  BY PopEffect
<1>3. SentGrows
  BY DEF SentGrows, DataTyped
<1>4. DataTyped'
  BY <1>1 DEF DataTyped
<1>5. HeldInOrder'
  BY <1>2, <1>3, StreamKept, HeldNext DEF HeldInOrder
<1>6. GotInOrder'
  <2> SUFFICES ASSUME NEW g \in Handlers, NEW i \in DOMAIN got[g]
               PROVE  ForStreamNext(g, got[g][i]) /\ AheadNext(got[g][i])
    BY GotNext DEF GotInOrder
  <2>1. got[g][i] \in Datum /\ ForStreamOf(g, got[g][i]) /\ AheadOfQueues(got[g][i])
    BY ElementsTyped DEF GotInOrder
  <2>2. QED
    BY <1>2, <1>3, <2>1, StreamKept
<1>7. QED
  BY <1>1, <1>4, <1>5, <1>6

(* `down' takes a DATA cell of its stream from the queue.                  *)
LEMMA TakeKeeps ==
  ASSUME DataInv, Unmoved, UNCHANGED <<sent, got>>,
         NEW h \in Handlers, Settled(h), circ[h] \in Circuits,
         queue[circ[h]] # << >>, Pop(circ[h]),
         Head(queue[circ[h]]).id = sid[h], Head(queue[circ[h]]).cmd = "DATA",
         held' = [held EXCEPT ![h] = [of |-> Head(queue[circ[h]]).of, n |-> Head(queue[circ[h]]).n]],
         \A g \in Handlers \ {h} : down'[g] = "writing" => down[g] = "writing"
  PROVE  DataInv'
<1> USE DEF DataInv
<1> DEFINE c == circ[h]
           cell == queue[c][1]
           d == [of |-> cell.of, n |-> cell.n]
<1>1. queue' \in [Circuits -> Seq(Cell)] /\ QueuedInOrder'
  BY PopEffect
<1>2. \A e : AheadOfQueues(e) => AheadNext(e)
  BY PopEffect
<1>3. /\ Len(queue[c]) \in Nat /\ 1 \in DOMAIN queue[c] /\ Head(queue[c]) = cell
      /\ \A k \in Circuits \ {c} : queue'[k] = queue[k]
      /\ DOMAIN queue'[c] = 1 .. Len(queue[c]) - 1
      /\ \A i \in DOMAIN queue'[c] : queue'[c][i] = queue[c][i + 1]
  BY PopEffect
<1>4. SentGrows
  BY DEF SentGrows, DataTyped
<1>5. cell \in Cell /\ cell.id = sid[h] /\ cell.cmd = "DATA"
  BY <1>3, ElementsTyped
<1>6. held'[h] = d /\ \A g \in Handlers \ {h} : held'[g] = held[g]
  BY <1>3 DEF DataTyped
<1>7. d \in Datum /\ d.of = cell.of /\ d.n = cell.n
  BY <1>5 DEF Cell, Datum
<1>8. DataTyped'
  BY <1>1 DEF DataTyped
<1>9. ForStreamOf(h, d)
  <2>1. CellPlaced(c, cell)
    BY <1>3 DEF QueuedInOrder
  <2>2. QED
    BY <1>5, <1>7, <2>1 DEF CellPlaced, ForStreamOf
<1> HIDE DEF d
<1>10. AheadNext(d)
  <2> SUFFICES ASSUME NEW k \in Circuits, NEW i \in DOMAIN queue'[k] PROVE Later(d, queue'[k][i])
    BY DEF AheadNext
  <2>1. CASE k = c
    <3>1. queue'[c][i] = queue[c][i + 1] /\ i + 1 \in 1 + 1 .. Len(queue[c])
      <4>1. i \in 1 .. Len(queue[c]) - 1
        BY <1>3, <2>1
      <4>2. Len(queue[c]) \in Nat
        BY <1>3
      <4>3. i + 1 \in 1 + 1 .. Len(queue[c])
        BY <4>1, <4>2
      <4>4. QED
        BY <1>3, <2>1, <4>3
    <3>2. Later(cell, queue[c][i + 1])
      <4>1. 1 \in DOMAIN queue[c] /\ queue[c][1] = cell /\ cell.cmd = "DATA"
        BY <1>3, <1>5
      <4>2. QED
        BY <3>1, <4>1 DEF QueuedInOrder
    <3>3. QED
      BY <1>7, <2>1, <3>1, <3>2 DEF Later
  <2>2. CASE k # c
    <3>1. CellPlaced(k, queue[k][i]) /\ queue'[k][i] = queue[k][i]
      BY <1>3, <2>2 DEF QueuedInOrder
    <3>2. CellPlaced(c, cell)
      BY <1>3 DEF QueuedInOrder
    <3>3. queue[k][i].of # d.of
      BY <1>7, <2>2, <3>1, <3>2 DEF CellPlaced
    <3>4. QED
      BY <3>1, <3>3 DEF Later
  <2>3. QED
    BY <2>1, <2>2
<1>11. \A i \in DOMAIN got[h] : got[h][i].of = d.of => got[h][i].n < d.n
  <2> SUFFICES ASSUME NEW i \in DOMAIN got[h], got[h][i].of = d.of PROVE got[h][i].n < d.n
    OBVIOUS
  <2>1. Later(got[h][i], cell)
    BY <1>3 DEF GotInOrder, AheadOfQueues
  <2>2. QED
    BY <1>5, <1>7, <2>1 DEF Later
<1>12. HeldInOrder'
  <2> SUFFICES ASSUME NEW g \in Handlers, down'[g] = "writing"
               PROVE  /\ held'[g] \in Datum
                      /\ ForStreamNext(g, held'[g]) /\ AheadNext(held'[g])
                      /\ \A i \in DOMAIN got'[g] : got'[g][i].of = held'[g].of => got'[g][i].n < held'[g].n
    BY HeldNext
  <2>1. CASE g = h
    <3>1. ForStreamNext(h, d)
      BY <1>4, <1>7, <1>9, StreamKept
    <3>2. held'[h] = d /\ got' = got /\ d \in Datum
      BY <1>6, <1>7
    <3>3. QED
      BY <1>10, <1>11, <2>1, <3>1, <3>2
  <2>2. CASE g # h
    <3>1. down[g] = "writing" /\ held'[g] = held[g] /\ got'[g] = got[g]
      BY <1>6, <2>2
    <3>2. /\ held[g] \in Datum /\ ForStreamOf(g, held[g]) /\ AheadOfQueues(held[g])
          /\ \A i \in DOMAIN got[g] : got[g][i].of = held[g].of => got[g][i].n < held[g].n
      BY <3>1 DEF HeldInOrder
    <3>3. ForStreamNext(g, held[g]) /\ AheadNext(held[g])
      BY <1>2, <1>4, <3>2, StreamKept
    <3>4. QED
      BY <3>1, <3>2, <3>3
  <2>3. QED
    BY <2>1, <2>2
<1>13. GotInOrder'
  <2> SUFFICES ASSUME NEW g \in Handlers, NEW i \in DOMAIN got[g]
               PROVE  ForStreamNext(g, got[g][i]) /\ AheadNext(got[g][i])
    BY GotNext DEF GotInOrder
  <2>1. got[g][i] \in Datum /\ ForStreamOf(g, got[g][i]) /\ AheadOfQueues(got[g][i])
    BY ElementsTyped DEF GotInOrder
  <2>2. QED
    BY <1>2, <1>4, <2>1, StreamKept
<1>14. QED
  BY <1>1, <1>8, <1>12, <1>13

(* What `down' holds goes to the client.                                   *)
LEMMA WriteKeeps ==
  ASSUME DataInv, Unmoved, UNCHANGED <<queue, sent>>, NEW h \in Handlers, down[h] = "writing",
         got' = [got EXCEPT ![h] = Append(@, held[h])], down'[h] # "writing",
         \A g \in Handlers \ {h} : held'[g] = held[g] /\ down'[g] = down[g],
         DOMAIN held' = Handlers
  PROVE  DataInv'
<1> USE DEF DataInv
<1> DEFINE k == Len(got[h]) + 1
<1>1. SentGrows
  BY DEF SentGrows, DataTyped
<1>2. /\ held[h] \in Datum /\ ForStreamOf(h, held[h]) /\ AheadOfQueues(held[h])
      /\ \A i \in DOMAIN got[h] : got[h][i].of = held[h].of => got[h][i].n < held[h].n
  BY DEF HeldInOrder
<1>3. got[h] \in Seq(Datum) /\ got \in [Handlers -> Seq(Datum)]
  BY DEF DataTyped
<1>4. \A e : AheadOfQueues(e) => AheadNext(e)
  BY DEF AheadOfQueues, AheadNext
<1>5. QueuedInOrder'
  BY <1>1, ElementsTyped, PlacedKept, QueuedNext DEF QueuedInOrder
<1>6. /\ Append(got[h], held[h]) \in Seq(Datum) /\ k \in Nat /\ DOMAIN got[h] = 1 .. k - 1
      /\ Len(Append(got[h], held[h])) = k /\ Append(got[h], held[h])[k] = held[h]
      /\ \A i \in 1 .. k - 1 : Append(got[h], held[h])[i] = got[h][i]
  <2> HIDE DEF Datum
  <2>1. QED
    BY <1>2, <1>3
<1>7. got'[h] = Append(got[h], held[h]) /\ \A g \in Handlers \ {h} : got'[g] = got[g]
  BY <1>3
<1>8. /\ Len(got'[h]) = k /\ DOMAIN got'[h] = 1 .. k /\ got'[h][k] = held[h]
      /\ \A i \in 1 .. k - 1 : i \in DOMAIN got[h] /\ got'[h][i] = got[h][i]
  <2> HIDE DEF Datum
  <2>1. QED
    BY <1>6, <1>7
<1>9. got' \in [Handlers -> Seq(Datum)]
  <2> HIDE DEF Datum
  <2>1. QED
    BY <1>3, <1>6
<1>10. DataTyped'
  BY <1>9 DEF DataTyped
<1>11. HeldInOrder'
  <2> SUFFICES ASSUME NEW g \in Handlers, down'[g] = "writing"
               PROVE  /\ held'[g] \in Datum
                      /\ ForStreamNext(g, held'[g]) /\ AheadNext(held'[g])
                      /\ \A i \in DOMAIN got'[g] : got'[g][i].of = held'[g].of => got'[g][i].n < held'[g].n
    BY HeldNext
  <2>1. g # h /\ down[g] = "writing" /\ held'[g] = held[g] /\ got'[g] = got[g]
    BY <1>7
  <2>2. /\ held[g] \in Datum /\ ForStreamOf(g, held[g]) /\ AheadOfQueues(held[g])
        /\ \A i \in DOMAIN got[g] : got[g][i].of = held[g].of => got[g][i].n < held[g].n
    BY <2>1 DEF HeldInOrder
  <2>3. ForStreamNext(g, held[g]) /\ AheadNext(held[g])
    BY <1>1, <1>4, <2>2, StreamKept
  <2>4. QED
    BY <2>1, <2>2, <2>3
<1>12. GotInOrder'
  <2> SUFFICES ASSUME NEW g \in Handlers, NEW i \in DOMAIN got'[g]
               PROVE  /\ ForStreamNext(g, got'[g][i]) /\ AheadNext(got'[g][i])
                      /\ \A j \in i + 1 .. Len(got'[g]) :
                           got'[g][i].of = got'[g][j].of => got'[g][i].n < got'[g][j].n
    BY GotNext
  <2>1. CASE g # h
    <3>1. got'[g] = got[g] /\ i \in DOMAIN got[g]
      BY <1>7, <2>1
    <3>2. /\ got[g][i] \in Datum /\ ForStreamOf(g, got[g][i]) /\ AheadOfQueues(got[g][i])
          /\ \A j \in i + 1 .. Len(got[g]) :
               got[g][i].of = got[g][j].of => got[g][i].n < got[g][j].n
      BY <3>1, ElementsTyped DEF GotInOrder
    <3>3. ForStreamNext(g, got[g][i]) /\ AheadNext(got[g][i])
      BY <1>1, <1>4, <3>2, StreamKept
    <3>4. QED
      BY <3>1, <3>2, <3>3
  <2>2. CASE g = h /\ i = k
    BY <1>1, <1>2, <1>4, <1>6, <1>8, <2>2, StreamKept
  <2>3. CASE g = h /\ i # k
    <3>1. i \in DOMAIN got[h] /\ got'[h][i] = got[h][i] /\ got[h][i] \in Datum
      BY <1>6, <1>8, <2>3, ElementsTyped
    <3>2. ForStreamNext(h, got[h][i]) /\ AheadNext(got[h][i])
      BY <1>1, <1>4, <3>1, StreamKept DEF GotInOrder
    <3>3. ASSUME NEW j \in i + 1 .. k, got'[h][i].of = got'[h][j].of
          PROVE  got'[h][i].n < got'[h][j].n
      <4>1. CASE j = k
        BY <1>2, <1>8, <3>1, <3>3, <4>1
      <4>2. CASE j # k
        <5>1. j \in i + 1 .. Len(got[h]) /\ got'[h][j] = got[h][j]
          BY <1>6, <1>8, <3>1, <3>3, <4>2
        <5>2. QED
          BY <3>1, <3>3, <5>1 DEF GotInOrder
      <4>3. QED
        BY <4>1, <4>2
    <3>4. QED
      BY <1>8, <2>3, <3>1, <3>2, <3>3
  <2>4. QED
    BY <2>1, <2>2, <2>3
<1>13. QED
  BY <1>5, <1>10, <1>11, <1>12

(* A cell of the exit reaches the queue of its circuit, or is dropped.     *)
LEMMA DeliverKeeps ==
  ASSUME DataInv, Unmoved, UNCHANGED <<circ, sid, held, got, down>>,
         NEW h \in Handlers, Settled(h), sid[h] \in Nat,
         NEW cmd \in {"CONNECTED", "DATA", "END", "RESOLVED"}, NEW n \in Nat, Deliver(h, cmd, n),
         sent' \in [Handlers -> Nat], \A g \in Handlers : sent[g] <= sent'[g],
         cmd = "DATA" => n = sent[h] + 1 /\ sent'[h] = n
  PROVE  DataInv'
<1> USE DEF DataInv
<1> DEFINE c == circ[h]
           cell == [id |-> sid[h], cmd |-> cmd, of |-> h, n |-> n]
           k == Len(queue[c]) + 1
<1>1. SentGrows
  BY DEF SentGrows, DataTyped
<1>2. cell \in Cell /\ cell.id = sid[h] /\ cell.cmd = cmd /\ cell.of = h /\ cell.n = n
  BY DEF Cell
<1>3. queue' = [queue EXCEPT ![c] = IF Len(@) < QueueCap THEN Append(@, cell) ELSE @]
  BY DEF Deliver
<1> HIDE DEF cell
<1>4. \A b \in Circuits \ {c} : queue'[b] = queue[b]
  BY <1>3 DEF DataTyped
<1>5. ASSUME c \in Circuits
      PROVE  \/ queue'[c] = queue[c]
             \/ /\ queue'[c] \in Seq(Cell) /\ k \in Nat /\ DOMAIN queue[c] = 1 .. k - 1
                /\ Len(queue'[c]) = k /\ DOMAIN queue'[c] = 1 .. k /\ queue'[c][k] = cell
                /\ \A i \in 1 .. k - 1 : queue'[c][i] = queue[c][i]
  <2>1. queue[c] \in Seq(Cell)
    BY <1>5 DEF DataTyped
  <2>2. queue'[c] = queue[c] \/ queue'[c] = Append(queue[c], cell)
    BY <1>3, <1>5 DEF DataTyped
  <2> HIDE DEF Cell
  <2>3. /\ Append(queue[c], cell) \in Seq(Cell) /\ k \in Nat /\ DOMAIN queue[c] = 1 .. k - 1
        /\ Len(Append(queue[c], cell)) = k /\ DOMAIN Append(queue[c], cell) = 1 .. k
        /\ Append(queue[c], cell)[k] = cell
        /\ \A i \in 1 .. k - 1 : Append(queue[c], cell)[i] = queue[c][i]
    BY <1>2, <2>1
  <2>4. QED
    BY <2>2, <2>3
<1> HIDE DEF k, c
<1>6. DataTyped'
  <2>1. queue \in [Circuits -> Seq(Cell)]
    BY DEF DataTyped
  <2> HIDE DEF Cell
  <2>2. \A b \in Circuits : queue'[b] \in Seq(Cell)
    BY <1>4, <1>5, <2>1
  <2>3. DOMAIN queue' = Circuits /\ queue' = [b \in Circuits |-> queue'[b]]
    BY <1>3, <2>1
  <2>4. QED
    BY <2>2, <2>3 DEF DataTyped
<1>7. ASSUME NEW d \in Datum, AheadOfQueues(d), d.n <= sent[d.of]
      PROVE  AheadNext(d)
  <2> SUFFICES ASSUME NEW b \in Circuits, NEW i \in DOMAIN queue'[b] PROVE Later(d, queue'[b][i])
    BY DEF AheadNext
  <2>1. CASE b # c \/ queue'[b] = queue[b]
    BY <1>4, <1>7, <2>1 DEF AheadOfQueues
  <2>2. CASE b = c /\ queue'[b] # queue[b]
    <3>1. /\ k \in Nat /\ DOMAIN queue[c] = 1 .. k - 1
          /\ DOMAIN queue'[c] = 1 .. k /\ queue'[c][k] = cell
          /\ \A j \in 1 .. k - 1 : queue'[c][j] = queue[c][j]
      BY <1>5, <2>2
    <3>2. CASE i = k
      <4>1. queue'[b][i] = cell
        BY <2>2, <3>1, <3>2
      <4>2. QED
        BY <1>1, <1>2, <1>7, <4>1 DEF Later, Datum, SentGrows
    <3>3. CASE i # k
      <4>1. i \in DOMAIN queue[c] /\ queue'[c][i] = queue[c][i]
        BY <2>2, <3>1, <3>3
      <4>2. QED
        BY <1>7, <2>2, <4>1 DEF AheadOfQueues
    <3>4. QED
      BY <3>2, <3>3
  <2>3. QED
    BY <2>1, <2>2
<1>8. QueuedInOrder'
  <2> SUFFICES ASSUME NEW b \in Circuits, NEW i \in DOMAIN queue'[b]
               PROVE  /\ PlacedNext(b, queue'[b][i])
                      /\ queue'[b][i].cmd = "DATA" =>
                           \A j \in i + 1 .. Len(queue'[b]) : Later(queue'[b][i], queue'[b][j])
    BY QueuedNext
  <2>1. CASE b # c \/ queue'[b] = queue[b]
    <3>1. queue'[b] = queue[b] /\ queue[b][i] \in Cell
      BY <1>4, <2>1, ElementsTyped
    <3>2. QED
      BY <1>1, <3>1, PlacedKept DEF QueuedInOrder
  <2>2. CASE b = c /\ queue'[b] # queue[b]
    <3>1. /\ k \in Nat /\ DOMAIN queue[c] = 1 .. k - 1
          /\ Len(queue'[c]) = k /\ DOMAIN queue'[c] = 1 .. k /\ queue'[c][k] = cell
          /\ \A j \in 1 .. k - 1 : queue'[c][j] = queue[c][j]
      BY <1>5, <2>2
    <3>2. CASE i = k
      <4>1. PlacedNext(c, cell)
        BY <1>1, <1>2 DEF PlacedNext, Unmoved, SentGrows, c
      <4>2. QED
        BY <2>2, <3>1, <3>2, <4>1
    <3>3. CASE i # k
      <4>1. i \in DOMAIN queue[c] /\ queue'[c][i] = queue[c][i] /\ queue[c][i] \in Cell
        BY <2>2, <3>1, <3>3, ElementsTyped
      <4>2. CellPlaced(c, queue[c][i])
        BY <2>2, <4>1 DEF QueuedInOrder
      <4>3. ASSUME queue[c][i].cmd = "DATA", NEW j \in i + 1 .. k
            PROVE  Later(queue[c][i], queue'[c][j])
        <5>1. CASE j = k
          <6>1. queue[c][i].n <= sent[queue[c][i].of] /\ queue[c][i].n \in Nat
            BY <4>1, <4>2, <4>3 DEF CellPlaced, Cell
          <6>2. queue'[c][j] = cell
            BY <3>1, <5>1
          <6>3. Later(queue[c][i], cell)
            BY <1>1, <1>2, <6>1 DEF Later, SentGrows
          <6>4. QED
            BY <6>2, <6>3
        <5>2. CASE j # k
          <6>1. j \in i + 1 .. Len(queue[c]) /\ queue'[c][j] = queue[c][j]
            <7>1. Len(queue[c]) = k - 1
              BY <3>1 DEF k
            <7>2. QED
              BY <3>1, <4>1, <4>3, <5>2, <7>1
          <6>2. QED
            BY <2>2, <4>1, <4>3, <6>1 DEF QueuedInOrder
        <5>3. QED
          BY <5>1, <5>2
      <4>4. QED
        BY <1>1, <2>2, <3>1, <4>1, <4>2, <4>3, PlacedKept
    <3>4. QED
      BY <3>2, <3>3
  <2>3. QED
    BY <2>1, <2>2
<1>9. HeldInOrder'
  <2> SUFFICES ASSUME NEW g \in Handlers, down'[g] = "writing"
               PROVE  /\ held'[g] \in Datum
                      /\ ForStreamNext(g, held'[g]) /\ AheadNext(held'[g])
                      /\ \A i \in DOMAIN got'[g] : got'[g][i].of = held'[g].of => got'[g][i].n < held'[g].n
    BY HeldNext
  <2>1. held[g] \in Datum /\ ForStreamOf(g, held[g]) /\ AheadOfQueues(held[g])
    BY DEF HeldInOrder
  <2>2. ForStreamNext(g, held[g]) /\ AheadNext(held[g])
    BY <1>1, <1>7, <2>1, StreamKept DEF ForStreamOf
  <2>3. QED
    BY <2>1, <2>2 DEF HeldInOrder
<1>10. GotInOrder'
  <2> SUFFICES ASSUME NEW g \in Handlers, NEW i \in DOMAIN got[g]
               PROVE  ForStreamNext(g, got[g][i]) /\ AheadNext(got[g][i])
    BY GotNext DEF GotInOrder
  <2>1. got[g][i] \in Datum /\ ForStreamOf(g, got[g][i]) /\ AheadOfQueues(got[g][i])
    BY ElementsTyped DEF GotInOrder
  <2>2. QED
    BY <1>1, <1>7, <2>1, StreamKept DEF ForStreamOf
<1>11. QED
  BY <1>6, <1>8, <1>9, <1>10

(* The invariant is inductive.                                             *)
LEMMA DataStep ==
  ASSUME LeaksInv, DataInv, [Next]_vars
  PROVE  DataInv'
<1> USE DEF LeaksInv
<1>1. Unmoved /\ DOMAIN held = Handlers
  BY SettledStays DEF DataInv, DataTyped
<1>2. CASE Cancel \/ Shutdown \/ UNCHANGED vars
  BY <1>1, <1>2, QuietKeeps DEF Cancel, Shutdown, vars, relayVars, exitVars, clientVars
<1>3. ASSUME NEW h \in Handlers,
             \/ Accept(h) \/ TrackConn(h) \/ ClientGone(h) \/ Refuse(h)
             \/ \E c \in Circuits : TakeCircuit(h, c)
      PROVE  DataInv'
  <2>1. UNCHANGED <<queue, sent, held, got, down>>
    BY <1>3 DEF Accept, TrackConn, ClientGone, Refuse, TakeCircuit, relayVars, exitVars, clientVars
  <2>2. QED
    BY <1>1, <2>1, QuietKeeps
<1>4. ASSUME NEW h \in Handlers,
             \/ CreateStream(h) \/ SendBegin(h) \/ OpenTimeout(h) \/ SendResolve(h) \/ ResolveTimeout(h)
             \/ UpEnds(h) \/ UpFails(h) \/ Join(h) \/ Leave(h)
      PROVE  DataInv'
  <2>1. UNCHANGED <<queue, sent, held, got, down>>
    BY <1>4 DEF CreateStream, SendBegin, OpenTimeout, SendResolve, ResolveTimeout, UpEnds, UpFails,
         Join, Leave, relayVars, exitVars, clientVars
  <2>2. QED
    BY <1>1, <2>1, QuietKeeps
<1>5. ASSUME NEW h \in Handlers, OpenReceive(h) \/ ResolveReceive(h)
      PROVE  DataInv'
  <2>1. /\ pc[h] \in {"opening", "resolving"} /\ queue[circ[h]] # << >> /\ Pop(circ[h])
        /\ UNCHANGED <<sent, held, got>>
        /\ down' = down \/ down' = [down EXCEPT ![h] = "reading"]
    BY <1>5 DEF OpenReceive, ResolveReceive, relayVars, exitVars, clientVars
  <2>2. circ[h] \in Circuits
    BY <2>1 DEF HandlersTyped, WithCircuit, WithStream
  <2>3. \A g \in Handlers : down'[g] = "writing" => down[g] = "writing"
    BY <2>1 DEF HandlersTyped
  <2>4. QED
    BY <1>1, <2>1, <2>2, <2>3, SkipKeeps
<1>6. ASSUME NEW h \in Handlers, DownReads(h)
      PROVE  DataInv'
  <2>1. /\ down[h] = "reading" /\ queue[circ[h]] # << >> /\ Pop(circ[h])
        /\ UNCHANGED <<sent, got>>
    BY <1>6 DEF DownReads, exitVars, clientVars
  <2>2. Settled(h) /\ circ[h] \in Circuits
    BY <2>1 DEF HandlersTyped, Settled, Early, WithCircuit, WithStream
  <2>3. \/ /\ Head(queue[circ[h]]).id = sid[h] /\ Head(queue[circ[h]]).cmd = "DATA"
           /\ held' = [held EXCEPT ![h] = [of |-> Head(queue[circ[h]]).of, n |-> Head(queue[circ[h]]).n]]
           /\ down' = [down EXCEPT ![h] = "writing"]
        \/ held' = held /\ (down' = down \/ down' = [down EXCEPT ![h] = "done"])
    BY <1>6 DEF DownReads
  <2>4. CASE held' = held /\ (down' = down \/ down' = [down EXCEPT ![h] = "done"])
    <3>1. \A g \in Handlers : down'[g] = "writing" => down[g] = "writing"
      BY <2>4 DEF HandlersTyped
    <3>2. QED
      BY <1>1, <2>1, <2>2, <2>4, <3>1, SkipKeeps
  <2>5. CASE /\ Head(queue[circ[h]]).id = sid[h] /\ Head(queue[circ[h]]).cmd = "DATA"
             /\ held' = [held EXCEPT ![h] = [of |-> Head(queue[circ[h]]).of, n |-> Head(queue[circ[h]]).n]]
             /\ down' = [down EXCEPT ![h] = "writing"]
    <3>1. \A g \in Handlers \ {h} : down'[g] = "writing" => down[g] = "writing"
      BY <2>5 DEF HandlersTyped
    <3>2. QED
      BY <1>1, <2>1, <2>2, <2>5, <3>1, TakeKeeps
  <2>6. QED
    BY <2>3, <2>4, <2>5
<1>7. ASSUME NEW h \in Handlers, DownCancelled(h)
      PROVE  DataInv'
  <2>1. UNCHANGED <<queue, sent, held, got>> /\ down' = [down EXCEPT ![h] = "done"]
    BY <1>7 DEF DownCancelled, exitVars, clientVars
  <2>2. \A g \in Handlers : down'[g] = "writing" => down[g] = "writing"
    BY <2>1 DEF HandlersTyped
  <2>3. QED
    BY <1>1, <2>1, <2>2, QuietKeeps
<1>8. ASSUME NEW h \in Handlers, DownWrites(h)
      PROVE  DataInv'
  <2>1. /\ down[h] = "writing" /\ UNCHANGED <<queue, sent>> /\ held' = [held EXCEPT ![h] = None]
        /\ \/ got' = [got EXCEPT ![h] = Append(@, held[h])] /\ down' = [down EXCEPT ![h] = "reading"]
           \/ got' = got /\ down' = [down EXCEPT ![h] = "done"]
    BY <1>8 DEF DownWrites
  <2>2. /\ down'[h] # "writing" /\ DOMAIN held' = Handlers
        /\ \A g \in Handlers \ {h} : held'[g] = held[g] /\ down'[g] = down[g]
    BY <2>1 DEF HandlersTyped, DataInv, DataTyped
  <2>3. CASE got' = got
    BY <1>1, <2>1, <2>2, <2>3, QuietKeeps
  <2>4. CASE got' = [got EXCEPT ![h] = Append(@, held[h])]
    BY <1>1, <2>1, <2>2, <2>4, WriteKeeps
  <2>5. QED
    BY <2>1, <2>3, <2>4
<1>9. ASSUME NEW h \in Handlers, ExitConnects(h) \/ ExitSendsData(h) \/ ExitEnds(h) \/ ExitResolves(h)
      PROVE  DataInv'
  <2>1. /\ UNCHANGED <<circ, sid, held, got, down>>
        /\ exit[h] \in {"begun", "open", "asked"}
        /\ \/ /\ sent' = sent
              /\ \E cmd \in {"CONNECTED", "END", "RESOLVED"} : Deliver(h, cmd, 0)
           \/ /\ sent' = [sent EXCEPT ![h] = @ + 1]
              /\ Deliver(h, "DATA", sent[h] + 1)
    BY <1>9 DEF ExitConnects, ExitSendsData, ExitEnds, ExitResolves, exitUnchanged, relayVars, streamVars,
         poolVars, clientVars
  <2>2. Settled(h) /\ sid[h] \in Nat
    BY <2>1 DEF HandlersTyped, Settled
  <2>3. sent \in [Handlers -> Nat]
    BY DEF DataInv, DataTyped
  <2>4. CASE sent' = sent /\ \E cmd \in {"CONNECTED", "END", "RESOLVED"} : Deliver(h, cmd, 0)
    <3>1. PICK cmd \in {"CONNECTED", "END", "RESOLVED"} : Deliver(h, cmd, 0)
      BY <2>4
    <3>2. \A g \in Handlers : sent[g] <= sent'[g]
      BY <2>3, <2>4
    <3>3. cmd \in {"CONNECTED", "DATA", "END", "RESOLVED"} /\ cmd # "DATA" /\ 0 \in Nat
      OBVIOUS
    <3>4. QED
      BY <1>1, <2>1, <2>2, <2>3, <2>4, <3>1, <3>2, <3>3, DeliverKeeps
  <2>5. CASE sent' = [sent EXCEPT ![h] = @ + 1] /\ Deliver(h, "DATA", sent[h] + 1)
    <3>1. /\ sent[h] + 1 \in Nat /\ sent' \in [Handlers -> Nat] /\ sent'[h] = sent[h] + 1
          /\ \A g \in Handlers : sent[g] <= sent'[g]
      BY <2>3, <2>5
    <3>2. QED
      BY <1>1, <2>1, <2>2, <2>5, <3>1, DeliverKeeps
  <2>6. QED
    BY <2>1, <2>4, <2>5
<1>10. QED
  BY <1>2, <1>3, <1>4, <1>5, <1>6, <1>7, <1>8, <1>9 DEF Next

(* Nothing is on its way before the first connection.                      *)
LEMMA InitDataInv == Init => DataInv
<1> SUFFICES ASSUME Init PROVE DataInv
  OBVIOUS
<1>1. << >> \in Seq(Cell) /\ << >> \in Seq(Datum)
  <2> HIDE DEF Cell, Datum
  <2>1. QED
    OBVIOUS
<1>2. /\ queue = [c \in Circuits |-> << >>] /\ got = [h \in Handlers |-> << >>]
      /\ sent = [h \in Handlers |-> 0] /\ DOMAIN held = Handlers
      /\ \A h \in Handlers : down[h] = "none"
  BY DEF Init
<1>3. DataTyped
  <2> HIDE DEF Cell, Datum
  <2>1. QED
    BY <1>1, <1>2 DEF DataTyped
<1>4. (\A c \in Circuits : DOMAIN queue[c] = {}) /\ (\A h \in Handlers : DOMAIN got[h] = {})
  BY <1>2
<1>5. QED
  BY <1>2, <1>3, <1>4 DEF DataInv, QueuedInOrder, HeldInOrder, GotInOrder
-----------------------------------------------------------------------------
(* Data of one stream that more than one client may get.                   *)

(* Streams have an id from CreateStream on, and what the exit knows is a   *)
(* stream that has one.                                                    *)
SidsGiven ==
  \A h \in Handlers :
    /\ pc[h] \in {"idle", "tracking", "accepted"} => sid[h] = 0
    /\ pc[h] \in WithStream => sid[h] \in StreamIDs
    /\ exit[h] \in {"begun", "open"} =>
         /\ pc[h] \in WithStream \cup {"leaving", "done"}
         /\ sid[h] \in StreamIDs /\ circ[h] \in Circuits

(* What a handler is about to write is later than what any client has got  *)
(* of the same stream.                                                     *)
NewestHeld ==
  \A h, g \in Handlers : down[h] = "writing" =>
    \A i \in DOMAIN got[g] : got[g][i].of = held[h].of => got[g][i].n < held[h].n

(* Ids are given as said after every step.                                 *)
LEMMA SidsGivenStep ==
  ASSUME LeaksInv, SidsGiven, [Next]_vars
  PROVE  SidsGiven'
<1> USE DEF LeaksInv, SidsGiven
<1>1. Unmoved
  BY SettledStays
<1>2. ASSUME NEW h \in Handlers, SendBegin(h)
      PROVE  SidsGiven'
  <2>1. /\ pc[h] = "beginning" /\ UNCHANGED <<sid, circ>>
        /\ \/ exit' = [exit EXCEPT ![h] = "begun"] /\ pc' = [pc EXCEPT ![h] = "opening"]
           \/ pc' = [pc EXCEPT ![h] = "leaving"] /\ UNCHANGED exit
    BY <1>2 DEF SendBegin, streamVars, poolVars
  <2>2. sid[h] \in StreamIDs /\ circ[h] \in Circuits
    BY <2>1 DEF HandlersTyped, WithStream, WithCircuit
  <2>3. QED
    BY <2>1, <2>2 DEF HandlersTyped, WithStream
<1>3. ASSUME NEW h \in Handlers, SendResolve(h)
      PROVE  SidsGiven'
  BY <1>3 DEF SendResolve, streamVars, poolVars, HandlersTyped, WithStream
<1>4. ASSUME NEW h \in Handlers, ExitConnects(h) \/ ExitSendsData(h) \/ ExitEnds(h) \/ ExitResolves(h)
      PROVE  SidsGiven'
  BY <1>4 DEF ExitConnects, ExitSendsData, ExitEnds, ExitResolves, exitUnchanged, streamVars, poolVars,
       HandlersTyped
<1>5. ASSUME NEW h \in Handlers, CreateStream(h)
      PROVE  SidsGiven'
  <2>1. /\ pc[h] = "creating" /\ pc' = [pc EXCEPT ![h] = "beginning"] /\ UNCHANGED <<circ, exit>>
        /\ sid' = [sid EXCEPT ![h] = nextID] /\ nextID \in StreamIDs
    BY <1>5 DEF CreateStream, poolVars, exitVars, StreamsKnown
  <2>2. exit[h] = "none"
    BY <2>1 DEF HandlersTyped, Early
  <2>3. QED
    BY <2>1, <2>2 DEF HandlersTyped
<1>6. ASSUME NEW h \in Handlers, NEW c \in Circuits, TakeCircuit(h, c)
      PROVE  SidsGiven'
  BY <1>6 DEF TakeCircuit, streamVars, exitVars, HandlersTyped, WithStream
<1>7. ASSUME NEW h \in Handlers, Accept(h) \/ TrackConn(h) \/ Refuse(h)
      PROVE  SidsGiven'
  <2>1. /\ pc[h] \in {"idle", "tracking", "accepted"} /\ UNCHANGED <<sid, circ, exit>>
        /\ \E there \in {"tracking", "accepted", "done", "leaving"} : pc' = [pc EXCEPT ![h] = there]
    BY <1>7, HandlersAssumption DEF Accept, TrackConn, Refuse, ActiveKnown, streamVars, poolVars, exitVars
  <2>2. exit[h] = "none" /\ sid[h] = 0
    BY <2>1 DEF HandlersTyped, Early
  <2>3. QED
    BY <2>1, <2>2 DEF HandlersTyped, WithStream
<1>8. ASSUME UNCHANGED <<sid, circ>>,
             \A h \in Handlers : exit'[h] = exit[h] \/ exit'[h] = "ended",
             \A h \in Handlers : pc'[h] = pc[h] \/
               /\ pc[h] \in WithStream \cup {"resolving", "leaving"}
               /\ pc'[h] \in {"relaying", "leaving", "done"}
               /\ pc'[h] = "relaying" => pc[h] \in WithStream
      PROVE  SidsGiven'
  BY <1>8 DEF HandlersTyped, WithStream
<1>9. CASE Cancel \/ Shutdown \/ UNCHANGED vars
  BY <1>8, <1>9 DEF Cancel, Shutdown, vars, streamVars, poolVars, exitVars
<1>10. ASSUME NEW h \in Handlers, ClientGone(h) \/ UpEnds(h) \/ UpFails(h)
       PROVE  SidsGiven'
  BY <1>8, <1>10 DEF ClientGone, UpEnds, UpFails, EndStream, streamVars, poolVars, exitVars, HandlersTyped
<1>11. ASSUME NEW h \in Handlers, DownReads(h) \/ DownCancelled(h) \/ DownWrites(h)
       PROVE  SidsGiven'
  BY <1>8, <1>11 DEF DownReads, DownCancelled, DownWrites, EndStream, streamVars, poolVars, exitVars,
       HandlersTyped
<1>12. ASSUME NEW h \in Handlers,
              OpenReceive(h) \/ OpenTimeout(h) \/ ResolveReceive(h) \/ ResolveTimeout(h) \/ Join(h) \/ Leave(h)
       PROVE  SidsGiven'
  <2>1. /\ UNCHANGED <<sid, circ, exit>>
        /\ \/ /\ pc[h] \in WithStream
              /\ \E there \in {"relaying", "leaving"} : pc' = [pc EXCEPT ![h] = there]
           \/ /\ pc[h] \in {"resolving", "leaving"}
              /\ \E there \in {"leaving", "done"} : pc' = [pc EXCEPT ![h] = there]
    <3> USE DEF WithStream
    <3>1. CASE OpenReceive(h)
      BY <3>1 DEF OpenReceive, streamVars, poolVars, exitVars
    <3>2. CASE ~OpenReceive(h)
      BY <1>12, <3>2 DEF OpenTimeout, ResolveReceive, ResolveTimeout, Join, Leave, streamVars, poolVars,
           exitVars
    <3>3. QED
      BY <3>1, <3>2
  <2>2. QED
    BY <1>8, <2>1 DEF HandlersTyped
<1>13. QED
  BY <1>2, <1>3, <1>4, <1>5, <1>6, <1>7, <1>9, <1>10, <1>11, <1>12 DEF Next

(* Two handlers that write the data of one stream are one: they would hold *)
(* the circuit of that stream together.                                    *)
LEMMA OneWriter ==
  ASSUME LeaksInv, HeldInOrder, NEW g \in Handlers, NEW h \in Handlers,
         down[g] = "writing", down[h] = "writing", held[g].of = held[h].of
  PROVE  g = h
<1>1. Holds(g, circ[g]) /\ Holds(h, circ[h])
  BY DEF LeaksInv, HandlersTyped, Holds, WithCircuit, WithStream
<1>2. circ[g] = circ[h] /\ circ[g] \in Circuits
  BY DEF HeldInOrder, ForStreamOf, LeaksInv, HandlersTyped, WithCircuit, WithStream
<1>3. QED
  BY <1>1, <1>2 DEF LeaksInv, CircuitsHeld

(* What is held stays the newest: a cell is taken after those that were    *)
(* taken before, and while one is held no other of its stream is written.  *)
LEMMA NewestHeldStep ==
  ASSUME LeaksInv, DataInv, NewestHeld, [Next]_vars
  PROVE  NewestHeld'
<1> USE DEF NewestHeld
<1>1. ASSUME got' = got, \A h \in Handlers : down'[h] = "writing" => down[h] = "writing" /\ held'[h] = held[h]
      PROVE  NewestHeld'
  BY <1>1
<1>2. ASSUME NEW h \in Handlers, DownReads(h)
      PROVE  NewestHeld'
  <2>1. /\ got' = got /\ queue[circ[h]] # << >>
        /\ \/ /\ Head(queue[circ[h]]).cmd = "DATA" /\ down' = [down EXCEPT ![h] = "writing"]
              /\ held' = [held EXCEPT ![h] = [of |-> Head(queue[circ[h]]).of, n |-> Head(queue[circ[h]]).n]]
           \/ held' = held /\ (down' = down \/ down' = [down EXCEPT ![h] = "done"])
    BY <1>2 DEF DownReads, clientVars
  <2>2. CASE held' = held /\ (down' = down \/ down' = [down EXCEPT ![h] = "done"])
    <3>1. \A g \in Handlers : down'[g] = "writing" => down[g] = "writing"
      BY <2>2 DEF LeaksInv, HandlersTyped
    <3>2. QED
      BY <1>1, <2>1, <2>2, <3>1
  <2>3. CASE /\ Head(queue[circ[h]]).cmd = "DATA" /\ down' = [down EXCEPT ![h] = "writing"]
             /\ held' = [held EXCEPT ![h] = [of |-> Head(queue[circ[h]]).of, n |-> Head(queue[circ[h]]).n]]
    <3>1. PICK cell : cell = Head(queue[circ[h]])
      OBVIOUS
    <3>2. /\ circ[h] \in Circuits /\ down[h] = "reading"
          /\ \A g \in Handlers \ {h} : down'[g] = down[g]
      BY <1>2, <2>3 DEF DownReads, LeaksInv, HandlersTyped, WithCircuit, WithStream
    <3>3. /\ held'[h].of = cell.of /\ held'[h].n = cell.n
          /\ \A g \in Handlers \ {h} : held'[g] = held[g]
      BY <2>3, <3>1 DEF DataInv, DataTyped
    <3>4. 1 \in DOMAIN queue[circ[h]] /\ cell = queue[circ[h]][1]
      <4>1. queue[circ[h]] \in Seq(Cell)
        BY <3>2 DEF DataInv, DataTyped
      <4> HIDE DEF Cell
      <4>2. QED
        BY <2>1, <3>1, <4>1
    <3>5. ASSUME NEW g \in Handlers, NEW i \in DOMAIN got[g], got[g][i].of = cell.of
          PROVE  got[g][i].n < cell.n
      <4>1. Later(got[g][i], cell)
        BY <3>2, <3>4 DEF DataInv, GotInOrder, AheadOfQueues
      <4>2. QED
        BY <2>3, <3>1, <3>5, <4>1 DEF Later
    <3>6. QED
      BY <2>1, <3>2, <3>3, <3>5
  <2>4. QED
    BY <2>1, <2>2, <2>3
<1>3. ASSUME NEW h \in Handlers, DownWrites(h)
      PROVE  NewestHeld'
  <2>1. /\ down[h] = "writing" /\ down'[h] # "writing"
        /\ \A g \in Handlers \ {h} : down'[g] = down[g] /\ held'[g] = held[g]
        /\ got' = got \/ got' = [got EXCEPT ![h] = Append(@, held[h])]
    BY <1>3 DEF DownWrites, LeaksInv, HandlersTyped, DataInv, DataTyped
  <2>2. CASE got' = got
    BY <1>1, <2>1, <2>2
  <2>3. CASE got' = [got EXCEPT ![h] = Append(@, held[h])]
    <3>1. PICK d : d = held[h]
      OBVIOUS
    <3>2. /\ \A f \in Handlers \ {h} : got'[f] = got[f]
          /\ \A i \in DOMAIN got'[h] : got'[h][i] = d \/ (i \in DOMAIN got[h] /\ got'[h][i] = got[h][i])
      <4>1. got[h] \in Seq(Datum) /\ got'[h] = Append(got[h], d)
        BY <2>3, <3>1 DEF DataInv, DataTyped
      <4>2. d \in Datum
        BY <2>1, <3>1 DEF DataInv, HeldInOrder
      <4>3. \A f \in Handlers \ {h} : got'[f] = got[f]
        BY <2>3 DEF DataInv, DataTyped
      <4> HIDE DEF Datum
      <4>4. \A i \in DOMAIN got'[h] : got'[h][i] = d \/ (i \in DOMAIN got[h] /\ got'[h][i] = got[h][i])
        BY <4>1, <4>2
      <4>5. QED
        BY <4>3, <4>4
    <3>3. SUFFICES ASSUME NEW g \in Handlers, NEW f \in Handlers, down'[g] = "writing",
                          NEW i \in DOMAIN got'[f], got'[f][i].of = held'[g].of
                   PROVE  got'[f][i].n < held'[g].n
      OBVIOUS
    <3>4. g # h /\ down[g] = "writing" /\ held'[g] = held[g]
      BY <2>1, <3>3
    <3>5. held[g].of # d.of
      BY <2>1, <3>1, <3>4, OneWriter DEF DataInv
    <3>6. i \in DOMAIN got[f] /\ got'[f][i] = got[f][i]
      BY <3>2, <3>3, <3>4, <3>5
    <3>7. QED
      BY <3>3, <3>4, <3>6
  <2>4. QED
    BY <2>1, <2>2, <2>3
<1>4. ASSUME NEW h \in Handlers, OpenReceive(h) \/ DownCancelled(h)
      PROVE  NewestHeld'
  <2>1. /\ UNCHANGED <<got, held>>
        /\ down' = down \/ \E there \in {"reading", "done"} : down' = [down EXCEPT ![h] = there]
    BY <1>4 DEF OpenReceive, DownCancelled, clientVars
  <2>2. \A g \in Handlers : down'[g] = "writing" => down[g] = "writing"
    BY <2>1 DEF LeaksInv, HandlersTyped
  <2>3. QED
    BY <1>1, <2>1, <2>2
<1>5. CASE Cancel \/ Shutdown \/ UNCHANGED vars
  BY <1>1, <1>5 DEF Cancel, Shutdown, vars, relayVars, clientVars
<1>6. ASSUME NEW h \in Handlers,
             \/ Accept(h) \/ TrackConn(h) \/ ClientGone(h) \/ Refuse(h) \/ CreateStream(h)
             \/ SendBegin(h) \/ OpenTimeout(h) \/ \E c \in Circuits : TakeCircuit(h, c)
      PROVE  NewestHeld'
  BY <1>1, <1>6 DEF Accept, TrackConn, ClientGone, Refuse, CreateStream, SendBegin, OpenTimeout,
       TakeCircuit, relayVars, clientVars
<1>7. ASSUME NEW h \in Handlers,
             \/ SendResolve(h) \/ ResolveReceive(h) \/ ResolveTimeout(h) \/ UpEnds(h) \/ UpFails(h)
             \/ Join(h) \/ Leave(h)
      PROVE  NewestHeld'
  BY <1>1, <1>7 DEF SendResolve, ResolveReceive, ResolveTimeout, UpEnds, UpFails, Join, Leave,
       relayVars, clientVars
<1>8. ASSUME NEW h \in Handlers, ExitConnects(h) \/ ExitSendsData(h) \/ ExitEnds(h) \/ ExitResolves(h)
      PROVE  NewestHeld'
  BY <1>1, <1>8 DEF ExitConnects, ExitSendsData, ExitEnds, ExitResolves, exitUnchanged, relayVars,
       clientVars
<1>9. QED
  BY <1>2, <1>3, <1>4, <1>5, <1>6, <1>7, <1>8 DEF Next

(* Two clients never get the same cell.                                    *)
GotOnce ==
  \A h, g \in Handlers : \A i \in DOMAIN got[h] : \A j \in DOMAIN got[g] :
    g # h /\ got[g][j].of = got[h][i].of => got[g][j].n # got[h][i].n

(* Only DownWrites gives a client data.                                    *)
LEMMA OnlyWritesGive ==
  ASSUME [Next]_vars, got' # got
  PROVE  \E h \in Handlers : DownWrites(h)
<1>1. \A h \in Handlers :
         ~(Accept(h) \/ TrackConn(h) \/ ClientGone(h) \/ Refuse(h) \/ CreateStream(h) \/ SendBegin(h)
           \/ OpenReceive(h) \/ OpenTimeout(h) \/ \E c \in Circuits : TakeCircuit(h, c))
  BY DEF Accept, TrackConn, ClientGone, Refuse, CreateStream, SendBegin, OpenReceive, OpenTimeout,
         TakeCircuit, clientVars
<1>2. \A h \in Handlers :
         ~(SendResolve(h) \/ ResolveReceive(h) \/ ResolveTimeout(h) \/ UpEnds(h) \/ UpFails(h)
           \/ DownReads(h) \/ DownCancelled(h) \/ Join(h) \/ Leave(h))
  BY DEF SendResolve, ResolveReceive, ResolveTimeout, UpEnds, UpFails, DownReads, DownCancelled,
         Join, Leave, clientVars
<1>3. \A h \in Handlers : ~(ExitConnects(h) \/ ExitSendsData(h) \/ ExitEnds(h) \/ ExitResolves(h))
  BY DEF ExitConnects, ExitSendsData, ExitEnds, ExitResolves, exitUnchanged, clientVars
<1>4. ~(Cancel \/ Shutdown \/ UNCHANGED vars)
  BY DEF Cancel, Shutdown, vars, clientVars
<1>5. QED
  BY <1>1, <1>2, <1>3, <1>4 DEF Next

(* What is written is newer than what anyone has got of its stream.        *)
LEMMA GotOnceStep ==
  ASSUME LeaksInv, DataInv, NewestHeld, GotOnce, [Next]_vars
  PROVE  GotOnce'
<1>1. CASE got' = got
  BY <1>1 DEF GotOnce
<1>2. ASSUME NEW h \in Handlers, DownWrites(h), got' # got
      PROVE  GotOnce'
  <2>1. PICK d : d = held[h]
    OBVIOUS
  <2>2. down[h] = "writing" /\ got' = [got EXCEPT ![h] = Append(@, d)]
    BY <1>2, <2>1 DEF DownWrites
  <2>3. d \in Datum /\ got \in [Handlers -> Seq(Datum)]
    BY <2>1, <2>2 DEF DataInv, DataTyped, HeldInOrder
  <2>4. \A g \in Handlers : \A i \in DOMAIN got[g] : got[g][i].of = d.of => got[g][i].n < d.n
    BY <2>1, <2>2 DEF NewestHeld
  <2>5. \A g \in Handlers : \A i \in DOMAIN got[g] : got[g][i].of = d.of => got[g][i].n # d.n
    <3>1. \A g \in Handlers : \A i \in DOMAIN got[g] : got[g][i].n \in Nat
      BY ElementsTyped DEF DataInv, Datum
    <3>2. d.n \in Nat
      BY <2>3 DEF Datum
    <3>3. QED
      BY <2>4, <3>1, <3>2
  <2>6. /\ \A g \in Handlers \ {h} : got'[g] = got[g]
        /\ \A i \in DOMAIN got'[h] : got'[h][i] = d \/ (i \in DOMAIN got[h] /\ got'[h][i] = got[h][i])
    <3> HIDE DEF Datum
    <3>1. QED
      BY <2>2, <2>3
  <2>7. QED
    BY <2>5, <2>6 DEF GotOnce
<1>3. QED
  BY <1>1, <1>2, OnlyWritesGive

(* What a client gets is of its own stream or of an earlier one with the   *)
(* same circuit and id; each cell is got once, by one client, and in the   *)
(* order of the exit, although queues hold cells of earlier users and ids  *)
(* come round again, for any connections, circuits, ids and queues         *)
(* (circuit.go:965-992).                                                   *)
THEOREM DataAlwaysInOrder == Spec => []OwnDataInOrder
<1> DEFINE Inv == LeaksInv /\ DataInv /\ NewestHeld /\ GotOnce
<1>1. Init => Inv
  <2> SUFFICES ASSUME Init PROVE Inv
    OBVIOUS
  <2>1. NewestHeld /\ GotOnce
    BY DEF Init, NewestHeld, GotOnce
  <2>2. QED
    BY <2>1, InitLeaksInv, InitDataInv
<1>2. Inv /\ [Next]_vars => Inv'
  BY LeaksStep, DataStep, NewestHeldStep, GotOnceStep
<1>3. Inv => OwnDataInOrder
  <2> SUFFICES ASSUME Inv, NEW h \in Handlers, NEW i \in DOMAIN got[h]
               PROVE  /\ circ[got[h][i].of] = circ[h] /\ sid[got[h][i].of] = sid[h]
                      /\ \A g \in Handlers : \A j \in DOMAIN got[g] : got[g][j].of = got[h][i].of =>
                           /\ g # h => got[g][j].n # got[h][i].n
                           /\ g = h /\ j < i => got[g][j].n < got[h][i].n
    BY DEF OwnDataInOrder
  <2>1. circ[got[h][i].of] = circ[h] /\ sid[got[h][i].of] = sid[h]
    BY DEF DataInv, GotInOrder, ForStreamOf
  <2>2. ASSUME NEW g \in Handlers, NEW j \in DOMAIN got[g], got[g][j].of = got[h][i].of, g # h
        PROVE  got[g][j].n # got[h][i].n
    BY <2>2 DEF GotOnce
  <2>3. ASSUME NEW j \in DOMAIN got[h], got[h][j].of = got[h][i].of, j < i
        PROVE  got[h][j].n < got[h][i].n
    <3>1. got[h] \in Seq(Datum)
      BY DEF DataInv, DataTyped
    <3>2. i \in j + 1 .. Len(got[h])
      <4> HIDE DEF Datum
      <4>1. QED
        BY <2>3, <3>1
    <3>3. QED
      BY <2>3, <3>2 DEF DataInv, GotInOrder
  <2>4. QED
    BY <2>1, <2>2, <2>3
<1>4. QED
  <2> HIDE DEF Inv
  <2>1. QED
    BY <1>1, <1>2, <1>3, PTL DEF Spec
-----------------------------------------------------------------------------
(* SocksRelay implements SocksStreams.                                     *)

StreamsInv == LeaksInv /\ DataInv /\ SidsGiven /\ NewestHeld

(* A step of the streams, or none.                                         *)
StreamStep == [Streaming!Next]_<<stages, names, sent, got, shutdown>>

(* Nothing that SocksStreams tells has changed.                            *)
LEMMA QuietStreams ==
  ASSUME UNCHANGED <<circ, sid, sent, got, shutdown>>,
         \A h \in Handlers : Stage(pc'[h]) = Stage(pc[h])
  PROVE  StreamStep
BY DEF StreamStep, stages, names

(* A handler that waited for a stream, or had one, ends.                   *)
LEMMA EndsStream ==
  ASSUME HandlersTyped, NEW h \in Handlers, pc[h] \notin {"idle", "leaving", "done"},
         NEW there \in {"leaving", "done"}, pc' = [pc EXCEPT ![h] = there],
         UNCHANGED <<circ, sid, sent, got, shutdown>>
  PROVE  StreamStep
<1>1. stages[h] \in {"waiting", "open"}
  BY DEF stages, Stage
<1>2. stages' = [stages EXCEPT ![h] = "ended"]
  BY DEF stages, Stage, HandlersTyped, WithStream
<1>3. names' = names
  BY DEF names
<1>4. Streaming!End(h)
  BY <1>1, <1>2, <1>3 DEF Streaming!End
<1>5. QED
  BY <1>4 DEF StreamStep, Streaming!Next

(* A connection is accepted, and waits.                                    *)
LEMMA AcceptsStream ==
  ASSUME HandlersTyped, NEW h \in Handlers, Accept(h)
  PROVE  StreamStep
<1>1. stages[h] = "none" /\ stages' = [stages EXCEPT ![h] = "waiting"]
  BY DEF Accept, stages, Stage, HandlersTyped, WithStream
<1>2. ~shutdown /\ UNCHANGED <<names, sent, got, shutdown>>
  BY DEF Accept, names, streamVars, poolVars, exitVars, clientVars
<1>3. Streaming!Accept(h)
  BY <1>1, <1>2 DEF Streaming!Accept
<1>4. QED
  BY <1>3 DEF StreamStep, Streaming!Next

(* CreateStream opens the stream of the next id.                           *)
LEMMA OpensStream ==
  ASSUME HandlersTyped, StreamsKnown, NEW h \in Handlers, CreateStream(h)
  PROVE  StreamStep
<1>1. pc[h] = "creating" /\ pc' = [pc EXCEPT ![h] = "beginning"] /\ sid' = [sid EXCEPT ![h] = nextID]
  BY DEF CreateStream
<1>2. UNCHANGED <<circ, sent, got, shutdown>>
  BY DEF CreateStream, serverVars, poolVars, exitVars, clientVars
<1>3. stages[h] = "waiting" /\ stages' = [stages EXCEPT ![h] = "open"]
  BY <1>1 DEF stages, Stage, HandlersTyped, WithStream
<1>4. circ[h] \in Circuits /\ nextID \in StreamIDs /\ nextID # 0
  BY <1>1, IdLimitAssumption DEF HandlersTyped, StreamsKnown, StreamIDs, WithCircuit
<1>5. PICK s : s = <<circ[h], nextID>>
  OBVIOUS
<1>6. names' = [names EXCEPT ![h] = s] /\ s \in Circuits \X StreamIDs
  BY <1>1, <1>2, <1>4, <1>5 DEF names, HandlersTyped
<1>7. Streaming!Open(h, s)
  BY <1>2, <1>3, <1>6 DEF Streaming!Open
<1>8. QED
  BY <1>6, <1>7 DEF StreamStep, Streaming!Next

(* The exit sends on a stream that was opened.                             *)
LEMMA SendsOnStream ==
  ASSUME SidsGiven, NEW h \in Handlers, ExitSendsData(h)
  PROVE  StreamStep
<1>1. exit[h] = "open" /\ sent' = [sent EXCEPT ![h] = @ + 1] /\ UNCHANGED <<pc, circ, sid, got, shutdown>>
  BY DEF ExitSendsData, exitUnchanged, serverVars, streamVars, poolVars, clientVars
<1>2. stages[h] \in {"open", "ended"}
  BY <1>1 DEF SidsGiven, stages, Stage, WithStream
<1>3. names[h] \in Circuits \X StreamIDs
  BY <1>1, IdLimitAssumption DEF SidsGiven, names, StreamIDs
<1>4. UNCHANGED <<stages, names>>
  BY <1>1 DEF stages, names
<1>5. Streaming!Send(h)
  BY <1>1, <1>2, <1>3, <1>4 DEF Streaming!Send
<1>6. QED
  BY <1>5 DEF StreamStep, Streaming!Next

(* What `down' writes was sent on a stream of that name, and is newer than *)
(* all that was got of it.                                                 *)
LEMMA ReceivesFromStream ==
  ASSUME LeaksInv, DataInv, NewestHeld, NEW h \in Handlers, DownWrites(h), got' # got
  PROVE  StreamStep
<1>1. /\ down[h] = "writing" /\ got' = [got EXCEPT ![h] = Append(@, held[h])]
      /\ UNCHANGED <<pc, circ, sid, sent, shutdown>>
  BY DEF DownWrites, serverVars, streamVars, poolVars
<1>2. PICK d : d = held[h]
  OBVIOUS
<1>3. d \in Datum /\ ForStreamOf(h, d)
  BY <1>1, <1>2 DEF DataInv, HeldInOrder
<1>4. stages[h] = "open"
  BY <1>1 DEF stages, Stage, LeaksInv, HandlersTyped, WithStream
<1>5. names[d.of] = names[h] /\ d.n <= sent[d.of] /\ d.of \in Handlers
  BY <1>3 DEF names, ForStreamOf, Datum
<1>6. Streaming!Newest(d)
  BY <1>1, <1>2 DEF Streaming!Newest, NewestHeld
<1>7. UNCHANGED <<stages, names>>
  BY <1>1 DEF stages, names
<1>8. Streaming!Receive(h, d)
  BY <1>1, <1>2, <1>4, <1>5, <1>6, <1>7 DEF Streaming!Receive
<1>9. QED
  BY <1>3, <1>8 DEF StreamStep, Streaming!Next, Datum

(* Every step of a connection is a step of its stream, or none.            *)
LEMMA StreamsStep ==
  ASSUME StreamsInv, [Next]_vars
  PROVE  StreamStep
<1> USE DEF StreamsInv, LeaksInv
<1>1. CASE Cancel \/ UNCHANGED vars
  BY <1>1, QuietStreams DEF Cancel, vars, serverVars, streamVars, poolVars, exitVars, clientVars
<1>2. CASE Shutdown
  <2>1. shutdown' = TRUE /\ UNCHANGED <<stages, names, sent, got>>
    BY <1>2 DEF Shutdown, stages, names, streamVars, poolVars, exitVars, clientVars
  <2>2. QED
    BY <2>1 DEF StreamStep, Streaming!Next, Streaming!Stop
<1>3. ASSUME NEW h \in Handlers, Accept(h) \/ CreateStream(h) \/ ExitSendsData(h)
      PROVE  StreamStep
  BY <1>3, AcceptsStream, OpensStream, SendsOnStream
<1>4. ASSUME NEW h \in Handlers, TrackConn(h)
      PROVE  StreamStep
  <2>1. /\ pc[h] = "tracking" /\ UNCHANGED <<circ, sid, sent, got, shutdown>>
        /\ \E there \in {"accepted", "done"} : pc' = [pc EXCEPT ![h] = there]
    BY <1>4, HandlersAssumption DEF TrackConn, ActiveKnown, streamVars, poolVars, exitVars, clientVars
  <2>2. CASE pc' = [pc EXCEPT ![h] = "accepted"]
    <3>1. \A g \in Handlers : Stage(pc'[g]) = Stage(pc[g])
      BY <2>1, <2>2 DEF HandlersTyped, Stage, WithStream
    <3>2. QED
      BY <2>1, <3>1, QuietStreams
  <2>3. CASE pc' = [pc EXCEPT ![h] = "done"]
    BY <2>1, <2>3, EndsStream
  <2>4. QED
    BY <2>1, <2>2, <2>3
<1>5. ASSUME NEW h \in Handlers, NEW c \in Circuits, TakeCircuit(h, c)
      PROVE  StreamStep
  <2>1. /\ pc[h] = "accepted" /\ UNCHANGED <<sid, sent, got, shutdown>>
        /\ circ' = [circ EXCEPT ![h] = c]
        /\ \E there \in {"creating", "querying"} : pc' = [pc EXCEPT ![h] = there]
    BY <1>5 DEF TakeCircuit, serverVars, streamVars, exitVars, clientVars
  <2>2. names' = names
    BY <2>1 DEF names, SidsGiven, HandlersTyped
  <2>3. stages' = stages
    BY <2>1 DEF stages, Stage, HandlersTyped, WithStream
  <2>4. QED
    BY <2>1, <2>2, <2>3 DEF StreamStep
<1>6. ASSUME NEW h \in Handlers, ClientGone(h) \/ UpEnds(h) \/ UpFails(h) \/ DownReads(h) \/ DownCancelled(h)
      PROVE  StreamStep
  <2>1. UNCHANGED <<pc, circ, sid, sent, got, shutdown>>
    BY <1>6 DEF ClientGone, UpEnds, UpFails, DownReads, DownCancelled, serverVars, streamVars, poolVars,
         exitVars, clientVars
  <2>2. QED
    BY <2>1, QuietStreams
<1>7. ASSUME NEW h \in Handlers, DownWrites(h)
      PROVE  StreamStep
  <2>1. CASE got' # got
    BY <1>7, <2>1, ReceivesFromStream
  <2>2. CASE got' = got
    <3>1. UNCHANGED <<pc, circ, sid, sent, got, shutdown>>
      BY <1>7, <2>2 DEF DownWrites, serverVars, streamVars, poolVars
    <3>2. QED
      BY <3>1, QuietStreams
  <2>3. QED
    BY <2>1, <2>2
<1>8. ASSUME NEW h \in Handlers, ExitConnects(h) \/ ExitEnds(h) \/ ExitResolves(h)
      PROVE  StreamStep
  <2>1. UNCHANGED <<pc, circ, sid, sent, got, shutdown>>
    BY <1>8 DEF ExitConnects, ExitEnds, ExitResolves, exitUnchanged, serverVars, streamVars, poolVars,
         clientVars
  <2>2. QED
    BY <2>1, QuietStreams
<1>9. ASSUME NEW h \in Handlers,
             \/ Refuse(h) \/ SendBegin(h) \/ OpenReceive(h) \/ OpenTimeout(h)
             \/ SendResolve(h) \/ ResolveReceive(h) \/ ResolveTimeout(h) \/ Join(h)
      PROVE  StreamStep
  <2>1. UNCHANGED <<circ, sid, sent, got, shutdown>>
    BY <1>9 DEF Refuse, SendBegin, OpenReceive, OpenTimeout, SendResolve, ResolveReceive, ResolveTimeout,
         Join, serverVars, streamVars, poolVars, exitVars, clientVars
  <2>2. /\ pc[h] \notin {"idle", "leaving", "done"}
        /\ \/ pc' = [pc EXCEPT ![h] = "leaving"]
           \/ pc[h] = "beginning" /\ pc' = [pc EXCEPT ![h] = "opening"]
           \/ pc[h] = "opening" /\ pc' = [pc EXCEPT ![h] = "relaying"]
           \/ pc[h] = "querying" /\ pc' = [pc EXCEPT ![h] = "resolving"]
    <3>1. CASE OpenReceive(h)
      BY <3>1 DEF OpenReceive
    <3>2. CASE ~OpenReceive(h)
      BY <1>9, <3>2 DEF Refuse, SendBegin, OpenTimeout, SendResolve, ResolveReceive, ResolveTimeout, Join
    <3>3. QED
      BY <3>1, <3>2
  <2>3. CASE pc' = [pc EXCEPT ![h] = "leaving"]
    BY <2>1, <2>2, <2>3, EndsStream
  <2>4. CASE pc' # [pc EXCEPT ![h] = "leaving"]
    <3>1. \A g \in Handlers : Stage(pc'[g]) = Stage(pc[g])
      BY <2>2, <2>4 DEF HandlersTyped, Stage, WithStream
    <3>2. QED
      BY <2>1, <3>1, QuietStreams
  <2>5. QED
    BY <2>3, <2>4
<1>10. ASSUME NEW h \in Handlers, Leave(h)
       PROVE  StreamStep
  <2>1. /\ UNCHANGED <<circ, sid, sent, got, shutdown>>
        /\ pc[h] = "leaving" /\ pc' = [pc EXCEPT ![h] = "done"]
    BY <1>10 DEF Leave, exitVars, clientVars
  <2>2. \A g \in Handlers : Stage(pc'[g]) = Stage(pc[g])
    BY <2>1 DEF HandlersTyped, Stage, WithStream
  <2>3. QED
    BY <2>1, <2>2, QuietStreams
<1>11. QED
  BY <1>1, <1>2, <1>3, <1>4, <1>5, <1>6, <1>7, <1>8, <1>9, <1>10 DEF Next

(* Connections are streams as SocksStreams says, for any connections,      *)
(* circuits, ids, limits and queues: a client gets data only between the   *)
(* opening of its stream and its end, whichever way it ends, and only of   *)
(* streams that had its circuit and id; a cell that an exit sent is got by *)
(* one client at most, once, and after the cells the exit sent before it   *)
(* that were got; nothing is accepted after Shutdown (circuit.go:840-992,  *)
(* socks.go:187-447, 719-839).                                             *)
THEOREM StreamsArePromised == Spec => ImplementsStreams
<1>1. Init => StreamsInv
  <2> SUFFICES ASSUME Init PROVE StreamsInv
    OBVIOUS
  <2>1. SidsGiven /\ NewestHeld
    BY DEF Init, SidsGiven, NewestHeld, WithStream
  <2>2. QED
    BY <2>1, InitLeaksInv, InitDataInv DEF StreamsInv
<1>2. StreamsInv /\ [Next]_vars => StreamsInv'
  BY LeaksStep, DataStep, SidsGivenStep, NewestHeldStep DEF StreamsInv
<1>3. Init => Streaming!Init
  BY DEF Init, Streaming!Init, stages, names, Stage
<1>4. StreamsInv /\ [Next]_vars => [Streaming!Next]_<<stages, names, sent, got, shutdown>>
  BY StreamsStep DEF StreamStep
<1>5. QED
  BY <1>1, <1>2, <1>3, <1>4, PTL DEF Spec, ImplementsStreams, Streaming!Spec
=============================================================================
