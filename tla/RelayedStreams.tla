--------------------------- MODULE RelayedStreams ---------------------------
(***************************************************************************)
(* SOCKS connections as SocksStreams tells them: how far each is, and the  *)
(* name of its stream, which is its circuit and its stream id.             *)
(***************************************************************************)
EXTENDS SocksRelay

Stage(place) ==
  IF place = "idle" THEN "none"
  ELSE IF place \in WithStream THEN "open"
  ELSE IF place \in {"leaving", "done"} THEN "ended"
  ELSE "waiting"

stages == [h \in Handlers |-> Stage(pc[h])]
names == [h \in Handlers |-> IF sid[h] = 0 THEN None ELSE <<circ[h], sid[h]>>]

Streaming == INSTANCE SocksStreams
               WITH Streams <- Circuits \X StreamIDs,
                    stage <- stages, stream <- names, stopped <- shutdown

(* Handlers, circuits, their queues and the exit implement the streams: a  *)
(* client gets data only while its connection is open, each cell of an     *)
(* exit reaches one client once and none after a later one, also when      *)
(* cells of earlier users are left in the queue, ids wrap or Shutdown      *)
(* comes in between (circuit.go:840-992, socks.go:187-447, 719-839).       *)
ImplementsStreams == Streaming!Spec
=============================================================================
