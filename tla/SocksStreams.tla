---------------------------- MODULE SocksStreams ----------------------------
(***************************************************************************)
(* What SOCKS promises of its streams: a connection is accepted until the  *)
(* server stops, opens a stream at most once, and ends.  While it is open, *)
(* and not after, its client gets what the exit sent on its stream; what   *)
(* is sent may be lost, but is got at most once, by one client, and in the *)
(* order it was sent in.  Streams have names, which may be used again: who *)
(* has one name cannot be told apart.                                      *)
(***************************************************************************)
EXTENDS Integers, Sequences

CONSTANTS Handlers, Streams, None

VARIABLES
  stage,      (* "none", "waiting", "open" or "ended"                      *)
  stream,     (* the name of its stream                                    *)
  sent,       (* how much the exit has sent on it                          *)
  got,        (* what its client has got: whose, and which                 *)
  stopped     (* no further connection is accepted                         *)

Init ==
  /\ stage = [h \in Handlers |-> "none"]
  /\ stream = [h \in Handlers |-> None]
  /\ sent = [h \in Handlers |-> 0]
  /\ got = [h \in Handlers |-> << >>]
  /\ stopped = FALSE

Accept(h) ==
  /\ ~stopped /\ stage[h] = "none"
  /\ stage' = [stage EXCEPT ![h] = "waiting"]
  /\ UNCHANGED <<stream, sent, got, stopped>>

Open(h, s) ==
  /\ stage[h] = "waiting"
  /\ stage' = [stage EXCEPT ![h] = "open"]
  /\ stream' = [stream EXCEPT ![h] = s]
  /\ UNCHANGED <<sent, got, stopped>>

(* The exit may not know that the connection has ended.                    *)
Send(h) ==
  /\ stage[h] \in {"open", "ended"} /\ stream[h] \in Streams
  /\ sent' = [sent EXCEPT ![h] = @ + 1]
  /\ UNCHANGED <<stage, stream, got, stopped>>

Newest(d) ==
  \A g \in Handlers : \A i \in DOMAIN got[g] : got[g][i].of = d.of => got[g][i].n < d.n

Receive(h, d) ==
  /\ stage[h] = "open" /\ stream[d.of] = stream[h]
  /\ d.n <= sent[d.of] /\ Newest(d)
  /\ got' = [got EXCEPT ![h] = Append(@, d)]
  /\ UNCHANGED <<stage, stream, sent, stopped>>

End(h) ==
  /\ stage[h] \in {"waiting", "open"}
  /\ stage' = [stage EXCEPT ![h] = "ended"]
  /\ UNCHANGED <<stream, sent, got, stopped>>

Stop == stopped' = TRUE /\ UNCHANGED <<stage, stream, sent, got>>

Next ==
  \/ Stop
  \/ \E h \in Handlers : Accept(h) \/ Send(h) \/ End(h)
  \/ \E h \in Handlers, s \in Streams : Open(h, s)
  \/ \E h \in Handlers, d \in [of : Handlers, n : Nat] : Receive(h, d)

Spec == Init /\ [][Next]_<<stage, stream, sent, got, stopped>>
=============================================================================
