--------------------------- MODULE CircuitIsolation ---------------------------
(***************************************************************************)
(* Isolation keys (pkg/circuit/isolation.go), and the one a SOCKS request  *)
(* gets (pkg/socks/socks.go).  A key has a field for each level but        *)
(* "none", here named after it.  Names and tokens stand for their hashes,  *)
(* which are different when they are.                                      *)
(***************************************************************************)

CONSTANTS
  NoKey,     (* nil                                                        *)
  Blank      (* an empty string, or port 0                                 *)

Fields == {"destination", "credential", "port", "session"}
Levels == {"none"} \cup Fields

(* What a configuration may say; anything else means none.                 *)
ParseIsolationLevel(s) ==
  IF s = "credentials" THEN "credential" ELSE IF s \in Levels THEN s ELSE "none"

NewIsolationKey(level) == [level |-> level, of |-> [f \in Fields |-> Blank]]

With(k, field, value) == [k EXCEPT !.of[field] = value]

(* WithCredentials and WithSessionToken leave the field when they get "".  *)
WithHashed(k, field, value) == IF value = Blank THEN k ELSE With(k, field, value)

Field(k) == k.of[k.level]

(* IsolationKey.Key: where the pool keeps the circuits of k, "" for all    *)
(* that have none.                                                         *)
Unisolated == << >>
Key(k) ==
  IF k = NoKey THEN Unisolated
  ELSE IF k.level = "none" THEN Unisolated ELSE <<k.level, Field(k)>>

Equals(k, other) ==
  \/ k = NoKey /\ other = NoKey
  \/ /\ k # NoKey /\ other # NoKey
     /\ k.level = other.level
     /\ k.level = "none" \/ Field(k) = Field(other)

(* Every target of a request has a port.                                   *)
Validate(k) == k # NoKey /\ (k.level # "none" => Field(k) # Blank)

-----------------------------------------------------------------------------
(* A request is its target, its user name, and the port it comes from; no  *)
(* request has a session token.  A configuration has a level and the set   *)
(* of levels whose Isolate flag is on; "session" has none.  A key that is  *)
(* not valid means no isolation.                                           *)

Filled(cfg, r) ==
  LET k == NewIsolationKey(cfg.level) IN
    IF cfg.level \notin cfg.isolate THEN k
    ELSE IF cfg.level = "credential" THEN WithHashed(k, cfg.level, r[cfg.level])
    ELSE With(k, cfg.level, r[cfg.level])

RequestKey(cfg, r) ==
  IF cfg.level # "none" /\ Validate(Filled(cfg, r)) THEN Filled(cfg, r) ELSE NoKey

NoRequest == [f \in Fields |-> Blank]
=============================================================================
