----------------------------- MODULE MCServices -----------------------------
(***************************************************************************)
(* Small instances of CircuitFlow, ConfigReload, ControlEvents and         *)
(* CircuitBreaker for TLC.  They do not interact, and are explored one at  *)
(* a time.                                                                 *)
(***************************************************************************)
EXTENDS CircuitFlow, ConfigReload, ControlEvents, CircuitBreaker

CONSTANTS s1, s2, w, m1, c1, ea, eb, b1, b2, b3

Line(k, v) == [key |-> k, value |-> v]

(* A file that sets options of both kinds, an unknown one, and one twice;  *)
(* one that does not parse, one that is not valid while the usual ports    *)
(* are taken, and none.                                                    *)
MCFiles ==
  { << Line("IsolateSOCKSAuth", 1), Line("LogLevel", 2), Line("SocksPort", 9150), Line("LogLevel", 3) >>,
    << Line("CircuitBuildTimeout", NotANumber) >>,
    << Line("ControlPort", 9052) >>,
    Absent }
MCRunning == [DefaultConfig(<<9050, 9051>>) EXCEPT !["IsolateSOCKSAuth"] = 1]

MCInit == Init /\ ReloadInit /\ ControlInit /\ BreakerInit

(* The others move while there is no file.                                 *)
ReloadAside == ReloadInit /\ file.lines = Absent

(* Bound: nobody calls Reload once Stop has been called.                   *)
NoReloadAfterStop == stop = "no" \/ Busy \subseteq {Watcher}

MCNext ==
  \/ /\ ReloadAside /\ ControlInit /\ BreakerInit /\ Next
     /\ UNCHANGED <<reloadVars, controlVars, breakerVars>>
  \/ /\ Init /\ ControlInit /\ BreakerInit /\ ReloadNext /\ NoReloadAfterStop'
     /\ UNCHANGED <<vars, controlVars, breakerVars>>
  \/ /\ Init /\ ReloadAside /\ BreakerInit /\ ControlNext
     /\ UNCHANGED <<vars, reloadVars, breakerVars>>
  \/ /\ Init /\ ReloadAside /\ ControlInit /\ BreakerNext
     /\ UNCHANGED <<vars, reloadVars, controlVars>>
MCSpec ==
  /\ MCInit /\ [][MCNext]_<<vars, reloadVars, controlVars, breakerVars>>
  /\ Fairness /\ ControlFairness
=============================================================================
