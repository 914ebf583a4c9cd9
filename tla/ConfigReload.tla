---------------------------- MODULE ConfigReload ----------------------------
(***************************************************************************)
(* Hot reload (pkg/config): ReloadableConfig with its watcher, calls of    *)
(* Reload next to it, callbacks, and Stop; and what the loader makes of a  *)
(* file.  The watcher and a call of Reload are a "reload" each; they meet  *)
(* without a lock but around the two halves of applyConfig.                *)
(*                                                                         *)
(* An option has an integer for its value; a few stand for their kind.     *)
(***************************************************************************)
EXTENDS Integers, Sequences, SequencesExt

CONSTANTS
  Watcher,       (* the goroutine in StartWatcher                          *)
  Manual,        (* goroutines that call Reload                            *)
  Files,         (* what the file may hold: sequences of lines             *)
  Running,       (* the configuration the program has started with         *)
  NumCallbacks, MaxWrites

ASSUME ReloadAssumption ==
  Watcher \notin Manual /\ NumCallbacks \in Nat /\ MaxWrites \in Nat

Reloads == {Watcher} \cup Manual

VARIABLES
  file,         (* the file: lines, and the time it was modified           *)
  config,       (* ReloadableConfig.config                                 *)
  lastModTime,
  registered,   (* length of reloadCallbacks                               *)
  watching,     (* the watcher: not started, selecting, checking or done   *)
  stop,         (* Stop: not called, waiting for doneCh, or returned       *)
  doing,        (* where a reload is                                       *)
  seen,         (* the time the watcher's stat has shown                   *)
  new,          (* what a reload has loaded, then what it has merged       *)
  calls,        (* the callbacks it will call                              *)
  called,       (* and those that have accepted                            *)
  told,         (* what each callback has accepted last                    *)
  writes,       (* bound: changes of the file                              *)
  hidden,       (* history: no stat need show the latest change            *)
  met,          (* history: reloads that ran together with another         *)
  torn          (* history: callbacks and configuration may differ         *)

fileVars   == <<file, writes>>
watchVars  == <<watching, stop>>
reloadVars == <<fileVars, config, lastModTime, registered, watchVars, doing, seen, new,
                calls, called, told, hidden, met, torn>>

-----------------------------------------------------------------------------
(* The loader.                                                             *)

ParsedOptions == {"SocksPort", "ControlPort", "CircuitBuildTimeout", "LogLevel"}
ReloadableFields ==
  {"LogLevel", "CircuitBuildTimeout", "CircuitPoolMinSize", "CircuitPoolMaxSize", "IsolateSOCKSAuth"}
Options == ParsedOptions \cup ReloadableFields

NotANumber == -99

(* The default ports are those that are free when it is called, and the    *)
(* program itself may be listening on the usual ones.                      *)
DefaultConfig(ports) ==
  [o \in Options |->
     CASE o = "SocksPort" -> ports[1] [] o = "ControlPort" -> ports[2]
       [] o = "CircuitBuildTimeout" -> 60 [] o = "LogLevel" -> 1
       [] o = "CircuitPoolMinSize" -> 2 [] o = "CircuitPoolMaxSize" -> 10
       [] o = "IsolateSOCKSAuth" -> 0]
DefaultPorts == {<<9050, 9051>>, <<9052, 9053>>}

(* An unknown option is ignored.                                           *)
ProcessConfigOption(cfg, line) ==
  IF line.key \in ParsedOptions THEN [cfg EXCEPT ![line.key] = line.value] ELSE cfg

Validate(c) ==
  /\ c["SocksPort"] \in 0 .. 65535 /\ c["ControlPort"] \in 0 .. 65535
  /\ c["SocksPort"] # c["ControlPort"] \/ c["ControlPort"] = 0
  /\ c["CircuitBuildTimeout"] > 0
  /\ c["LogLevel"] \in 0 .. 3
  /\ 0 <= c["CircuitPoolMinSize"] /\ c["CircuitPoolMinSize"] <= c["CircuitPoolMaxSize"]

(* A file that is not there is represented by no lines at all.             *)
Absent == << >>
Loaded(lines, ports) == FoldLeft(ProcessConfigOption, DefaultConfig(ports), lines)
Loads(lines, ports) ==
  /\ lines # Absent
  /\ \A i \in DOMAIN lines : lines[i].key \in ParsedOptions => lines[i].value # NotANumber
  /\ Validate(Loaded(lines, ports))

MergeReloadableFields(old, loaded) ==
  [o \in Options |-> IF o \in ReloadableFields THEN loaded[o] ELSE old[o]]

-----------------------------------------------------------------------------
NotTold == << >>

ReloadInit ==
  /\ file \in [lines : Files, modTime : {1}]
  /\ config = Running
  /\ lastModTime = IF file.lines = Absent THEN 0 ELSE 1
  /\ registered = 0
  /\ watching = "no" /\ stop = "no"
  /\ doing = [r \in Reloads |-> "idle"]
  /\ seen = 0
  /\ new = [r \in Reloads |-> Running]
  /\ calls = [r \in Reloads |-> 0] /\ called = [r \in Reloads |-> 0]
  /\ told = [c \in 1 .. NumCallbacks |-> NotTold]
  /\ writes = 0
  /\ hidden = TRUE
  /\ met = {} /\ torn = FALSE

Busy == {r \in Reloads : doing[r] # "idle"}

(* The file is replaced or removed, by one that is newer, or older.  A     *)
(* stat need not show it when the time is no later than one that a reload  *)
(* has seen, or will see only after it has read the old lines.             *)
Write ==
  /\ writes < MaxWrites
  /\ writes' = writes + 1
  /\ \E lines \in Files \ {file.lines}, m \in 1 .. MaxWrites + 1 :
       /\ file' = [lines |-> lines, modTime |-> m]
       /\ hidden' = ~(m > lastModTime /\ Busy \cap Manual = {} /\ (Watcher \in Busy => m > seen))
  /\ UNCHANGED <<config, lastModTime, registered, watchVars, doing, seen, new, calls, called, told, met, torn>>

OnReload ==
  /\ registered < NumCallbacks
  /\ registered' = registered + 1
  /\ UNCHANGED <<fileVars, config, lastModTime, watchVars, doing, seen, new, calls, called, told, hidden, met, torn>>

-----------------------------------------------------------------------------
(* The steps of a reload.                                                  *)

Begin(r) ==
  /\ doing' = [doing EXCEPT ![r] = "load"]
  /\ met' = IF Busy = {} THEN met ELSE met \cup Busy \cup {r}
  /\ hidden' = (hidden \/ Busy # {})

(* The end of a reload, and of its local variables; the watcher goes back  *)
(* to its select.                                                          *)
End(r) ==
  /\ doing' = [doing EXCEPT ![r] = "idle"]
  /\ new' = [new EXCEPT ![r] = Running]
  /\ calls' = [calls EXCEPT ![r] = 0]
  /\ called' = [called EXCEPT ![r] = 0]
  /\ seen' = IF r = Watcher THEN 0 ELSE seen
  /\ met' = met \ {r}
  /\ watching' = IF r = Watcher THEN "select" ELSE watching

(* The watcher's tick: checkAndReload.                                     *)
Check ==
  /\ watching = "select"
  /\ file.lines # Absent /\ file.modTime > lastModTime
  /\ seen' = file.modTime
  /\ watching' = "checking"
  /\ Begin(Watcher)
  /\ UNCHANGED <<fileVars, config, lastModTime, registered, stop, new, calls, called, told, torn>>

Reload(r) ==
  /\ r \in Manual /\ doing[r] = "idle"
  /\ Begin(r)
  /\ UNCHANGED <<fileVars, config, lastModTime, registered, watchVars, seen, new, calls, called, told, torn>>

Load(r) ==
  /\ doing[r] = "load"
  /\ \E ports \in DefaultPorts :
       \/ /\ Loads(file.lines, ports)
          /\ new' = [new EXCEPT ![r] = Loaded(file.lines, ports)]
          /\ doing' = [doing EXCEPT ![r] = "merge"]
          /\ UNCHANGED <<seen, calls, called, met, watching>>
       \/ /\ ~Loads(file.lines, ports)
          /\ End(r)
  /\ UNCHANGED <<fileVars, config, lastModTime, registered, stop, told, hidden, torn>>

(* The first half of applyConfig, and the start of its loop.               *)
Merge(r) ==
  /\ doing[r] = "merge"
  /\ new' = [new EXCEPT ![r] = MergeReloadableFields(config, @)]
  /\ calls' = [calls EXCEPT ![r] = registered]
  /\ called' = [called EXCEPT ![r] = 0]
  /\ doing' = [doing EXCEPT ![r] = "call"]
  /\ UNCHANGED <<fileVars, config, lastModTime, registered, watchVars, seen, told, hidden, met, torn>>

CallbackAccepts(r) ==
  /\ doing[r] = "call" /\ called[r] < calls[r]
  /\ called' = [called EXCEPT ![r] = @ + 1]
  /\ told' = [told EXCEPT ![called'[r]] = new[r]]
  /\ UNCHANGED <<fileVars, config, lastModTime, registered, watchVars, doing, seen, new, calls, hidden, met, torn>>

(* Mutant: the error of a callback does not keep applyConfig from storing. *)
RefuseAndStore(r) ==
  /\ doing[r] = "call" /\ called[r] < calls[r]
  /\ config' = new[r]
  /\ torn' = (torn \/ called[r] > 0)
  /\ End(r)
  /\ UNCHANGED <<fileVars, lastModTime, registered, stop, told, hidden>>

(* A callback that fails ends the reload; those before it are not told.    *)
CallbackRefuses(r) ==
  /\ doing[r] = "call" /\ called[r] < calls[r]
  /\ torn' = (torn \/ called[r] > 0)
  /\ End(r)
  /\ UNCHANGED <<fileVars, config, lastModTime, registered, stop, told, hidden>>

Store(r) ==
  /\ doing[r] = "call" /\ called[r] = calls[r]
  /\ config' = new[r]
  /\ doing' = [doing EXCEPT ![r] = "stored"]
  /\ torn' = (r \in met)
  /\ UNCHANGED <<fileVars, lastModTime, registered, watchVars, seen, new, calls, called, told, hidden, met>>

(* Mutant: the watcher, too, stats the file after it has read it.          *)
FinishByLastStat(r) ==
  /\ doing[r] = "stored"
  /\ lastModTime' = IF file.lines = Absent THEN lastModTime ELSE file.modTime
  /\ End(r)
  /\ UNCHANGED <<fileVars, config, registered, stop, told, hidden, torn>>

(* The watcher keeps the time it saw before it loaded, Reload stats again. *)
Finish(r) ==
  /\ doing[r] = "stored"
  /\ lastModTime' = IF r = Watcher THEN seen
                    ELSE IF file.lines = Absent THEN lastModTime ELSE file.modTime
  /\ End(r)
  /\ UNCHANGED <<fileVars, config, registered, stop, told, hidden, torn>>

-----------------------------------------------------------------------------
(* The watcher.                                                            *)

WatchOnly == UNCHANGED <<fileVars, config, lastModTime, registered, doing, seen, new, calls, called, told, hidden, met, torn>>

StartWatcher == watching = "no" /\ watching' = "select" /\ UNCHANGED stop /\ WatchOnly

(* The context is done, or stopCh is closed.                               *)
WatcherEnds == watching = "select" /\ watching' = "done" /\ UNCHANGED stop /\ WatchOnly

(* A second call would close stopCh twice and panic.  Without a watcher    *)
(* nothing ever closes doneCh.                                             *)
Stop == stop = "no" /\ stop' = "waiting" /\ UNCHANGED watching /\ WatchOnly
StopEnds == stop = "waiting" /\ watching = "done" /\ stop' = "returned" /\ UNCHANGED watching /\ WatchOnly

ReloadStep(r) == Load(r) \/ Merge(r) \/ CallbackAccepts(r) \/ CallbackRefuses(r) \/ Store(r) \/ Finish(r)

ReloadNext ==
  \/ Write \/ OnReload
  \/ Check \/ \E r \in Manual : Reload(r)
  \/ \E r \in Reloads : ReloadStep(r)
  \/ StartWatcher \/ WatcherEnds \/ Stop \/ StopEnds

ReloadSpec == ReloadInit /\ [][ReloadNext]_reloadVars

-----------------------------------------------------------------------------
(* At rest, a file that the watcher will not look at again is the one in   *)
(* force, unless its change could not be seen: a file with an older time,  *)
(* a change during a Reload, which stats the file after reading it, or     *)
(* reloads that overlapped (reload.go:133-207, 228-256).                   *)
NoChangeMissed ==
  Busy = {} /\ ~hidden /\ file.lines # Absent /\ file.modTime <= lastModTime =>
    \E ports \in DefaultPorts : config = MergeReloadableFields(config, Loaded(file.lines, ports))

(* At rest, what a callback has accepted last is what is in force, unless  *)
(* a later callback refused it or reloads overlapped, until a reload has   *)
(* gone through alone (reload.go:228-256).                                 *)
CallbacksAgree ==
  Busy = {} /\ ~torn => \A c \in 1 .. registered : told[c] \in {NotTold, config}
=============================================================================
