-------------------------- MODULE LifecycleProofs ---------------------------
(***************************************************************************)
(* The safety of the process's life, for every set of modes, files and     *)
(* calls and every default.  Both invariants are about what goroutines     *)
(* that nothing orders leave behind for each other, so the inductive       *)
(* invariant says what each of them implies for the others: no goroutine   *)
(* of Run is there unless main waits in its select or has left it, what    *)
(* main prepared before is complete by then, and every trace of a signal   *)
(* in any goroutine goes back to a signal that was sent.                   *)
(***************************************************************************)
EXTENDS Lifecycle, TLAPS

\* A configuration that validation or the defaults have produced.
UsableConfigs == {c \in Configs : /\ c.identifier \in WellFormed \cup {NotGiven}
                                  /\ \A n \in Numbers : c.number[n] > 0}

\* What main loads is usable, from the first step on.
ConfigUsable == cfg \in UsableConfigs \cup {NoConfig}

\* Nothing of drv.Run exists before main has started it or after the end.
QuietOutsideSelect ==
    main \notin {"select", "metrics"} =>
        /\ run = "none" /\ stop = "none" /\ server = "none"
        /\ ~sigMain /\ ~sigRun /\ errChan = "empty"

\* Past NewDriver everything the services use is there.
PreparedBySpawn ==
    main \in {"spawn", "select", "metrics"} =>
        /\ cfg # NoConfig
        /\ "controller" \in services => backend
        /\ "node" \in services => kube

\* A signal on its way, a server that stops and an end without error all say
\* that the process has been asked to end.
TracesOfSignal ==
    \/ asked
    \/ /\ ~sigMain /\ ~sigRun
       /\ stop \in {"none", "wait"} /\ server \notin {"draining", "stopped"}
       /\ errChan # "nil" /\ main # "metrics" /\ exit # "0"

LifecycleInv ==
    /\ TypeOK
    /\ ConfigUsable
    /\ QuietOutsideSelect
    /\ PreparedBySpawn
    /\ TracesOfSignal

-----------------------------------------------------------------------------
(***************************************************************************)
(* The configuration.                                                      *)
(***************************************************************************)

\* applyDefaults (pkg/config/config.go) keeps the names and makes every number
\* positive, whatever the file says.
LEMMA DefaultsApplied ==
    ASSUME NEW c \in Configs
    PROVE  /\ applyDefaults(c) \in Configs
           /\ applyDefaults(c).identifier = c.identifier
           /\ \A n \in Numbers : applyDefaults(c).number[n] > 0
<1>0. c.number \in [Numbers -> Int] /\ c.maxVolumesPerNode \in Int
  BY DEF Configs
<1>1. \A n \in Numbers : /\ PositiveOrDefault(c.number[n]) \in Int
                         /\ PositiveOrDefault(c.number[n]) > 0
  BY <1>0, ConfigConstants DEF PositiveOrDefault
<1>2. (IF c.maxVolumesPerNode = 0 THEN DefaultMaxVolumesPerNode
                                  ELSE c.maxVolumesPerNode) \in Int
  BY ConfigConstants DEF Configs
<1> QED BY <1>1, <1>2 DEF applyDefaults, Configs

\* The configuration of a node, which reads no file, is usable.
LEMMA NodeConfigUsable == NewWithDefaults \in UsableConfigs
<1>1. EmptyConfig \in Configs /\ EmptyConfig.identifier = NotGiven
  BY DEF EmptyConfig, Configs
<1> QED BY <1>1, DefaultsApplied DEF NewWithDefaults, UsableConfigs

\* LoadFromPath and Validate let a usable configuration through or none.
LEMMA LoadedConfigUsable ==
    ASSUME NEW f \in Files
    PROVE  LoadFromPath(f) \in UsableConfigs \cup {NoConfig}
<1>1. CASE f = NoConfig
  BY <1>1 DEF LoadFromPath
<1>2. CASE f # NoConfig
  <2>1. f \in Configs
    BY <1>2, LifecycleConstants
  <2> QED BY <2>1, DefaultsApplied DEF LoadFromPath, Validate, isValidIdentifier, UsableConfigs
<1> QED BY <1>1, <1>2

-----------------------------------------------------------------------------
(***************************************************************************)
(* The steps.                                                              *)
(***************************************************************************)

\* However the process ends, only the socket's file is left of it.
LEMMA ExitKeepsInv ==
    ASSUME LifecycleInv, NEW how \in {"0", "1", "signal"}, Exit(how), how = "0" => asked
    PROVE  LifecycleInv'
<1>1. TypeOK'
  BY DEF Exit, LifecycleInv, TypeOK, MainPCs, RunPCs, StopPCs, argVars, setupVars
<1>2. (ConfigUsable /\ QuietOutsideSelect /\ PreparedBySpawn)'
  BY DEF Exit, LifecycleInv, TypeOK, ConfigUsable, QuietOutsideSelect, PreparedBySpawn,
         setupVars
<1>3. TracesOfSignal'
  BY DEF Exit, LifecycleInv, TypeOK, TracesOfSignal
<1> QED BY <1>1, <1>2, <1>3 DEF LifecycleInv

\* The start, up to the goroutine of drv.Run (main.go, NewDriver).
LEMMA StartKeepsInv ==
    ASSUME LifecycleInv,
           LoadConfig \/ CreateBackend \/ CheckZone \/ NewDriver \/ Spawn
    PROVE  LifecycleInv'
<1> USE DEF argVars, setupVars
<1>1. CASE Exit("1")
  BY <1>1, ExitKeepsInv
<1>2. CASE LoadConfig /\ ~Exit("1")
  <2>1. cfg' \in UsableConfigs \cup {NoConfig}
    BY <1>2, LoadedConfigUsable, NodeConfigUsable DEF LoadConfig, LifecycleInv, TypeOK
  <2> QED BY <1>2, <2>1 DEF LoadConfig, MainGoto, LifecycleInv, TypeOK, ConfigUsable,
             QuietOutsideSelect, PreparedBySpawn, TracesOfSignal, MainPCs, UsableConfigs
<1>3. CASE (CreateBackend \/ CheckZone) /\ ~Exit("1")
  <2>0. ControllerFlag \in BOOLEAN /\ NodeFlag \in BOOLEAN
    BY DEF ControllerFlag, NodeFlag
  <2>1. backend' \in BOOLEAN /\ kube' \in BOOLEAN
    BY <1>3, <2>0 DEF CreateBackend, CheckZone, LifecycleInv, TypeOK
  <2>2. /\ main' \in {"zone", "newDriver"}
        /\ UNCHANGED <<mode, file, cfg, services, run, stop, server, sigMain, sigRun, errChan,
                       exit, socket, asked, call>>
        /\ main \notin {"select", "metrics"}
    BY <1>3 DEF CreateBackend, CheckZone, MainGoto
  <2> QED BY <2>1, <2>2 DEF LifecycleInv, TypeOK, ConfigUsable, QuietOutsideSelect,
                            PreparedBySpawn, TracesOfSignal, MainPCs
<1>4. CASE NewDriver /\ ~Exit("1")
  <2>1. /\ cfg' \in UsableConfigs /\ cfg' # NoConfig
        /\ "controller" \in services' => backend'
        /\ "node" \in services' => kube'
    BY <1>4, NodeConfigUsable, NilIsNoConfig
       DEF NewDriver, KubeClientGiven, LifecycleInv, ConfigUsable, UsableConfigs
  <2>2. RunsController \in BOOLEAN
    BY DEF RunsController
  <2>3. backend' \in BOOLEAN
    BY <1>4, <2>2 DEF NewDriver
  <2>4. services' \subseteq {"identity", "controller", "node"}
    BY <1>4 DEF NewDriver
  <2> QED BY <1>4, <2>1, <2>3, <2>4 DEF NewDriver, LifecycleInv, TypeOK, ConfigUsable,
             QuietOutsideSelect, PreparedBySpawn, TracesOfSignal, MainPCs, UsableConfigs
<1>5. CASE Spawn
  BY <1>5 DEF Spawn, LifecycleInv, TypeOK, ConfigUsable, QuietOutsideSelect,
              PreparedBySpawn, TracesOfSignal, MainPCs, RunPCs
<1> QED BY <1>1, <1>2, <1>3, <1>4, <1>5

\* The end of main: its select and what follows it.
LEMMA EndKeepsInv ==
    ASSUME LifecycleInv, MainSignalled \/ ShutdownMetrics \/ MainDriverReturned
    PROVE  LifecycleInv'
<1>1. CASE MainSignalled
  <2> USE DEF argVars, setupVars
  <2>0. /\ main' = "metrics" /\ sigMain' \in BOOLEAN
        /\ UNCHANGED <<mode, file, cfg, backend, kube, services, run, stop, server, sigRun,
                       errChan, exit, socket, asked, call>>
    BY <1>1, Zenon DEF MainSignalled
  <2>1. TypeOK'
    BY <2>0 DEF LifecycleInv, TypeOK, MainPCs
  <2>2. (ConfigUsable /\ QuietOutsideSelect /\ PreparedBySpawn)'
    BY <1>1 DEF MainSignalled, SignalSeen, LifecycleInv, TypeOK, ConfigUsable,
                QuietOutsideSelect, PreparedBySpawn
  <2>3. TracesOfSignal'
    BY <1>1 DEF MainSignalled, SignalSeen, LifecycleInv, TypeOK, TracesOfSignal
  <2> QED BY <2>1, <2>2, <2>3 DEF LifecycleInv
<1>2. CASE ShutdownMetrics
  <2>1. asked
    BY <1>2 DEF ShutdownMetrics, LifecycleInv, TracesOfSignal
  <2> QED BY <1>2, <2>1, ExitKeepsInv DEF ShutdownMetrics
<1>3. CASE MainDriverReturned
  <2>1. errChan = "nil" => asked
    BY DEF LifecycleInv, TracesOfSignal
  <2> QED BY <1>3, <2>1, ExitKeepsInv DEF MainDriverReturned
<1> QED BY <1>1, <1>2, <1>3

\* The goroutine of drv.Run: nil is what it returns for a server that was
\* stopped, and for no other reason.
LEMMA RunKeepsInv ==
    ASSUME LifecycleInv, RunStep
    PROVE  LifecycleInv'
<1> USE DEF argVars, setupVars
<1>1. main \in {"select", "metrics"}
  BY DEF RunStep, PrepareSocket, Listen, Register, Serve, ServeReturns, LifecycleInv,
         QuietOutsideSelect
<1>2. /\ UNCHANGED <<mode, file, cfg, backend, kube, services, main, sigMain, sigRun, exit,
                     asked, call>>
      /\ run' \in RunPCs /\ errChan' \in {"empty", "nil", "error"}
  BY DEF RunStep, PrepareSocket, Listen, Register, Serve, ServeReturns, RunGoto, RunReturns,
         Sent, RunPCs, LifecycleInv, TypeOK
<1>3. /\ server' \in {"none", "new", "serving", "draining", "stopped"}
      /\ stop' \in StopPCs /\ socket' \in {"absent", "stale", "live"}
  BY DEF RunStep, PrepareSocket, Listen, Register, Serve, ServeReturns, SocketRemoved,
         StopPCs, LifecycleInv, TypeOK
<1>4. /\ server' \in {"draining", "stopped"} => server \in {"draining", "stopped"}
      /\ errChan' = "nil" => errChan = "nil" \/ server = "stopped"
      /\ stop' = stop \/ stop' = "wait"
  BY DEF RunStep, PrepareSocket, Listen, Register, Serve, ServeReturns, RunGoto, RunReturns,
         Sent
<1>5. TypeOK'
  BY <1>2, <1>3 DEF LifecycleInv, TypeOK
<1>6. TracesOfSignal'
  BY <1>2, <1>4 DEF LifecycleInv, TracesOfSignal
<1> QED BY <1>1, <1>2, <1>5, <1>6 DEF LifecycleInv, ConfigUsable, QuietOutsideSelect,
                                      PreparedBySpawn

\* The goroutine that stops the server does so for a signal alone.
LEMMA StopKeepsInv ==
    ASSUME LifecycleInv, StopStep
    PROVE  LifecycleInv'
<1> USE DEF argVars, setupVars
<1>1. main \in {"select", "metrics"}
  BY DEF StopStep, BeginStop, Drained, CloseListener, LifecycleInv, QuietOutsideSelect
<1>2. /\ UNCHANGED <<mode, file, cfg, backend, kube, services, main, run, sigMain, errChan,
                     exit, asked, call>>
      /\ stop' \in StopPCs /\ sigRun' \in BOOLEAN
      /\ server' \in {"none", "new", "serving", "draining", "stopped"}
      /\ socket' \in {"absent", "stale", "live"}
  BY DEF StopStep, BeginStop, Drained, CloseListener, StopGoto, StopPCs, LifecycleInv, TypeOK
<1>3. TypeOK'
  BY <1>2 DEF LifecycleInv, TypeOK
<1>4. TracesOfSignal'
  <2>1. asked \/ UNCHANGED <<stop, server, sigRun>>
    BY DEF StopStep, BeginStop, Drained, CloseListener, LifecycleInv, TracesOfSignal
  <2> QED BY <1>2, <2>1 DEF LifecycleInv, TracesOfSignal
<1> QED BY <1>1, <1>2, <1>3, <1>4 DEF LifecycleInv, ConfigUsable, QuietOutsideSelect,
                                      PreparedBySpawn

\* A signal, a call and a new process.
LEMMA OutsideKeepsInv ==
    ASSUME LifecycleInv, Signal \/ (\E c \in Calls : BeginCall(c) \/ EndCall(c)) \/ Restart
    PROVE  LifecycleInv'
<1> USE DEF argVars, setupVars, procVars
<1>1. CASE Signal /\ main \in {"select", "metrics"}
  <2>1. (run \in {"serve", "serving", "returned"} /\ stop # "none") \in BOOLEAN
    OBVIOUS
  <2>2. /\ sigMain' \in BOOLEAN /\ sigRun' \in BOOLEAN /\ asked' = TRUE
        /\ UNCHANGED <<mode, file, cfg, backend, kube, services, main, run, stop, server,
                       errChan, exit, socket, call>>
    BY <1>1, <2>1 DEF Signal
  <2>3. TypeOK'
    BY <2>2 DEF LifecycleInv, TypeOK
  <2> QED BY <1>1, <2>2, <2>3 DEF LifecycleInv, ConfigUsable, QuietOutsideSelect,
                                  PreparedBySpawn, TracesOfSignal
<1>2. CASE Signal /\ main \notin {"select", "metrics"}
  BY <1>2, ExitKeepsInv DEF Signal
<1>3. ASSUME NEW c \in Calls, BeginCall(c) \/ EndCall(c)
      PROVE  LifecycleInv'
  <2>1. /\ call' \in [Calls -> {"idle", "served"}]
        /\ UNCHANGED <<argVars, setupVars, procVars, socket, asked>>
    BY <1>3 DEF BeginCall, EndCall, LifecycleInv, TypeOK
  <2> QED BY <2>1 DEF LifecycleInv, TypeOK, ConfigUsable, QuietOutsideSelect,
                      PreparedBySpawn, TracesOfSignal
<1>4. CASE Restart
  BY <1>4 DEF Restart, LifecycleInv, TypeOK, ConfigUsable, QuietOutsideSelect,
              PreparedBySpawn, TracesOfSignal, MainPCs
<1> QED BY <1>1, <1>2, <1>3, <1>4

-----------------------------------------------------------------------------
(***************************************************************************)
(* The theorems.                                                           *)
(***************************************************************************)

\* Every new process satisfies the inductive invariant.
LEMMA LifecycleInvInit == Init => LifecycleInv
BY DEF Init, LifecycleInv, TypeOK, ConfigUsable, QuietOutsideSelect, PreparedBySpawn,
       TracesOfSignal, MainPCs, RunPCs, StopPCs

\* Every step keeps it.
LEMMA LifecycleInvStep == LifecycleInv /\ [Next]_vars => LifecycleInv'
<1> SUFFICES ASSUME LifecycleInv, [Next]_vars
             PROVE  LifecycleInv'
  OBVIOUS
<1>1. CASE MainStep
  BY <1>1, StartKeepsInv, EndKeepsInv DEF MainStep
<1>2. CASE RunStep
  BY <1>2, RunKeepsInv
<1>3. CASE StopStep
  BY <1>3, StopKeepsInv
<1>4. CASE Signal \/ (\E c \in Calls : BeginCall(c) \/ EndCall(c)) \/ Restart
  BY <1>4, OutsideKeepsInv
<1>5. CASE UNCHANGED vars
  BY <1>5 DEF vars, argVars, setupVars, procVars, LifecycleInv, TypeOK, ConfigUsable,
              QuietOutsideSelect, PreparedBySpawn, TracesOfSignal
<1> QED BY <1>1, <1>2, <1>3, <1>4, <1>5 DEF Next

\* The inductive invariant holds in every state of every process.
THEOREM LifecycleInvHolds == Spec => []LifecycleInv
BY LifecycleInvInit, LifecycleInvStep, PTL DEF Spec

\* Every variable of the process keeps its type (pkg/driver/driver.go, main.go).
THEOREM LifecycleTypes == Spec => []TypeOK
<1>1. LifecycleInv => TypeOK
  BY DEF LifecycleInv
<1> QED BY <1>1, LifecycleInvHolds, PTL

\* Whatever the flags, the file and the defaults, a server that answers calls
\* has a configuration with positive numbers and every client its services
\* use (NewDriver, pkg/driver/driver.go).
THEOREM ServicesEquipped == Spec => []ServicesHaveWhatTheyUse
<1>1. LifecycleInv => ServicesHaveWhatTheyUse
  <2> SUFFICES ASSUME LifecycleInv, server # "none"
               PROVE  ServicesHaveWhatTheyUse
    BY DEF ServicesHaveWhatTheyUse
  <2>1. main \in {"select", "metrics"}
    BY DEF LifecycleInv, QuietOutsideSelect
  <2>2. cfg \in UsableConfigs
    BY <2>1 DEF LifecycleInv, PreparedBySpawn, ConfigUsable
  <2> QED BY <2>1, <2>2 DEF LifecycleInv, PreparedBySpawn, ServicesHaveWhatTheyUse,
                            UsableConfigs
<1> QED BY <1>1, LifecycleInvHolds, PTL

\* Exit code 0 is a promise that somebody asked for the end: in no interleaving
\* of main, drv.Run and Stop does a failure to listen or to serve look like one
\* (cmd/evroc-csi-driver/main.go).
THEOREM CleanExit == Spec => []CleanExitWasAsked
<1>1. LifecycleInv => CleanExitWasAsked
  BY DEF LifecycleInv, TracesOfSignal, CleanExitWasAsked
<1> QED BY <1>1, LifecycleInvHolds, PTL
=============================================================================
