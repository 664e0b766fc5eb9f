----------------------------- MODULE Lifecycle ------------------------------
(***************************************************************************)
(* The life of a driver process: main (cmd/evroc-csi-driver/main.go),      *)
(* NewDriver, Run and Stop (pkg/driver/driver.go).  Three goroutines       *)
(* share it: main, the one that runs the gRPC server, and the one that     *)
(* Run starts to wait for a signal.  Main and that one each have a channel *)
(* for the signal, and neither waits for the other.  The kubelet starts    *)
(* the process again when it ends; only the socket's file outlives it.     *)
(***************************************************************************)
EXTENDS Config, FiniteSets

CONSTANTS
    Calls,          \* gRPC calls in service at the same time
    Modes,          \* values of the flag --mode
    Files           \* configuration files, NoConfig for one that is unusable

ASSUME LifecycleConstants == Files \subseteq Configs \cup {NoConfig}

VARIABLES
    mode, file,     \* the flag and the mounted file; never change
    main,           \* where main is
    run,            \* where drv.Run is
    stop,           \* where the goroutine that calls Stop is
    cfg, backend, kube,     \* what main has prepared for the driver
    services,       \* what NewDriver has created and Run registers
    server,         \* the gRPC server
    socket,         \* the socket's file: "live" while this process listens
    sigMain, sigRun,        \* the channels of the two receivers
    errChan,        \* what drv.Run has returned
    exit,           \* how the process ended
    asked,          \* has this process been asked to end?
    call

argVars == <<mode, file>>
setupVars == <<cfg, backend, kube, services>>
procVars == <<main, run, stop, server, sigMain, sigRun, errChan, exit>>
vars == <<argVars, setupVars, procVars, socket, asked, call>>

MainPCs == {"config", "backend", "zone", "newDriver", "spawn", "select",
            "metrics", "exited"}
RunPCs == {"none", "prepare", "listen", "register", "serve", "serving", "returned"}
StopPCs == {"none", "wait", "draining", "close", "done"}

TypeOK ==
    /\ mode \in Modes /\ file \in Files
    /\ main \in MainPCs /\ run \in RunPCs /\ stop \in StopPCs
    /\ cfg \in {c \in Configs : c.identifier \in WellFormed \cup {NotGiven}} \cup {NoConfig}
    /\ backend \in BOOLEAN /\ kube \in BOOLEAN
    /\ services \subseteq {"identity", "controller", "node"}
    /\ server \in {"none", "new", "serving", "draining", "stopped"}
    /\ socket \in {"absent", "stale", "live"}
    /\ sigMain \in BOOLEAN /\ sigRun \in BOOLEAN
    /\ errChan \in {"empty", "nil", "error"}
    /\ exit \in {"none", "0", "1", "signal"}
    /\ asked \in BOOLEAN
    /\ call \in [Calls -> {"idle", "served"}]

\* A new process, with its flags parsed.
Init ==
    /\ mode \in Modes /\ file \in Files
    /\ socket \in {"absent", "stale"}
    /\ main = "config" /\ run = "none" /\ stop = "none"
    /\ cfg = NoConfig /\ backend = FALSE /\ kube = FALSE
    /\ services = {} /\ server = "none"
    /\ sigMain = FALSE /\ sigRun = FALSE
    /\ errChan = "empty" /\ exit = "none"
    /\ asked = FALSE
    /\ call = [c \in Calls |-> "idle"]

(***************************************************************************)
(* main.                                                                   *)
(***************************************************************************)
\* The process ends, and with it every goroutine and call.
Exit(how) ==
    /\ main' = "exited" /\ exit' = how
    /\ run' = "none" /\ stop' = "none" /\ server' = "none"
    /\ sigMain' = FALSE /\ sigRun' = FALSE /\ errChan' = "empty"
    /\ socket' = IF socket = "live" THEN "stale" ELSE socket
    /\ call' = [c \in Calls |-> "idle"]
    /\ UNCHANGED <<argVars, setupVars, asked>>

\* Main goes on to l; what it prepares on the way is for the caller to say.
MainGoto(l) ==
    /\ main' = l
    /\ UNCHANGED <<argVars, services, run, stop, server, sigMain, sigRun, errChan,
                   exit, socket, asked, call>>

ControllerFlag == mode \in {"controller", "all"}
NodeFlag == mode \in {"node", "all"}

LoadConfig ==
    /\ main = "config"
    /\ \/ /\ ControllerFlag /\ LoadFromPath(file) = NoConfig
          /\ Exit("1")
       \/ /\ ControllerFlag => LoadFromPath(file) # NoConfig
          /\ cfg' = CASE ControllerFlag -> LoadFromPath(file)
                      [] mode = "node" -> NewWithDefaults
                      [] OTHER -> NoConfig
          /\ MainGoto("backend")
          /\ UNCHANGED <<backend, kube>>

\* The client of the API may be impossible to create.
CreateBackend ==
    /\ main = "backend"
    /\ \/ backend' = ControllerFlag /\ MainGoto("zone") /\ UNCHANGED <<cfg, kube>>
       \/ ControllerFlag /\ Exit("1")

\* "Validate node has zone label at startup (fail fast)".
CheckZone ==
    /\ main = "zone"
    /\ \/ kube' = NodeFlag /\ MainGoto("newDriver") /\ UNCHANGED <<cfg, backend>>
       \/ NodeFlag /\ Exit("1")

(***************************************************************************)
(* NewDriver.  An empty mode, which main's switch knows nothing of, is all *)
(* modes here.                                                             *)
(***************************************************************************)
DriverMode == IF mode = NotGiven THEN "all" ELSE mode
RunsController == DriverMode \in {"controller", "all"}
RunsNode == DriverMode \in {"node", "all"}

KubeClientGiven == RunsNode => kube

\* Without injected backend NewDriver tries to create one from the defaults.
NewDriver ==
    /\ main = "newDriver"
    /\ \/ /\ DriverMode \in {"controller", "node", "all"}
          /\ KubeClientGiven
          /\ main' = "spawn"
          /\ cfg' = IF cfg = NoConfig THEN NewWithDefaults ELSE cfg
          /\ backend' = RunsController
          /\ services' = {"identity"} \cup (IF RunsController THEN {"controller"} ELSE {})
                                      \cup (IF RunsNode THEN {"node"} ELSE {})
          /\ UNCHANGED <<argVars, kube, run, stop, server, sigMain, sigRun, errChan,
                         exit, socket, asked, call>>
       \/ /\ \/ DriverMode \notin {"controller", "node", "all"}
             \/ ~KubeClientGiven
             \/ RunsController /\ ~backend
          /\ Exit("1")

\* signal.Notify, then the goroutine of drv.Run.
Spawn ==
    /\ main = "spawn"
    /\ main' = "select" /\ run' = "prepare"
    /\ UNCHANGED <<argVars, setupVars, stop, server, sigMain, sigRun, errChan, exit,
                   socket, asked, call>>

\* Mutant: main stops when the gRPC server has.
WaitForServer == sigMain /\ errChan # "empty"

SignalSeen == sigMain

MainSignalled ==
    /\ main = "select"
    /\ SignalSeen
    /\ main' = "metrics" /\ sigMain' = FALSE
    /\ UNCHANGED <<argVars, setupVars, run, stop, server, sigRun, errChan, exit, socket,
                   asked, call>>

\* The metrics server is down, or 30 seconds are over; main returns.
ShutdownMetrics ==
    /\ main = "metrics"
    /\ Exit("0")

MainDriverReturned ==
    /\ main = "select"
    /\ errChan # "empty"
    /\ Exit(IF errChan = "nil" THEN "0" ELSE "1")

(***************************************************************************)
(* Driver.Run.                                                             *)
(***************************************************************************)
RunGoto(l) ==
    /\ run' = l
    /\ UNCHANGED <<argVars, setupVars, main, sigMain, sigRun, errChan, exit, asked, call>>

\* Mutant: an error of Run is logged and forgotten.
ErrorDropped(result) == IF result = "error" THEN errChan ELSE result

\* Mutant: Run returns nil when it could not listen or serve.
ErrorIsNil(result) == "nil"

Sent(result) == result

RunReturns(result) ==
    /\ run' = "returned" /\ errChan' = Sent(result)
    /\ UNCHANGED <<argVars, setupVars, main, sigMain, sigRun, exit, asked, call>>

\* Mutant: the socket that an earlier process left is not removed.
SocketLeft == socket

SocketRemoved == "absent"

\* MkdirAll, and removal of a socket that an earlier process left.
PrepareSocket ==
    /\ run = "prepare"
    /\ \/ socket' = SocketRemoved /\ RunGoto("listen")
       \/ RunReturns("error") /\ UNCHANGED socket
    /\ UNCHANGED <<stop, server>>

\* Listen fails for any reason, in any case on a path that exists.
Listen ==
    /\ run = "listen"
    /\ \/ socket = "absent" /\ socket' = "live" /\ RunGoto("register")
       \/ RunReturns("error") /\ UNCHANGED socket
    /\ UNCHANGED <<stop, server>>

\* The gRPC server and its services, Run's own channel and its receiver.
Register ==
    /\ run = "register"
    /\ server' = "new" /\ stop' = "wait"
    /\ RunGoto("serve")
    /\ UNCHANGED socket

\* A server that was stopped before it served refuses and closes the listener.
Serve ==
    /\ run = "serve"
    /\ \/ server = "new" /\ server' = "serving" /\ RunGoto("serving") /\ UNCHANGED socket
       \/ /\ server \in {"draining", "stopped"} /\ socket' = "absent"
          /\ RunReturns("error") /\ UNCHANGED server
    /\ UNCHANGED stop

\* Serve returns nil once GracefulStop is through, or an error of Accept.
ServeReturns ==
    /\ run = "serving"
    /\ \/ server = "stopped" /\ RunReturns("nil")
       \/ server = "serving" /\ RunReturns("error")
    /\ UNCHANGED <<stop, server, socket>>

(***************************************************************************)
(* Driver.Stop, in the goroutine that Run has started.                     *)
(***************************************************************************)
StopGoto(l) ==
    /\ stop' = l
    /\ UNCHANGED <<argVars, setupVars, main, run, sigMain, errChan, exit, asked, call>>

\* GracefulStop begins by closing the listener, if Serve has it, which removes
\* the socket's file.
BeginStop ==
    /\ stop = "wait"
    /\ sigRun /\ sigRun' = FALSE
    /\ server' = "draining"
    /\ socket' = IF server = "serving" THEN "absent" ELSE socket
    /\ StopGoto("draining")

\* GracefulStop returns when no call is in service any more.
Drained ==
    /\ stop = "draining"
    /\ \A c \in Calls : call[c] = "idle"
    /\ server' = "stopped"
    /\ StopGoto("close")
    /\ UNCHANGED <<socket, sigRun>>

CloseListener ==
    /\ stop = "close"
    /\ socket' = "absent"
    /\ StopGoto("done")
    /\ UNCHANGED <<server, sigRun>>

(***************************************************************************)
(* The environment: signals, calls and restarts.                           *)
(***************************************************************************)
\* A signal reaches the channels that Notify knows; without any it is fatal.
Signal ==
    /\ main # "exited"
    /\ ~asked
    /\ IF main \in {"select", "metrics"}
       THEN /\ sigMain' = TRUE
            /\ sigRun' = (run \in {"serve", "serving", "returned"} /\ stop # "none")
            /\ asked' = TRUE
            /\ UNCHANGED <<argVars, setupVars, main, run, stop, server, errChan, exit,
                           socket, call>>
       ELSE Exit("signal")

BeginCall(c) ==
    /\ server = "serving" /\ socket = "live"
    /\ call[c] = "idle"
    /\ call' = [call EXCEPT ![c] = "served"]
    /\ UNCHANGED <<argVars, setupVars, procVars, socket, asked>>

EndCall(c) ==
    /\ call[c] = "served"
    /\ call' = [call EXCEPT ![c] = "idle"]
    /\ UNCHANGED <<argVars, setupVars, procVars, socket, asked>>

Restart ==
    /\ main = "exited"
    /\ main' = "config" /\ exit' = "none" /\ asked' = FALSE
    /\ cfg' = NoConfig /\ backend' = FALSE /\ kube' = FALSE /\ services' = {}
    /\ UNCHANGED <<argVars, run, stop, server, sigMain, sigRun, errChan, socket, call>>

MainStep ==
    \/ LoadConfig \/ CreateBackend \/ CheckZone \/ NewDriver \/ Spawn
    \/ MainSignalled \/ ShutdownMetrics \/ MainDriverReturned

RunStep == PrepareSocket \/ Listen \/ Register \/ Serve \/ ServeReturns

StopStep == BeginStop \/ Drained \/ CloseListener

Next ==
    \/ MainStep \/ RunStep \/ StopStep
    \/ Signal
    \/ \E c \in Calls : BeginCall(c) \/ EndCall(c)
    \/ Restart

\* Steps of the start that do what they are for.
MainSucceeds(l) == MainStep /\ main = l /\ main' # "exited"
RunSucceeds(l) == RunStep /\ run = l /\ errChan' = "empty"

\* The goroutines get to run and the kubelet starts the process again.  What
\* is tried over and over does not fail, and is not interrupted, every time.
\* A call need not end, a signal need not come.
Fairness ==
    /\ WF_vars(MainStep) /\ WF_vars(RunStep) /\ WF_vars(StopStep)
    /\ WF_vars(Restart)
    /\ \A l \in {"config", "backend", "zone", "newDriver", "spawn"} :
           SF_vars(MainSucceeds(l))
    /\ \A l \in {"prepare", "listen", "register", "serve"} : SF_vars(RunSucceeds(l))

Spec == Init /\ [][Next]_vars /\ Fairness

(***************************************************************************)
(* Properties.                                                             *)
(***************************************************************************)

\* "Ensure EvrocConfig is always non-nil with defaults": whatever the flags and
\* the file, a service that answers calls has all it uses without looking: the
\* storage backend, the Kubernetes client, a configuration in which capacity,
\* timeouts and intervals are positive (a ticker panics otherwise).
ServicesHaveWhatTheyUse ==
    server # "none" =>
        /\ cfg # NoConfig
        /\ \A n \in Numbers : cfg.number[n] > 0
        /\ "controller" \in services => backend
        /\ "node" \in services => kube

\* "Handle graceful shutdown": a process that has been asked to end does so,
\* even if a call it serves never does.
SignalEndsProcess == asked ~> (main = "exited")

\* "Wait for shutdown signal or driver error": a process that was started
\* serves or ends; no failure of a step leaves it waiting for nothing.
StartServesOrEnds == (main = "config") ~> (server = "serving" \/ main = "exited")

\* What flags and file that can work at all amount to.
Startable ==
    /\ mode \in {"controller", "node", "all"}
    /\ ControllerFlag => LoadFromPath(file) # NoConfig

\* "Remove existing socket if it exists": however a process ended, and whatever
\* it left behind, the driver comes to serve again.
ServesAgain == []<>(Startable => server = "serving")

\* Exit code 0 says that somebody asked for the end, not that the driver
\* could not listen or stopped accepting.
CleanExitWasAsked == exit = "0" => asked
=============================================================================
