------------------------------ MODULE Lifecycle ------------------------------
(***************************************************************************)
(* Start and stop of a node process: StartupXchain                         *)
(* (cmd/xchain/cmd/startup.go), the server group ServMG                    *)
(* (service/manage.go), the grpc server RpcServMG (service/rpc/manage.go)  *)
(* and the http gateway (service/gateway/gateway.go).                      *)
(*                                                                         *)
(* Goroutines: main (wg.Wait), the engine, ServMG.Run, one per server, the *)
(* supervisor's select loop, and one per call of a server's Exit.          *)
(* Unbuffered channels: a sender waits for its receiver, so "exited" (Run  *)
(* returned, sending) and "reported" (received) are different places.      *)
(*                                                                         *)
(* External: the engine, grpc's and net/http's servers, the metrics        *)
(* listener, the operating system's signals.                               *)
(***************************************************************************)
EXTENDS Naturals, FiniteSets

CONSTANTS MaxSignals,  \* termination signals sent to the process
          MaxCalls,    \* calls in flight per server
          MaxSubs      \* open event subscriptions

ASSUME LifecycleAssumption == {MaxSignals, MaxCalls, MaxSubs} \subseteq Nat

Servers == {"rpc", "gw"}   \* ServMG.servers

VARIABLES
    proc,     \* main: "boot", "running", "returned", or ended by a failure
    eng,      \* engine.Run: "running", "exited" (sending), "reported"
    engExit,  \* engine.Exit was called
    servRun,  \* ServMG.Run: "running", "exited" (sending), "reported"
    exitCnt,  \* its local exitCnt
    pc,       \* Run of each server
    ret,      \* what it returned: "none", "nil" or "err"
    handle,   \* servHD / server is assigned
    stopReq,  \* GracefulStop / Shutdown was called on it
    once,     \* exitOnce: "unused", "running" or "done"
    exits,    \* goroutines about to call the server's Exit
    calls,    \* calls the server is handling
    subs,     \* Subscribe streams the grpc server is handling
    metric,   \* the metrics listener: "off", "starting", "up"
    signals,  \* signals sent so far
    sigChan   \* one is in sigChan (capacity 1)

vars == <<proc, eng, engExit, servRun, exitCnt, pc, ret, handle, stopReq, once,
          exits, calls, subs, metric, signals, sigChan>>
callVars == <<calls, subs>>
stopVars == <<handle, stopReq, once, exits>>
mainVars == <<proc, eng, engExit, servRun, exitCnt, signals, sigChan>>

\* Types: at most one call of a server's Exit per signal and one for the engine's end.
TypeOK ==
    /\ proc \in {"boot", "running", "returned", "failed", "crashed"}
    /\ eng \in {"running", "exited", "reported"}
    /\ engExit \in BOOLEAN
    /\ servRun \in {"running", "exited", "reported"}
    /\ exitCnt \in 0..Cardinality(Servers)
    /\ pc \in [Servers -> {"start", "assigned", "serving", "exited", "reported"}]
    /\ ret \in [Servers -> {"none", "nil", "err"}]
    /\ handle \in [Servers -> BOOLEAN]
    /\ stopReq \in [Servers -> BOOLEAN]
    /\ once \in [Servers -> {"unused", "running", "done"}]
    /\ exits \in [Servers -> 0..(MaxSignals + 1)]
    /\ calls \in [Servers -> 0..MaxCalls]
    /\ subs \in 0..MaxSubs
    /\ metric \in {"off", "starting", "up"}
    /\ signals \in 0..MaxSignals
    /\ sigChan \in BOOLEAN

Init ==
    /\ proc = "boot"
    /\ eng = "running"
    /\ engExit = FALSE
    /\ servRun = "running"
    /\ exitCnt = 0
    /\ pc = [s \in Servers |-> "start"]
    /\ ret = [s \in Servers |-> "none"]
    /\ handle = [s \in Servers |-> FALSE]
    /\ stopReq = [s \in Servers |-> FALSE]
    /\ once = [s \in Servers |-> "unused"]
    /\ exits = [s \in Servers |-> 0]
    /\ calls = [s \in Servers |-> 0]
    /\ subs = 0
    /\ metric = "off"
    /\ signals = 0
    /\ sigChan = FALSE

-----------------------------------------------------------------------------
(* main.                                                                   *)

(* loadConf, CreateBCEngine, NewServMG: an error returns before anything   *)
(* runs; otherwise wg.Add(2), the goroutines start and sigChan is notified.*)
Boot ==
    /\ proc = "boot"
    /\ proc' \in {"running", "failed"}
    /\ UNCHANGED <<eng, engExit, servRun, exitCnt, pc, ret, stopVars, callVars,
                   metric, signals, sigChan>>

\* wg: the two tasks that have not been reported to the supervisor
wg == (IF eng = "reported" THEN 0 ELSE 1) + (IF servRun = "reported" THEN 0 ELSE 1)

\* wg.Wait returns and with it main: the process ends
MainReturn ==
    /\ wg = 0
    /\ proc' = "returned"
    /\ UNCHANGED <<eng, engExit, servRun, exitCnt, pc, ret, stopVars, callVars,
                   metric, signals, sigChan>>

-----------------------------------------------------------------------------
(* One server: RpcServMG.runRpcServ and Gateway.runGateway.                *)

ServerReturns(s, r) ==
    /\ pc' = [pc EXCEPT ![s] = "exited"]
    /\ ret' = [ret EXCEPT ![s] = r]

\* newTls / Register...HandlerFromEndpoint fail, before the server exists
SetupError(s) ==
    /\ pc[s] = "start"
    /\ ServerReturns(s, "err")
    /\ UNCHANGED <<mainVars, stopVars, callVars, metric>>

\* Mutant: the server is kept in a local variable only.
AssignWithoutHandle(s) ==
    /\ pc[s] = "start"
    /\ pc' = [pc EXCEPT ![s] = "assigned"]
    /\ metric' \in IF s = "rpc" THEN {"off", "starting"} ELSE {metric}
    /\ UNCHANGED <<mainVars, stopVars, ret, callVars>>

(* t.servHD = grpc.NewServer / t.server = &http.Server; the grpc server    *)
(* also starts the metrics listener when EnableMetric is set.              *)
Assign(s) ==
    /\ pc[s] = "start"
    /\ pc' = [pc EXCEPT ![s] = "assigned"]
    /\ handle' = [handle EXCEPT ![s] = TRUE]
    /\ metric' \in IF s = "rpc" THEN {"off", "starting"} ELSE {metric}
    /\ UNCHANGED <<mainVars, ret, stopReq, once, exits, callVars>>

\* newEndorserService or net.Listen fails: the port is in use
ListenError(s) ==
    /\ pc[s] = "assigned"
    /\ ServerReturns(s, "err")
    /\ UNCHANGED <<mainVars, stopVars, callVars, metric>>

\* Serve(lis) / ListenAndServe is reached; a server stopped before returns at once
Serve(s) ==
    /\ pc[s] = "assigned"
    /\ IF stopReq[s]
       THEN ServerReturns(s, IF s = "rpc" THEN "err" ELSE "nil")
       ELSE pc' = [pc EXCEPT ![s] = "serving"] /\ UNCHANGED ret
    /\ UNCHANGED <<mainVars, stopVars, callVars, metric>>

\* the listener breaks: calls already accepted go on
ServeError(s) ==
    /\ pc[s] = "serving"
    /\ ~stopReq[s]
    /\ ServerReturns(s, "err")
    /\ UNCHANGED <<mainVars, stopVars, callVars, metric>>

\* what GracefulStop and Shutdown wait for
InFlight(s) == calls[s] + (IF s = "rpc" THEN subs ELSE 0)

(* Serve returns once GracefulStop has waited for every call;              *)
(* ListenAndServe returns as soon as Shutdown is called (ErrServerClosed,  *)
(* returned as nil), whatever calls remain.                                *)
ServeStopped(s) ==
    /\ pc[s] = "serving"
    /\ stopReq[s]
    /\ s = "rpc" => InFlight(s) = 0
    /\ ServerReturns(s, "nil")
    /\ UNCHANGED <<mainVars, stopVars, callVars, metric>>

\* panic in the metrics goroutine: the whole process dies
MetricsPanic ==
    /\ metric = "starting"
    /\ proc' = "crashed"
    /\ UNCHANGED <<eng, engExit, servRun, exitCnt, pc, ret, stopVars, callVars,
                   metric, signals, sigChan>>

MetricsUp ==
    /\ metric = "starting"
    /\ metric' = "up"
    /\ UNCHANGED <<mainVars, pc, ret, stopVars, callVars>>

CallBegins(s) ==
    /\ pc[s] = "serving"
    /\ ~stopReq[s]
    /\ calls[s] < MaxCalls
    /\ calls' = [calls EXCEPT ![s] = @ + 1]
    /\ UNCHANGED <<mainVars, pc, ret, stopVars, subs, metric>>

CallEnds(s) ==
    /\ calls[s] > 0
    /\ calls' = [calls EXCEPT ![s] = @ - 1]
    /\ UNCHANGED <<mainVars, pc, ret, stopVars, subs, metric>>

(* eventService.Subscribe (EventService models it): the handler stays in   *)
(* iter.Next, and leaves it only for a new block, when Send fails or the   *)
(* range of the filter is over.  An engine that has ended makes no block.  *)
SubscribeBegins ==
    /\ pc["rpc"] = "serving"
    /\ ~stopReq["rpc"]
    /\ subs < MaxSubs
    /\ subs' = subs + 1
    /\ UNCHANGED <<mainVars, pc, ret, stopVars, calls, metric>>

SubscribeEnds ==
    /\ subs > 0
    /\ eng = "running"
    /\ subs' = subs - 1
    /\ UNCHANGED <<mainVars, pc, ret, stopVars, calls, metric>>

-----------------------------------------------------------------------------
(* A server's Exit: exitOnce.Do(stopRpcServ / stopGateway).                *)

(* The first caller runs the function.  It reads the handle without        *)
(* synchronisation: until the server goroutine has gone on to Serve the    *)
(* read may still see nil, and then the function does nothing.             *)
ExitFirst(s) ==
    /\ exits[s] > 0
    /\ once[s] = "unused"
    /\ \E seen \in BOOLEAN :
          /\ seen => handle[s]
          /\ ~seen => pc[s] # "serving"
          /\ stopReq' = [stopReq EXCEPT ![s] = seen]
          /\ once' = [once EXCEPT ![s] = IF seen THEN "running" ELSE "done"]
    /\ exits' = [exits EXCEPT ![s] = @ - 1]
    /\ UNCHANGED <<mainVars, pc, ret, handle, callVars, metric>>

\* GracefulStop / Shutdown has waited for the calls
ExitFinished(s) ==
    /\ once[s] = "running"
    /\ InFlight(s) = 0
    /\ once' = [once EXCEPT ![s] = "done"]
    /\ UNCHANGED <<mainVars, pc, ret, handle, stopReq, exits, callVars, metric>>

\* any later caller waits for the first and returns
ExitAgain(s) ==
    /\ exits[s] > 0
    /\ once[s] = "done"
    /\ exits' = [exits EXCEPT ![s] = @ - 1]
    /\ UNCHANGED <<mainVars, pc, ret, handle, stopReq, once, callVars, metric>>

-----------------------------------------------------------------------------
(* ServMG.Run: receive the results of the servers.                         *)

\* Mutant: Run returns with the first server.
ServRunReceivesOne(s) ==
    /\ pc[s] = "exited"
    /\ servRun = "running"
    /\ pc' = [pc EXCEPT ![s] = "reported"]
    /\ exitCnt' = exitCnt + 1
    /\ servRun' = "exited"
    /\ UNCHANGED <<proc, eng, engExit, ret, stopVars, callVars, metric, signals, sigChan>>

\* err := <-ch; the loop ends when exitCnt >= len(t.servers), and Run returns nil
ServRunReceives(s) ==
    /\ pc[s] = "exited"
    /\ servRun = "running"
    /\ pc' = [pc EXCEPT ![s] = "reported"]
    /\ exitCnt' = exitCnt + 1
    /\ servRun' = IF exitCnt' >= Cardinality(Servers) THEN "exited" ELSE "running"
    /\ UNCHANGED <<proc, eng, engExit, ret, stopVars, callVars, metric, signals, sigChan>>

-----------------------------------------------------------------------------
(* The engine (external): Run returns once Exit was called, or by itself.  *)

EngineStops ==
    /\ eng = "running"
    /\ engExit
    /\ eng' = "exited"
    /\ UNCHANGED <<proc, engExit, servRun, exitCnt, pc, ret, stopVars, callVars,
                   metric, signals, sigChan>>

EngineFails ==
    /\ eng = "running"
    /\ ~engExit
    /\ eng' = "exited"
    /\ UNCHANGED <<proc, engExit, servRun, exitCnt, pc, ret, stopVars, callVars,
                   metric, signals, sigChan>>

-----------------------------------------------------------------------------
(* The supervisor's select loop.                                           *)

\* ServMG.Exit: a goroutine per server calls its Exit
ServExit == exits' = [s \in Servers |-> exits[s] + 1]

\* Mutants: serv.Exit is not called; engChan is closed instead of sent on, so
\* that it can be received from again and again.
OnEngineExitForgetsServ ==
    /\ eng = "exited"
    /\ eng' = "reported"
    /\ UNCHANGED <<proc, engExit, servRun, exitCnt, pc, ret, stopVars,
                   callVars, metric, signals, sigChan>>

OnEngineExitClosed ==
    /\ eng = "exited"
    /\ ServExit
    /\ UNCHANGED <<proc, eng, engExit, servRun, exitCnt, pc, ret, handle, stopReq, once,
                   callVars, metric, signals, sigChan>>

\* case <-engChan: wg.Done(); serv.Exit()
OnEngineExit ==
    /\ eng = "exited"
    /\ eng' = "reported"
    /\ ServExit
    /\ UNCHANGED <<proc, engExit, servRun, exitCnt, pc, ret, handle, stopReq, once,
                   callVars, metric, signals, sigChan>>

\* Mutant: engine.Exit is not called.
OnServExitForgetsEngine ==
    /\ servRun = "exited"
    /\ servRun' = "reported"
    /\ UNCHANGED <<proc, eng, engExit, exitCnt, pc, ret, stopVars, callVars, metric,
                   signals, sigChan>>

\* case <-servChan: wg.Done(); engine.Exit()
OnServExit ==
    /\ servRun = "exited"
    /\ servRun' = "reported"
    /\ engExit' = TRUE
    /\ UNCHANGED <<proc, eng, exitCnt, pc, ret, stopVars, callVars, metric,
                   signals, sigChan>>

\* case <-sigChan: serv.Exit(); engine.Exit()
OnSignal ==
    /\ sigChan
    /\ sigChan' = FALSE
    /\ ServExit
    /\ engExit' = TRUE
    /\ UNCHANGED <<proc, eng, servRun, exitCnt, pc, ret, handle, stopReq, once,
                   callVars, metric, signals>>

\* the operating system delivers a signal; one is kept, more are dropped
Signal ==
    /\ signals < MaxSignals
    /\ signals' = signals + 1
    /\ sigChan' = TRUE
    /\ UNCHANGED <<proc, eng, engExit, servRun, exitCnt, pc, ret, stopVars, callVars,
                   metric>>

Server(s) ==
    \/ SetupError(s) \/ Assign(s) \/ ListenError(s) \/ Serve(s)
    \/ ServeError(s) \/ ServeStopped(s)

Exit(s) == ExitFirst(s) \/ ExitFinished(s) \/ ExitAgain(s)

Supervisor == OnEngineExit \/ OnServExit \/ OnSignal

Running ==
    \/ MainReturn
    \/ \E s \in Servers :
          \/ Server(s) \/ Exit(s) \/ ServRunReceives(s)
          \/ CallBegins(s) \/ CallEnds(s)
    \/ SubscribeBegins \/ SubscribeEnds
    \/ MetricsPanic \/ MetricsUp
    \/ EngineStops \/ EngineFails
    \/ Supervisor \/ Signal

Up == proc = "running"

Next == Boot \/ (Up /\ Running)

Spec == Init /\ [][Next]_vars

(* Every goroutine that can run is run, unary calls end, and the engine's  *)
(* Run returns after its Exit.  The select statement picks among ready     *)
(* cases at random, so each of them is served in the end (SF).  Nothing    *)
(* forces failures, signals or new calls, nor a subscription to end.       *)
FairSpec ==
    /\ Spec
    /\ WF_vars(Up /\ MainReturn)
    /\ \A s \in Servers :
          /\ WF_vars(Up /\ Assign(s)) /\ WF_vars(Up /\ Serve(s)) /\ WF_vars(Up /\ ServeStopped(s))
          /\ WF_vars(Up /\ CallEnds(s)) /\ WF_vars(Up /\ Exit(s)) /\ WF_vars(Up /\ ServRunReceives(s))
    /\ WF_vars(Up /\ EngineStops)
    /\ SF_vars(Up /\ OnEngineExit)
    /\ SF_vars(Up /\ OnServExit)
    /\ SF_vars(Up /\ OnSignal)

-----------------------------------------------------------------------------
(* Properties.                                                             *)

Ended == proc \in {"returned", "failed", "crashed"}

(* startup.go:110, "wait for all asynchronous tasks to exit": main only    *)
(* returns after the engine and every server returned, and a grpc server   *)
(* that stopped gracefully had no call in flight left.                     *)
AllTasksEnded ==
    proc = "returned" =>
        /\ eng = "reported"
        /\ \A s \in Servers : pc[s] = "reported"
        /\ ret["rpc"] = "nil" => InFlight("rpc") = 0

(* A server that fails alone (a port in use, a broken listener) is only    *)
(* logged by ServMG.Run: without a signal the engine, and the other server *)
(* with it, is stopped only when no server is left.                        *)
EngineOutlivesServers ==
    engExit /\ signals = 0 => \A s \in Servers : pc[s] = "reported"

\* every server has reached Serve, or is already over, and Exit was not called yet
Stoppable(s) ==
    /\ once[s] = "unused"
    /\ pc[s] \in {"serving", "exited", "reported"}

(* The one thing a stop may wait for forever: GracefulStop waits for the   *)
(* event subscriptions, which end with a new block only.                   *)
Subscribed == [](subs > 0)

(* A signal received once the servers are up ends the process, whatever    *)
(* fails at the same time, unless a subscription stays open.               *)
SignalEndsProcess ==
    (proc = "running" /\ sigChan /\ \A s \in Servers : Stoppable(s)) ~> (Ended \/ Subscribed)

(* An engine that stops by itself takes the servers and the process with   *)
(* it, if it does so once the servers are up and no subscription is open.  *)
EngineEndsProcess ==
    (proc = "running" /\ eng = "exited" /\ \A s \in Servers : Stoppable(s)) ~> (Ended \/ Subscribed)

(* When no server is left, whether ServMG.Run has received its end already   *)
(* or not (service/manage.go:74), the engine is stopped too and the process *)
(* ends.                                                                   *)
LastServerEndsProcess ==
    (proc = "running" /\ \A s \in Servers : pc[s] \in {"exited", "reported"}) ~> Ended

(* service/rpc/manage.go:85 and service/manage.go:82, "exit the rpc         *)
(* service, release its resources, must be idempotent": a server whose     *)
(* Exit is called, also one that is still starting, ends.                  *)
ExitStopsServer ==
    \A s \in Servers :
        (Up /\ exits[s] > 0) ~> (pc[s] \in {"exited", "reported"} \/ Ended)
=============================================================================
