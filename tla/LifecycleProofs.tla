--------------------------- MODULE LifecycleProofs ---------------------------
(***************************************************************************)
(* Safety of start and stop of a node, for any number of signals, calls    *)
(* and subscriptions.                                                      *)
(***************************************************************************)
EXTENDS Lifecycle, FiniteSetTheorems, TLAPS

\* There are two servers.
LEMMA ServersCount == Cardinality(Servers) = 2
<1>1. /\ IsFiniteSet({"rpc"})
      /\ Cardinality({"rpc"}) = 1
  BY FS_Singleton
<1>2. Cardinality({"rpc"} \cup {"gw"}) = 2
  BY <1>1, FS_AddElement
<1>3. Servers = {"rpc"} \cup {"gw"}
  BY DEF Servers
<1> QED
  BY <1>2, <1>3

\* The facts about the constants that the steps use
LEMMA Bounds ==
    /\ "rpc" \in Servers /\ "gw" \in Servers
    /\ \A s \in Servers : s = "rpc" \/ s = "gw"
    /\ MaxSignals \in Nat /\ MaxCalls \in Nat /\ MaxSubs \in Nat
  BY LifecycleAssumption DEF Servers

\* One if p holds
One(p) == IF p THEN 1 ELSE 0

(* A pending call of Exit comes from a signal that was taken out of the    *)
(* channel, or from the engine's end, which is reported once.              *)
ExitsCounted ==
    \A s \in Servers : exits[s] + One(sigChan) <= signals + One(eng = "reported")

(* Run counts the servers it has heard of, and returns after the last one. *)
RunCounts ==
    /\ exitCnt = One(pc["rpc"] = "reported") + One(pc["gw"] = "reported")
    /\ servRun = "running" <=> exitCnt < 2

(* Without a signal only the end of Run calls engine.Exit.                 *)
EngineExitCause ==
    /\ sigChan => signals > 0
    /\ engExit /\ signals = 0 => servRun = "reported"

(* A grpc server that returned nil has been stopped with no call left, and *)
(* accepts none any more.                                                  *)
StoppedIdle ==
    ret["rpc"] = "nil" => pc["rpc"] \in {"exited", "reported"} /\ InFlight("rpc") = 0

(* main returns when both tasks were reported, and nothing runs afterwards.*)
ReturnedLast == proc = "returned" => eng = "reported" /\ servRun = "reported"

IInv == TypeOK /\ ExitsCounted /\ RunCounts /\ EngineExitCause /\ StoppedIdle /\ ReturnedLast

\* What the graceful stop of the grpc server waits for
LEMMA Idle ==
    /\ TypeOK => (InFlight("rpc") = 0 <=> calls["rpc"] = 0 /\ subs = 0)
    /\ TypeOK' => (InFlight("rpc")' = 0 <=> calls'["rpc"] = 0 /\ subs' = 0)
<1>1. InFlight("rpc") = calls["rpc"] + subs /\ InFlight("rpc")' = calls'["rpc"] + subs'
  BY DEF InFlight
<1> QED
  BY <1>1, Bounds DEF TypeOK

-----------------------------------------------------------------------------
(* Every step keeps the invariant.                                         *)

\* The initial states satisfy the invariant.
LEMMA InitInv == ASSUME Init PROVE IInv
<1> USE Bounds, ServersCount
<1>1. TypeOK
  <2>1. 0 \in 0..Cardinality(Servers) /\ 0 \in 0..(MaxSignals + 1) /\ 0 \in 0..MaxCalls
        /\ 0 \in 0..MaxSubs /\ 0 \in 0..MaxSignals
    OBVIOUS
  <2> QED
    BY <2>1 DEF Init, TypeOK
<1>2. ExitsCounted /\ RunCounts /\ EngineExitCause /\ StoppedIdle /\ ReturnedLast
  BY DEF Init, ExitsCounted, RunCounts, EngineExitCause, StoppedIdle, ReturnedLast, One
<1> QED
  BY <1>1, <1>2 DEF IInv

\* Start of the node
LEMMA BootInv ==
  ASSUME IInv, Boot
  PROVE  IInv'
<1> USE Bounds, ServersCount DEF IInv, mainVars, stopVars, callVars, Boot
<1>1. TypeOK'
  BY DEF TypeOK, ExitsCounted, RunCounts, One
<1>2. ExitsCounted'
  BY DEF ExitsCounted, TypeOK, One
<1>3. RunCounts'
  BY DEF RunCounts, TypeOK, One
<1>4. EngineExitCause'
  BY DEF EngineExitCause, TypeOK
<1>5. StoppedIdle'
  BY DEF StoppedIdle, TypeOK, InFlight
<1>6. ReturnedLast'
  BY DEF ReturnedLast, TypeOK
<1> QED
  BY <1>1, <1>2, <1>3, <1>4, <1>5, <1>6

\* main returns after the last task.
LEMMA MainReturnInv ==
  ASSUME IInv, Up, MainReturn
  PROVE  IInv'
<1> USE Bounds, ServersCount DEF IInv, Up, mainVars, stopVars, callVars,
       MainReturn, wg
<1>1. TypeOK'
  BY DEF TypeOK, ExitsCounted, RunCounts, One
<1>2. ExitsCounted'
  BY DEF ExitsCounted, TypeOK, One
<1>3. RunCounts'
  BY DEF RunCounts, TypeOK, One
<1>4. EngineExitCause'
  BY DEF EngineExitCause, TypeOK
<1>5. StoppedIdle'
  BY DEF StoppedIdle, TypeOK, InFlight
<1>6. ReturnedLast'
  BY DEF ReturnedLast, TypeOK
<1> QED
  BY <1>1, <1>2, <1>3, <1>4, <1>5, <1>6

\* Start and end of a server's goroutine
LEMMA ServerInv ==
  ASSUME IInv, Up, NEW s \in Servers, Server(s)
  PROVE  IInv'
<1> USE Bounds, ServersCount DEF IInv, Up, mainVars, stopVars, callVars,
       Server, SetupError, Assign, ListenError, Serve, ServeError,
       ServeStopped, ServerReturns
<1>1. TypeOK'
  BY DEF TypeOK, ExitsCounted, RunCounts, One
<1>2. ExitsCounted'
  BY DEF ExitsCounted, TypeOK, One
<1>3. RunCounts'
  BY DEF RunCounts, TypeOK, One
<1>4. EngineExitCause'
  BY DEF EngineExitCause, TypeOK
<1>5. StoppedIdle'
  BY DEF StoppedIdle, TypeOK, InFlight
<1>6. ReturnedLast'
  BY DEF ReturnedLast, TypeOK
<1> QED
  BY <1>1, <1>2, <1>3, <1>4, <1>5, <1>6

\* Exit of a server, under its Once
LEMMA ExitInv ==
  ASSUME IInv, Up, NEW s \in Servers, Exit(s)
  PROVE  IInv'
<1> USE Bounds, ServersCount DEF IInv, Up, mainVars, stopVars, callVars, Exit,
       ExitFirst, ExitFinished, ExitAgain
<1>1. TypeOK'
  BY DEF TypeOK, ExitsCounted, RunCounts, One
<1>2. ExitsCounted'
  BY DEF ExitsCounted, TypeOK, One
<1>3. RunCounts'
  BY DEF RunCounts, TypeOK, One
<1>4. EngineExitCause'
  BY DEF EngineExitCause, TypeOK
<1>5. StoppedIdle'
  BY DEF StoppedIdle, TypeOK, InFlight
<1>6. ReturnedLast'
  BY DEF ReturnedLast, TypeOK
<1> QED
  BY <1>1, <1>2, <1>3, <1>4, <1>5, <1>6

\* ServMG.Run hears of a server that has ended.
LEMMA ServRunReceivesInv ==
  ASSUME IInv, Up, NEW s \in Servers, ServRunReceives(s)
  PROVE  IInv'
<1> USE Bounds, ServersCount DEF IInv, Up, mainVars, stopVars, callVars,
       ServRunReceives
<1>1. TypeOK'
  BY DEF TypeOK, ExitsCounted, RunCounts, One
<1>2. ExitsCounted'
  BY DEF ExitsCounted, TypeOK, One
<1>3. RunCounts'
  BY DEF RunCounts, TypeOK, One
<1>4. EngineExitCause'
  BY DEF EngineExitCause, TypeOK
<1>5. StoppedIdle'
  BY DEF StoppedIdle, TypeOK, InFlight
<1>6. ReturnedLast'
  BY DEF ReturnedLast, TypeOK
<1> QED
  BY <1>1, <1>2, <1>3, <1>4, <1>5, <1>6

\* Calls begin and end.
LEMMA CallsInv ==
  ASSUME IInv, Up, NEW s \in Servers, CallBegins(s) \/ CallEnds(s)
  PROVE  IInv'
<1> USE Bounds, ServersCount DEF IInv, Up, mainVars, stopVars, callVars,
       CallBegins, CallEnds
<1>1. TypeOK'
  BY DEF TypeOK, ExitsCounted, RunCounts, One
<1>2. ExitsCounted'
  BY DEF ExitsCounted, TypeOK, One
<1>3. RunCounts'
  BY DEF RunCounts, TypeOK, One
<1>4. EngineExitCause'
  BY DEF EngineExitCause, TypeOK
<1>5. StoppedIdle'
  BY <1>1, Idle DEF StoppedIdle, TypeOK
<1>6. ReturnedLast'
  BY DEF ReturnedLast, TypeOK
<1> QED
  BY <1>1, <1>2, <1>3, <1>4, <1>5, <1>6

\* Subscriptions begin and end.
LEMMA SubscriptionsInv ==
  ASSUME IInv, Up, SubscribeBegins \/ SubscribeEnds
  PROVE  IInv'
<1> USE Bounds, ServersCount DEF IInv, Up, mainVars, stopVars, callVars,
       SubscribeBegins, SubscribeEnds
<1>1. TypeOK'
  BY DEF TypeOK, ExitsCounted, RunCounts, One
<1>2. ExitsCounted'
  BY DEF ExitsCounted, TypeOK, One
<1>3. RunCounts'
  BY DEF RunCounts, TypeOK, One
<1>4. EngineExitCause'
  BY DEF EngineExitCause, TypeOK
<1>5. StoppedIdle'
  BY <1>1, Idle DEF StoppedIdle, TypeOK
<1>6. ReturnedLast'
  BY DEF ReturnedLast, TypeOK
<1> QED
  BY <1>1, <1>2, <1>3, <1>4, <1>5, <1>6

\* The metrics listener
LEMMA MetricsInv ==
  ASSUME IInv, Up, MetricsPanic \/ MetricsUp
  PROVE  IInv'
<1> USE Bounds, ServersCount DEF IInv, Up, mainVars, stopVars, callVars,
       MetricsPanic, MetricsUp
<1>1. TypeOK'
  BY DEF TypeOK, ExitsCounted, RunCounts, One
<1>2. ExitsCounted'
  BY DEF ExitsCounted, TypeOK, One
<1>3. RunCounts'
  BY DEF RunCounts, TypeOK, One
<1>4. EngineExitCause'
  BY DEF EngineExitCause, TypeOK
<1>5. StoppedIdle'
  BY DEF StoppedIdle, TypeOK, InFlight
<1>6. ReturnedLast'
  BY DEF ReturnedLast, TypeOK
<1> QED
  BY <1>1, <1>2, <1>3, <1>4, <1>5, <1>6

\* The engine ends.
LEMMA EngineInv ==
  ASSUME IInv, Up, EngineStops \/ EngineFails
  PROVE  IInv'
<1> USE Bounds, ServersCount DEF IInv, Up, mainVars, stopVars, callVars,
       EngineStops, EngineFails
<1>1. TypeOK'
  BY DEF TypeOK, ExitsCounted, RunCounts, One
<1>2. ExitsCounted'
  BY DEF ExitsCounted, TypeOK, One
<1>3. RunCounts'
  BY DEF RunCounts, TypeOK, One
<1>4. EngineExitCause'
  BY DEF EngineExitCause, TypeOK
<1>5. StoppedIdle'
  BY DEF StoppedIdle, TypeOK, InFlight
<1>6. ReturnedLast'
  BY DEF ReturnedLast, TypeOK
<1> QED
  BY <1>1, <1>2, <1>3, <1>4, <1>5, <1>6

\* The select loop of StartupXchain on the end of a task
LEMMA SupervisorInv ==
  ASSUME IInv, Up, Supervisor
  PROVE  IInv'
<1> USE Bounds, ServersCount DEF IInv, Up, mainVars, stopVars, callVars,
       Supervisor, OnEngineExit, OnServExit, OnSignal, ServExit
<1>1. TypeOK'
  <2>1. \A s \in Servers : exits'[s] \in 0..(MaxSignals + 1)
    BY DEF TypeOK, ExitsCounted, One
  <2>2. exits' \in [Servers -> 0..(MaxSignals + 1)]
    BY <2>1 DEF TypeOK
  <2> QED
    BY <2>2 DEF TypeOK
<1>2. ExitsCounted'
  BY DEF ExitsCounted, TypeOK, One
<1>3. RunCounts'
  BY DEF RunCounts, TypeOK, One
<1>4. EngineExitCause'
  BY DEF EngineExitCause, TypeOK
<1>5. StoppedIdle'
  BY DEF StoppedIdle, TypeOK, InFlight
<1>6. ReturnedLast'
  BY DEF ReturnedLast, TypeOK
<1> QED
  BY <1>1, <1>2, <1>3, <1>4, <1>5, <1>6

\* Signals are sent and taken.
LEMMA SignalInv ==
  ASSUME IInv, Up, Signal
  PROVE  IInv'
<1> USE Bounds, ServersCount DEF IInv, Up, mainVars, stopVars, callVars,
       Signal
<1>1. TypeOK'
  BY DEF TypeOK, ExitsCounted, RunCounts, One
<1>2. ExitsCounted'
  BY DEF ExitsCounted, TypeOK, One
<1>3. RunCounts'
  BY DEF RunCounts, TypeOK, One
<1>4. EngineExitCause'
  BY DEF EngineExitCause, TypeOK
<1>5. StoppedIdle'
  BY DEF StoppedIdle, TypeOK, InFlight
<1>6. ReturnedLast'
  BY DEF ReturnedLast, TypeOK
<1> QED
  BY <1>1, <1>2, <1>3, <1>4, <1>5, <1>6

\* Every step keeps the invariant.
LEMMA NextInv == IInv /\ [Next]_vars => IInv'
<1> SUFFICES ASSUME IInv, [Next]_vars PROVE IInv'
  OBVIOUS
<1>1. CASE Boot
  BY <1>1, BootInv
<1>2. CASE Up /\ Running
  BY <1>2, MainReturnInv, ServerInv, ExitInv, ServRunReceivesInv, CallsInv, SubscriptionsInv,
     MetricsInv, EngineInv, SupervisorInv, SignalInv DEF Running
<1>3. CASE UNCHANGED vars
  <2>1. TypeOK'
    BY <1>3 DEF vars, IInv, TypeOK
  <2>2. ExitsCounted' /\ EngineExitCause' /\ ReturnedLast'
    BY <1>3 DEF vars, IInv, ExitsCounted, EngineExitCause, ReturnedLast
  <2>3. RunCounts'
    BY <1>3 DEF vars, IInv, RunCounts
  <2>4. StoppedIdle'
    BY <1>3 DEF vars, IInv, StoppedIdle, InFlight
  <2> QED
    BY <2>1, <2>2, <2>3, <2>4 DEF IInv
<1> QED
  BY <1>1, <1>2, <1>3 DEF Next

-----------------------------------------------------------------------------
(* The theorems.                                                           *)

\* The inductive invariant holds in every reachable state.
LEMMA Inductive == Spec => []IInv
  BY InitInv, NextInv, PTL DEF Spec

(* The state of start and stop has its types; in particular a server's     *)
(* Exit is called at most once per signal and once for the engine's end.   *)
THEOREM TypesHold == Spec => []TypeOK
<1>1. IInv => TypeOK
  BY DEF IInv
<1> QED
  BY <1>1, Inductive, PTL

(* wg.Wait (startup.go:111): main returns only after the engine and every  *)
(* server did, and a grpc server that stopped gracefully had no call left. *)
THEOREM TasksEnd == Spec => []AllTasksEnded
<1>1. IInv => AllTasksEnded
  BY Bounds DEF IInv, TypeOK, RunCounts, One, StoppedIdle, ReturnedLast, AllTasksEnded
<1> QED
  BY <1>1, Inductive, PTL

(* ServMG.Run (service/manage.go:74): without a signal the engine is only  *)
(* stopped when no server is left.                                         *)
THEOREM EngineOutlives == Spec => []EngineOutlivesServers
<1>1. IInv => EngineOutlivesServers
  BY Bounds DEF IInv, TypeOK, RunCounts, One, EngineExitCause, EngineOutlivesServers
<1> QED
  BY <1>1, Inductive, PTL
=============================================================================
