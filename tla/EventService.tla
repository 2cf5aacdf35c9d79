---------------------------- MODULE EventService ----------------------------
(***************************************************************************)
(* The block event subscription service of a node                          *)
(* (service/rpc/event_service.go).  Every Subscribe call is a goroutine of *)
(* the grpc server; they share the map connCounter, guarded by a mutex,    *)
(* which limits the subscriptions per remote IP.  A handler is only        *)
(* unblocked by new blocks: it does not watch its stream's context.        *)
(*                                                                         *)
(* External (xupercore, grpc): the event router, its block iterator and    *)
(* the stream, modelled from how Subscribe uses them.                      *)
(***************************************************************************)
EXTENDS Naturals, FiniteSets

CONSTANTS Streams,      \* Subscribe calls that may run at the same time
          IPs,          \* remote hosts
          NoIP,         \* remoteIP before it is known
          MaxConnBound, \* eventAddrMaxConn is configured in 0..MaxConnBound
          MaxBacklog    \* blocks an iterator is behind: counted up to here

ASSUME EventAssumption ==
    /\ IsFiniteSet(Streams)
    /\ NoIP \notin IPs
    /\ MaxConnBound \in Nat
    /\ MaxBacklog \in Nat \ {0}

VARIABLES
    enableEvent,      \* ServConf.EnableEvent
    eventAddrMaxConn, \* ServConf.EventAddrMaxConn
    connCounter,      \* map[string]int, a function on the keys present
    pc,               \* where each Subscribe call stands
    remoteIP,         \* its local remoteIP
    cancelled,        \* its stream's context is done (client gone)
    backlog,          \* blocks its iterator has not returned yet
    ret               \* what its last call returned

vars == <<enableEvent, eventAddrMaxConn, connCounter, pc, remoteIP,
          cancelled, backlog, ret>>
conf == <<enableEvent, eventAddrMaxConn>>

Locations == {"idle", "permitted", "streaming", "sending", "returning"}
Results == {"none", "disabled", "addr", "exceeded", "done"}

\* Types; connCounter keeps no key with a zero count (releaseConn deletes it).
TypeOK ==
    /\ enableEvent \in BOOLEAN
    /\ eventAddrMaxConn \in 0..MaxConnBound
    /\ DOMAIN connCounter \subseteq IPs
    /\ connCounter \in [DOMAIN connCounter -> Nat \ {0}]
    /\ pc \in [Streams -> Locations]
    /\ remoteIP \in [Streams -> IPs \cup {NoIP}]
    /\ cancelled \in [Streams -> BOOLEAN]
    /\ backlog \in [Streams -> 0..MaxBacklog]
    /\ ret \in [Streams -> Results]

\* newEventService: an empty map, no call running.
Init ==
    /\ enableEvent \in BOOLEAN
    /\ eventAddrMaxConn \in 0..MaxConnBound
    /\ connCounter = [ip \in {} |-> 0]
    /\ pc = [s \in Streams |-> "idle"]
    /\ remoteIP = [s \in Streams |-> NoIP]
    /\ cancelled = [s \in Streams |-> FALSE]
    /\ backlog = [s \in Streams |-> 0]
    /\ ret = [s \in Streams |-> "none"]

-----------------------------------------------------------------------------
(* The critical sections of connPermit and releaseConn on the map.         *)

\* m[ip] = n, inserting the key when it is missing
MapSet(m, ip, n) ==
    [k \in DOMAIN m \cup {ip} |-> IF k = ip THEN n ELSE m[k]]

\* delete(m, ip)
MapDelete(m, ip) == [k \in DOMAIN m \ {ip} |-> m[k]]

\* the map lookup used by the code: the zero value for a missing key
MapGet(m, ip) == IF ip \in DOMAIN m THEN m[ip] ELSE 0

\* Mutants: one connection too many; one too few.
RefusesPlusOne(ip) ==
    /\ eventAddrMaxConn # 0
    /\ ip \in DOMAIN connCounter
    /\ connCounter[ip] > eventAddrMaxConn

RefusesOneEarly(ip) ==
    /\ eventAddrMaxConn # 0
    /\ ip \in DOMAIN connCounter
    /\ connCounter[ip] + 1 >= eventAddrMaxConn

\* the check "cnt >= EventAddrMaxConn", reached only for a key in the map
Refuses(ip) ==
    /\ eventAddrMaxConn # 0
    /\ ip \in DOMAIN connCounter
    /\ connCounter[ip] >= eventAddrMaxConn

\* the update of connPermit: a missing key becomes 1, any other is incremented
Counted(ip) ==
    IF eventAddrMaxConn = 0 THEN connCounter
    ELSE MapSet(connCounter, ip, MapGet(connCounter, ip) + 1)

\* Mutants: the key is never deleted; it is deleted with a connection left.
UncountedKeepsKey(ip) ==
    IF eventAddrMaxConn = 0 THEN connCounter
    ELSE MapSet(connCounter, ip, connCounter[ip] - 1)

UncountedDeletesEarly(ip) ==
    IF eventAddrMaxConn = 0 THEN connCounter
    ELSE IF MapGet(connCounter, ip) <= 2 THEN MapDelete(connCounter, ip)
    ELSE MapSet(connCounter, ip, connCounter[ip] - 1)

\* the update of releaseConn: the last connection of an IP removes its key
Uncounted(ip) ==
    IF eventAddrMaxConn = 0 THEN connCounter
    ELSE IF MapGet(connCounter, ip) <= 1 THEN MapDelete(connCounter, ip)
    ELSE MapSet(connCounter, ip, connCounter[ip] - 1)

-----------------------------------------------------------------------------
(* Subscribe: up to and including connPermit.                              *)

Refuse(s, why) ==
    /\ ret' = [ret EXCEPT ![s] = why]
    /\ UNCHANGED <<conf, connCounter, pc, remoteIP, cancelled, backlog>>

\* "event service disabled"
SubscribeDisabled(s) ==
    /\ pc[s] = "idle"
    /\ ~enableEvent
    /\ Refuse(s, "disabled")

\* the peer is unknown, or its address is not host:port
SubscribeBadAddr(s) ==
    /\ pc[s] = "idle"
    /\ enableEvent
    /\ Refuse(s, "addr")

\* "maximum connections exceeded"
SubscribeExceeded(s, ip) ==
    /\ pc[s] = "idle"
    /\ enableEvent
    /\ Refuses(ip)
    /\ Refuse(s, "exceeded")

SubscribePermitted(s, ip) ==
    /\ pc[s] = "idle"
    /\ enableEvent
    /\ ~Refuses(ip)
    /\ connCounter' = Counted(ip)
    /\ remoteIP' = [remoteIP EXCEPT ![s] = ip]
    /\ pc' = [pc EXCEPT ![s] = "permitted"]
    /\ cancelled' = [cancelled EXCEPT ![s] = FALSE]
    /\ ret' = [ret EXCEPT ![s] = "none"]
    /\ UNCHANGED <<conf, backlog>>

(* router.Subscribe: the error path returns at once, through the deferred  *)
(* releaseConn.  A filter may start at an older block, so the iterator may *)
(* begin behind the tip.                                                   *)
RouterSubscribe(s) ==
    /\ pc[s] = "permitted"
    /\ \/ /\ pc' = [pc EXCEPT ![s] = "returning"]
          /\ UNCHANGED backlog
       \/ /\ pc' = [pc EXCEPT ![s] = "streaming"]
          /\ \E n \in 0..MaxBacklog : backlog' = [backlog EXCEPT ![s] = n]
    /\ UNCHANGED <<conf, connCounter, remoteIP, cancelled, ret>>

\* iter.Next() returns true: there is a block to send
IterNext(s) ==
    /\ pc[s] = "streaming"
    /\ backlog[s] > 0
    /\ backlog' = [backlog EXCEPT ![s] = @ - 1]
    /\ pc' = [pc EXCEPT ![s] = "sending"]
    /\ UNCHANGED <<conf, connCounter, remoteIP, cancelled, ret>>

\* iter.Next() returns false: end of the filter's range, or an error
IterEnd(s) ==
    /\ pc[s] = "streaming"
    /\ pc' = [pc EXCEPT ![s] = "returning"]
    /\ UNCHANGED <<conf, connCounter, remoteIP, cancelled, backlog, ret>>

\* stream.Send succeeds; it may block for as long as the client is slow
SendOK(s) ==
    /\ pc[s] = "sending"
    /\ ~cancelled[s]
    /\ pc' = [pc EXCEPT ![s] = "streaming"]
    /\ UNCHANGED <<conf, connCounter, remoteIP, cancelled, backlog, ret>>

\* Mutant: the error of Send does not end the loop.
SendErrorIgnored(s) ==
    /\ pc[s] = "sending"
    /\ cancelled[s]
    /\ pc' = [pc EXCEPT ![s] = "streaming"]
    /\ UNCHANGED <<conf, connCounter, remoteIP, cancelled, backlog, ret>>

\* stream.Send fails once the stream's context is done: break
SendError(s) ==
    /\ pc[s] = "sending"
    /\ cancelled[s]
    /\ pc' = [pc EXCEPT ![s] = "returning"]
    /\ UNCHANGED <<conf, connCounter, remoteIP, cancelled, backlog, ret>>

\* iter.Close and the deferred releaseConn(remoteIP)
Return(s) ==
    /\ pc[s] = "returning"
    /\ connCounter' = Uncounted(remoteIP[s])
    /\ pc' = [pc EXCEPT ![s] = "idle"]
    /\ remoteIP' = [remoteIP EXCEPT ![s] = NoIP]
    /\ cancelled' = [cancelled EXCEPT ![s] = FALSE]
    /\ backlog' = [backlog EXCEPT ![s] = 0]
    /\ ret' = [ret EXCEPT ![s] = "done"]
    /\ UNCHANGED conf

-----------------------------------------------------------------------------
(* The environment.                                                        *)

\* the client cancels, or its connection breaks
ClientGone(s) ==
    /\ pc[s] # "idle"
    /\ ~cancelled[s]
    /\ cancelled' = [cancelled EXCEPT ![s] = TRUE]
    /\ UNCHANGED <<conf, connCounter, pc, remoteIP, backlog, ret>>

\* the chain grows by a block: every open iterator is one more behind
NewBlock ==
    /\ backlog' = [s \in Streams |->
                     IF pc[s] \in {"streaming", "sending"} /\ backlog[s] < MaxBacklog
                     THEN backlog[s] + 1 ELSE backlog[s]]
    /\ UNCHANGED <<conf, connCounter, pc, remoteIP, cancelled, ret>>

Subscribe(s) ==
    \/ SubscribeDisabled(s)
    \/ SubscribeBadAddr(s)
    \/ \E ip \in IPs : SubscribeExceeded(s, ip) \/ SubscribePermitted(s, ip)

Next ==
    \/ \E s \in Streams :
          \/ Subscribe(s) \/ RouterSubscribe(s)
          \/ IterNext(s) \/ IterEnd(s) \/ SendOK(s) \/ SendError(s)
          \/ Return(s) \/ ClientGone(s)
    \/ NewBlock

Spec == Init /\ [][Next]_vars

(* The Go scheduler runs every goroutine that can run, and the chain keeps *)
(* growing.  Nothing is assumed of clients: they need not call, cancel or  *)
(* read (SendOK), nor of iterators ending by themselves.                   *)
FairSpec ==
    /\ Spec
    /\ WF_vars(NewBlock)
    /\ \A s \in Streams :
          /\ WF_vars(RouterSubscribe(s))
          /\ WF_vars(IterNext(s))
          /\ WF_vars(SendError(s))
          /\ WF_vars(Return(s))

-----------------------------------------------------------------------------
(* Properties.                                                             *)

\* the call is past connPermit and has not run its deferred releaseConn
Holds(s) == pc[s] # "idle"

HoldersOf(ip) == {s \in Streams : Holds(s) /\ remoteIP[s] = ip}

(* The shared map counts exactly the subscriptions of each IP that are     *)
(* between connPermit and releaseConn, however their early returns and     *)
(* failures interleave, and keeps no key for an IP that has none; without  *)
(* a limit it stays empty.                                                 *)
CounterExact ==
    IF eventAddrMaxConn = 0
    THEN connCounter = [ip \in {} |-> 0]
    ELSE \A ip \in IPs :
            /\ MapGet(connCounter, ip) = Cardinality(HoldersOf(ip))
            /\ ip \in DOMAIN connCounter <=> HoldersOf(ip) # {}

(* conf/server.yaml: eventAddrMaxConn is the maximum number of             *)
(* subscription connections per IP, 0 is unlimited.                        *)
LimitRespected ==
    eventAddrMaxConn # 0 =>
        \A ip \in IPs : Cardinality(HoldersOf(ip)) <= eventAddrMaxConn

(* A call that is refused for the limit is refused for a reason: at that   *)
(* moment some IP has all its slots in use (no slot was leaked by an       *)
(* earlier error path).                                                    *)
RefusedOnlyWhenFull ==
    [][\A s \in Streams :
          (ret'[s] = "exceeded" /\ ret[s] # "exceeded") =>
             \E ip \in IPs : Cardinality(HoldersOf(ip)) = eventAddrMaxConn]_vars

\* The refinement mapping: who holds a slot of which IP.
holderBar == [s \in Streams |-> IF Holds(s) THEN remoteIP[s] ELSE NoIP]

Limiter == INSTANCE ConnLimiter WITH limit <- eventAddrMaxConn, holder <- holderBar

(* The counter map implements the abstract semaphore of ConnLimiter.       *)
ImplementsLimiter == Limiter!Spec

(* The slot of a client that went away is given back: not at once, since   *)
(* the handler sleeps in iter.Next, but with the next blocks.              *)
GoneClientReleases ==
    \A s \in Streams : (Holds(s) /\ cancelled[s]) ~> ~Holds(s)
=============================================================================
