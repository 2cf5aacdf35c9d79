----------------------------- MODULE EndorserProxy -----------------------------
(***************************************************************************)
(* ProxyXEndorser (service/rpc/endorser_service.go): concurrent            *)
(* EndorserCalls forwarded to endorser hosts over connections that are     *)
(* dialled once and cached: clientCache (a sync.Map: its operations are    *)
(* atomic) is checked before and after the mutex is taken.                 *)
(*                                                                         *)
(* External: grpc.Dial and the endorser at the other end.                  *)
(***************************************************************************)
EXTENDS Naturals

CONSTANTS Calls,  \* EndorserCalls, each in its own goroutine
          Hosts,  \* endorser hosts
          None    \* the empty host name; nobody

ASSUME ProxyAssumption == None \notin Hosts /\ None \notin Calls

VARIABLES
    hosts,   \* conf.EndorserHosts, in which a name may be empty
    pc,      \* where each call is
    host,    \* the host getHost picked for it
    client,  \* the connection getClient gave it, 0 before
    cache,   \* clientCache: the connection of each host, 0 if none
    dialled, \* connections opened to each host so far
    mutex    \* the call that holds the mutex

vars == <<hosts, pc, host, client, cache, dialled, mutex>>

Init ==
    /\ hosts \in SUBSET (Hosts \cup {None})
    /\ pc = [c \in Calls |-> "start"]
    /\ host = [c \in Calls |-> None]
    /\ client = [c \in Calls |-> 0]
    /\ cache = [h \in Hosts |-> 0]
    /\ dialled = [h \in Hosts |-> 0]
    /\ mutex = None

Goto(c, from, to) == pc[c] = from /\ pc' = [pc EXCEPT ![c] = to]

\* A random host of the configuration
getHost == IF hosts = {} THEN {None} ELSE hosts

\* getClient is called with it, and fails at once if it is empty.
Begin(c) ==
    /\ \E h \in getHost :
          \/ h # None /\ Goto(c, "start", "load") /\ host' = [host EXCEPT ![c] = h]
          \/ h = None /\ Goto(c, "start", "failed") /\ UNCHANGED host
    /\ UNCHANGED <<hosts, client, cache, dialled, mutex>>

\* clientCache.Load before the lock
Load(c) ==
    /\ \/ /\ Goto(c, "load", "call")
          /\ cache[host[c]] # 0
          /\ client' = [client EXCEPT ![c] = cache[host[c]]]
       \/ /\ Goto(c, "load", "lock")
          /\ cache[host[c]] = 0
          /\ UNCHANGED client
    /\ UNCHANGED <<hosts, host, cache, dialled, mutex>>

Lock(c) ==
    /\ mutex = None
    /\ Goto(c, "lock", "check")
    /\ mutex' = c
    /\ UNCHANGED <<hosts, host, client, cache, dialled>>

\* Mutant: the cache is not looked at again under the lock.
CheckSkipped(c) ==
    /\ Goto(c, "check", "dial")
    /\ UNCHANGED <<hosts, host, client, cache, dialled, mutex>>

\* clientCache.Load under the lock; returning unlocks (defer)
Check(c) ==
    /\ \/ /\ Goto(c, "check", "call")
          /\ cache[host[c]] # 0
          /\ client' = [client EXCEPT ![c] = cache[host[c]]]
          /\ mutex' = None
       \/ /\ Goto(c, "check", "dial")
          /\ cache[host[c]] = 0
          /\ UNCHANGED <<client, mutex>>
    /\ UNCHANGED <<hosts, host, cache, dialled>>

\* Mutant: the mutex is not released when dialling fails.
DialKeepsLock(c) ==
    /\ \/ /\ Goto(c, "dial", "store")
          /\ dialled' = [dialled EXCEPT ![host[c]] = @ + 1]
          /\ client' = [client EXCEPT ![c] = dialled[host[c]] + 1]
       \/ /\ Goto(c, "dial", "failed")
          /\ UNCHANGED <<client, dialled>>
    /\ UNCHANGED <<hosts, host, cache, mutex>>

Dial(c) ==
    /\ \/ /\ Goto(c, "dial", "store")
          /\ dialled' = [dialled EXCEPT ![host[c]] = @ + 1]
          /\ client' = [client EXCEPT ![c] = dialled[host[c]] + 1]
          /\ UNCHANGED mutex
       \/ /\ Goto(c, "dial", "failed")
          /\ mutex' = None
          /\ UNCHANGED <<client, dialled>>
    /\ UNCHANGED <<hosts, host, cache>>

\* Mutant: the new client is not put into the cache.
StoreForgotten(c) ==
    /\ Goto(c, "store", "call")
    /\ mutex' = None
    /\ UNCHANGED <<hosts, host, client, cache, dialled>>

\* clientCache.Store, then the deferred unlock
Store(c) ==
    /\ Goto(c, "store", "call")
    /\ cache' = [cache EXCEPT ![host[c]] = client[c]]
    /\ mutex' = None
    /\ UNCHANGED <<hosts, host, client, dialled>>

\* endc.EndorserCall on the connection
Forward(c) ==
    /\ Goto(c, "call", "done") \/ Goto(c, "call", "failed")
    /\ UNCHANGED <<hosts, host, client, cache, dialled, mutex>>

\* The goroutine ended; the node serves the next request as a new call.
Again(c) ==
    /\ pc[c] \in {"done", "failed"}
    /\ pc' = [pc EXCEPT ![c] = "start"]
    /\ host' = [host EXCEPT ![c] = None]
    /\ client' = [client EXCEPT ![c] = 0]
    /\ UNCHANGED <<hosts, cache, dialled, mutex>>

EndorserCall(c) ==
    Begin(c) \/ Load(c) \/ Lock(c) \/ Check(c) \/ Dial(c) \/ Store(c) \/ Forward(c)

Next == \E c \in Calls : EndorserCall(c) \/ Again(c)

Spec == Init /\ [][Next]_vars

\* Goroutines run on, a Go mutex is not denied to a waiter for ever, and Dial
\* and the forwarded call return: the latter has the deadline of the client, if
\* it set one.
FairSpec ==
    /\ Spec
    /\ \A c \in Calls : WF_vars(EndorserCall(c)) /\ SF_vars(Lock(c))

---------------------------------------------------------------------------
\* Types; a goroutine past getHost has a host.
TypeOK ==
    /\ hosts \in SUBSET (Hosts \cup {None})
    /\ pc \in [Calls -> {"start", "load", "lock", "check", "dial", "store", "call",
                         "done", "failed"}]
    /\ host \in [Calls -> Hosts \cup {None}]
    /\ client \in [Calls -> Nat]
    /\ cache \in [Hosts -> Nat]
    /\ dialled \in [Hosts -> Nat]
    /\ mutex \in Calls \cup {None}
    /\ \A c \in Calls : pc[c] \in {"load", "lock", "check", "dial", "store", "call"}
                            => host[c] \in Hosts

\* At most one connection is ever opened to a host, however the calls of
\* getClient interleave: none is lost without being closed.
OneConnection == \A h \in Hosts : dialled[h] <= 1

\* Every call forwards over the connection that is in the cache for its host.
UsesCached == \A c \in Calls : pc[c] = "call" => client[c] = cache[host[c]]

\* A goroutine that wants a client gets one, or an error: the mutex is released
\* on every path out of getClient.
CallsEnd == \A c \in Calls : pc[c] = "lock" ~> pc[c] \in {"done", "failed"}

=============================================================================
