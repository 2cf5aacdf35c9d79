-------------------------- MODULE EndorserProxyProofs --------------------------
(***************************************************************************)
(* The double-checked cache of ProxyXEndorser opens one connection per     *)
(* host and uses no other, for every set of calls and hosts.               *)
(***************************************************************************)
EXTENDS EndorserProxy, TLAPS

\* Between Lock and Unlock a call holds the mutex.
Excl == \A c \in Calls : pc[c] \in {"check", "dial", "store"} => mutex = c

\* A connection that is open and not in the cache is about to be stored.
Connections ==
    \A h \in Hosts :
        /\ cache[h] \in {0, 1} /\ dialled[h] \in {0, 1}
        /\ dialled[h] # cache[h] => \E c \in Calls : pc[c] = "store" /\ host[c] = h

\* What a call knows of its host's connection at the places where it uses it.
Knowledge ==
    \A c \in Calls :
        /\ pc[c] = "dial" => cache[host[c]] = 0
        /\ pc[c] = "store" => client[c] = 1 /\ dialled[host[c]] = 1
        /\ pc[c] = "call" => client[c] = 1 /\ cache[host[c]] = 1

IInv == TypeOK /\ Excl /\ Connections /\ Knowledge

---------------------------------------------------------------------------
\* Only one goroutine is between Lock and Unlock.
LEMMA OneInside ==
    ASSUME Excl, NEW c \in Calls, NEW d \in Calls,
           pc[c] \in {"check", "dial", "store"}, pc[d] \in {"check", "dial", "store"}
    PROVE  c = d
  BY DEF Excl

\* Steps that neither touch the cache nor open a connection: Begin, Load,
\* Lock, Check, Forward and the next request.
LEMMA QuietStep ==
    ASSUME IInv, NEW c \in Calls,
           Begin(c) \/ Load(c) \/ Lock(c) \/ Check(c) \/ Forward(c) \/ Again(c)
    PROVE  IInv'
<1>1. TypeOK'
  BY DEF IInv, TypeOK, Begin, getHost, Load, Lock, Check, Forward, Again, Goto
<1>2. Excl'
  BY ProxyAssumption DEF IInv, TypeOK, Excl, Begin, getHost, Load, Lock, Check, Forward, Again, Goto
<1>3. Connections'
  <2>1. UNCHANGED <<cache, dialled>>
    BY DEF Begin, getHost, Load, Lock, Check, Forward, Again
  <2>2. \A d \in Calls : pc[d] = "store" => pc'[d] = "store" /\ host'[d] = host[d]
    BY DEF IInv, TypeOK, Begin, getHost, Load, Lock, Check, Forward, Again, Goto
  <2> QED
    BY <2>1, <2>2 DEF IInv, Connections
<1>4. Knowledge'
  <2>1. CASE Load(c) \/ Check(c)
    <3>1. host[c] \in Hosts
      BY <2>1 DEF IInv, TypeOK, Load, Check, Goto
    <3> QED
      BY <2>1, <3>1 DEF IInv, TypeOK, Connections, Knowledge, Load, Check, Goto
  <2>2. CASE Begin(c) \/ Lock(c) \/ Forward(c) \/ Again(c)
    BY <2>2 DEF IInv, TypeOK, Knowledge, Begin, getHost, Lock, Forward, Again, Goto
  <2> QED
    BY <2>1, <2>2
<1> QED
  BY <1>1, <1>2, <1>3, <1>4 DEF IInv

\* Dialling: the host has no connection yet, since the cache was empty under
\* the lock and nobody else is about to store one.
LEMMA DialStep ==
    ASSUME IInv, NEW c \in Calls, Dial(c)
    PROVE  IInv'
<1>1. host[c] \in Hosts /\ pc[c] = "dial" /\ mutex = c
  BY DEF IInv, TypeOK, Excl, Dial, Goto
<1>2. cache[host[c]] = 0 /\ dialled[host[c]] = 0
  BY <1>1, OneInside DEF IInv, Connections, Knowledge
<1>3. TypeOK'
  BY <1>1 DEF IInv, TypeOK, Dial, Goto
<1>4. Excl'
  BY <1>1 DEF IInv, TypeOK, Excl, Dial, Goto
<1>5. CASE pc' = [pc EXCEPT ![c] = "failed"] /\ UNCHANGED <<client, dialled>>
  <2>1. \A d \in Calls : pc[d] = "store" <=> pc'[d] = "store"
    BY <1>1, <1>5 DEF IInv, TypeOK
  <2>2. UNCHANGED <<host, cache>>
    BY DEF Dial
  <2>3. Connections'
    BY <1>5, <2>1, <2>2 DEF IInv, Connections
  <2>4. Knowledge'
    BY <1>5, <2>2 DEF IInv, TypeOK, Knowledge
  <2> QED
    BY <1>3, <1>4, <2>3, <2>4 DEF IInv
<1>6. CASE /\ pc' = [pc EXCEPT ![c] = "store"]
           /\ dialled' = [dialled EXCEPT ![host[c]] = @ + 1]
           /\ client' = [client EXCEPT ![c] = dialled[host[c]] + 1]
  <2>1. UNCHANGED <<host, cache>>
    BY DEF Dial
  <2>2. pc'[c] = "store" /\ dialled'[host[c]] = 1 /\ client'[c] = 1
        /\ \A h \in Hosts \ {host[c]} : dialled'[h] = dialled[h]
    BY <1>1, <1>2, <1>6 DEF IInv, TypeOK
  <2>3. \A d \in Calls \ {c} : pc'[d] = pc[d] /\ client'[d] = client[d] /\ pc[d] # "store"
    BY <1>1, <1>6, OneInside DEF IInv, TypeOK
  <2>4. Connections'
    BY <1>1, <1>2, <2>1, <2>2, <2>3 DEF IInv, TypeOK, Connections
  <2>5. Knowledge'
    BY <1>1, <2>1, <2>2, <2>3 DEF IInv, TypeOK, Knowledge
  <2> QED
    BY <1>3, <1>4, <2>4, <2>5 DEF IInv
<1> QED
  BY <1>5, <1>6 DEF Dial, Goto

\* Storing puts the one connection of the host into the cache.
LEMMA StoreStep ==
    ASSUME IInv, NEW c \in Calls, Store(c)
    PROVE  IInv'
<1>1. host[c] \in Hosts /\ pc[c] = "store" /\ mutex = c /\ client[c] = 1 /\ dialled[host[c]] = 1
  BY DEF IInv, TypeOK, Excl, Knowledge, Store, Goto
<1>2. UNCHANGED <<hosts, host, client, dialled>> /\ pc'[c] = "call" /\ mutex' = None
      /\ cache'[host[c]] = 1 /\ \A h \in Hosts \ {host[c]} : cache'[h] = cache[h]
  BY <1>1 DEF IInv, TypeOK, Store, Goto
<1>3. \A d \in Calls \ {c} : pc'[d] = pc[d] /\ pc[d] \notin {"check", "dial", "store"}
  BY <1>1, OneInside DEF IInv, TypeOK, Store, Goto
<1>4. TypeOK'
  BY <1>1 DEF IInv, TypeOK, Store, Goto
<1>5. Excl'
  BY <1>2, <1>3 DEF Excl
<1>6. Connections'
  BY <1>1, <1>2, <1>3 DEF IInv, Connections
<1>7. Knowledge'
  BY <1>1, <1>2, <1>3 DEF IInv, TypeOK, Knowledge
<1> QED
  BY <1>4, <1>5, <1>6, <1>7 DEF IInv

\* The invariant holds in every reachable state.
THEOREM Invariance == Spec => []IInv
<1>1. Init => IInv
  BY DEF Init, IInv, TypeOK, Excl, Connections, Knowledge
<1>2. IInv /\ [Next]_vars => IInv'
  <2>1. IInv /\ UNCHANGED vars => IInv'
    BY DEF IInv, TypeOK, Excl, Connections, Knowledge, vars
  <2> QED
    BY <2>1, QuietStep, DialStep, StoreStep DEF Next, EndorserCall
<1> QED
  BY <1>1, <1>2, PTL DEF Spec

\* However calls interleave in getClient, no host is dialled twice with success:
\* no connection is opened that nobody uses and nobody closes.
THEOREM OneConnectionHolds == Spec => []OneConnection
<1>1. IInv => OneConnection
  BY DEF IInv, Connections, OneConnection
<1> QED
  BY <1>1, Invariance, PTL

\* Every call goes over the cached connection of its host.
THEOREM UsesCachedHolds == Spec => []UsesCached
<1>1. IInv => UsesCached
  BY DEF IInv, Knowledge, UsesCached
<1> QED
  BY <1>1, Invariance, PTL

=============================================================================
