------------------------- MODULE EventServiceProofs -------------------------
(***************************************************************************)
(* Proofs about EventService for any number of concurrent subscriptions,   *)
(* any set of remote hosts and any configured limit.                       *)
(***************************************************************************)
EXTENDS EventService, FiniteSetTheorems, TLAPS

(* A running call knows its IP, an idle one has none: what ties the        *)
(* deferred releaseConn(remoteIP) to the slot that connPermit counted.     *)
IPKnown ==
    \A s \in Streams : IF Holds(s) THEN remoteIP[s] \in IPs ELSE remoteIP[s] = NoIP

\* The inductive invariant.
IInv == TypeOK /\ IPKnown /\ CounterExact /\ LimitRespected

-----------------------------------------------------------------------------

\* Every step keeps the variables in their types; the counters stay positive.
LEMMA TypeStep == TypeOK /\ IPKnown /\ [Next]_vars => TypeOK'
<1> SUFFICES ASSUME TypeOK, IPKnown, [Next]_vars PROVE TypeOK'
  OBVIOUS
<1> USE EventAssumption DEF TypeOK, Locations, Results
<1>1. ASSUME NEW s \in Streams, SubscribeDisabled(s) \/ SubscribeBadAddr(s)
      PROVE  TypeOK'
  BY <1>1 DEF SubscribeDisabled, SubscribeBadAddr, Refuse, conf
<1>2. ASSUME NEW s \in Streams, NEW ip \in IPs, SubscribeExceeded(s, ip)
      PROVE  TypeOK'
  BY <1>2 DEF SubscribeExceeded, Refuse, conf
<1>3. ASSUME NEW s \in Streams, NEW ip \in IPs, SubscribePermitted(s, ip)
      PROVE  TypeOK'
  <2>1. /\ DOMAIN Counted(ip) \subseteq IPs
        /\ Counted(ip) \in [DOMAIN Counted(ip) -> Nat \ {0}]
    BY DEF Counted, MapSet, MapGet
  <2>2. QED
    BY <1>3, <2>1 DEF SubscribePermitted, conf
<1>4. ASSUME NEW s \in Streams, RouterSubscribe(s) PROVE TypeOK'
  BY <1>4 DEF RouterSubscribe, conf
<1>5. ASSUME NEW s \in Streams, IterNext(s) PROVE TypeOK'
  BY <1>5 DEF IterNext, conf
<1>6. ASSUME NEW s \in Streams, IterEnd(s) \/ SendOK(s) \/ SendError(s)
      PROVE  TypeOK'
  BY <1>6 DEF IterEnd, SendOK, SendError, conf
<1>7. ASSUME NEW s \in Streams, Return(s) PROVE TypeOK'
  <2> DEFINE c == Uncounted(remoteIP[s])
  <2>1. remoteIP[s] \in IPs
    BY <1>7 DEF Return, IPKnown, Holds
  <2>2. /\ DOMAIN c \subseteq IPs
        /\ c \in [DOMAIN c -> Nat \ {0}]
    BY <2>1 DEF Uncounted, MapSet, MapGet, MapDelete
  <2>3. QED
    BY <1>7, <2>2 DEF Return, conf
<1>8. ASSUME NEW s \in Streams, ClientGone(s) PROVE TypeOK'
  BY <1>8 DEF ClientGone, conf
<1>9. CASE NewBlock
  BY <1>9 DEF NewBlock, conf
<1>10. CASE UNCHANGED vars
  BY <1>10 DEF vars
<1>11. QED
  BY <1>1, <1>2, <1>3, <1>4, <1>5, <1>6, <1>7, <1>8, <1>9, <1>10
     DEF Next, Subscribe

\* Every step but the two that touch the map leaves slots and counters alone.
LEMMA OtherSteps ==
    ASSUME TypeOK, [Next]_vars,
           \A s \in Streams : ~Return(s) /\ \A ip \in IPs : ~SubscribePermitted(s, ip)
    PROVE  /\ \A s \in Streams : Holds(s)' <=> Holds(s)
           /\ UNCHANGED <<eventAddrMaxConn, connCounter, remoteIP>>
<1> USE DEF TypeOK, Holds, conf
<1>1. ASSUME NEW s \in Streams, SubscribeDisabled(s) \/ SubscribeBadAddr(s)
      PROVE  UNCHANGED <<eventAddrMaxConn, connCounter, remoteIP, pc>>
  BY <1>1 DEF SubscribeDisabled, SubscribeBadAddr, Refuse
<1>2. ASSUME NEW s \in Streams, NEW ip \in IPs, SubscribeExceeded(s, ip)
      PROVE  UNCHANGED <<eventAddrMaxConn, connCounter, remoteIP, pc>>
  BY <1>2 DEF SubscribeExceeded, Refuse
<1>3. ASSUME NEW s \in Streams, RouterSubscribe(s)
      PROVE  /\ UNCHANGED <<eventAddrMaxConn, connCounter, remoteIP>>
             /\ \A t \in Streams : Holds(t)' <=> Holds(t)
  BY <1>3 DEF RouterSubscribe
<1>4. ASSUME NEW s \in Streams,
             IterNext(s) \/ IterEnd(s) \/ SendOK(s) \/ SendError(s)
      PROVE  /\ UNCHANGED <<eventAddrMaxConn, connCounter, remoteIP>>
             /\ \A t \in Streams : Holds(t)' <=> Holds(t)
  BY <1>4 DEF IterNext, IterEnd, SendOK, SendError
<1>5. ASSUME NEW s \in Streams, ClientGone(s)
      PROVE  UNCHANGED <<eventAddrMaxConn, connCounter, remoteIP, pc>>
  BY <1>5 DEF ClientGone
<1>6. CASE NewBlock
  BY <1>6 DEF NewBlock
<1>7. CASE UNCHANGED vars
  BY <1>7 DEF vars
<1>8. QED
  BY <1>1, <1>2, <1>3, <1>4, <1>5, <1>6, <1>7 DEF Next, Subscribe

\* The holders of an IP are finitely many.
LEMMA HoldersFinite ==
    ASSUME NEW ip
    PROVE  IsFiniteSet(HoldersOf(ip)) /\ Cardinality(HoldersOf(ip)) \in Nat
BY EventAssumption, FS_Subset, FS_CardinalityType DEF HoldersOf

(* A permitted call is one more holder of its IP and of no other, and is   *)
(* only permitted while a slot is free.                                    *)
LEMMA PermitStep ==
    ASSUME IInv, NEW s \in Streams, NEW ip \in IPs, SubscribePermitted(s, ip)
    PROVE  /\ IPKnown'
           /\ s \notin HoldersOf(ip)
           /\ HoldersOf(ip)' = HoldersOf(ip) \cup {s}
           /\ \A q \in IPs \ {ip} : HoldersOf(q)' = HoldersOf(q)
           /\ eventAddrMaxConn # 0 =>
                 Cardinality(HoldersOf(ip)) + 1 <= eventAddrMaxConn
<1> USE EventAssumption DEF IInv, TypeOK, IPKnown, Holds, HoldersOf
<1>1. /\ pc[s] = "idle"
      /\ pc' = [pc EXCEPT ![s] = "permitted"]
      /\ remoteIP' = [remoteIP EXCEPT ![s] = ip]
      /\ ~Refuses(ip)
  BY DEF SubscribePermitted
<1>2. IPKnown' /\ s \notin HoldersOf(ip)
  BY <1>1
<1>3. HoldersOf(ip)' = HoldersOf(ip) \cup {s}
  BY <1>1
<1>4. \A q \in IPs \ {ip} : HoldersOf(q)' = HoldersOf(q)
  BY <1>1
<1>5. ASSUME eventAddrMaxConn # 0
      PROVE  Cardinality(HoldersOf(ip)) + 1 <= eventAddrMaxConn
  <2>1. MapGet(connCounter, ip) = Cardinality(HoldersOf(ip))
    BY <1>5 DEF CounterExact
  <2>2. MapGet(connCounter, ip) + 1 <= eventAddrMaxConn
    BY <1>1, <1>5 DEF Refuses, MapGet
  <2>3. QED
    BY <2>1, <2>2
<1>6. QED
  BY <1>2, <1>3, <1>4, <1>5

\* A returning call was a holder of its IP and of no other.
LEMMA ReturnStep ==
    ASSUME IInv, NEW s \in Streams, Return(s)
    PROVE  /\ IPKnown'
           /\ remoteIP[s] \in IPs
           /\ \A q \in IPs : HoldersOf(q)' = HoldersOf(q) \ {s}
           /\ \A q \in IPs : s \in HoldersOf(q) <=> q = remoteIP[s]
BY EventAssumption DEF Return, IInv, TypeOK, IPKnown, Holds, HoldersOf

-----------------------------------------------------------------------------

\* A step of the map and of the holders of one IP keeps the counters exact.
LEMMA CounterStep ==
    ASSUME IInv, [Next]_vars
    PROVE  IPKnown' /\ CounterExact' /\ LimitRespected'
<1> USE DEF IInv
<1>1. ASSUME NEW s \in Streams, NEW ip \in IPs, SubscribePermitted(s, ip)
      PROVE  IPKnown' /\ CounterExact' /\ LimitRespected'
  <2>1. UNCHANGED eventAddrMaxConn /\ connCounter' = Counted(ip)
    BY <1>1 DEF SubscribePermitted, conf
  <2>2. IPKnown'
    BY <1>1, PermitStep
  <2>3. CASE eventAddrMaxConn = 0
    BY <2>1, <2>2, <2>3 DEF CounterExact, LimitRespected, Counted
  <2>4. CASE eventAddrMaxConn # 0
    <3>1. /\ IsFiniteSet(HoldersOf(ip)) /\ Cardinality(HoldersOf(ip)) \in Nat
          /\ Cardinality(HoldersOf(ip)') = Cardinality(HoldersOf(ip)) + 1
          /\ HoldersOf(ip)' # {}
      BY <1>1, PermitStep, HoldersFinite, FS_AddElement
    <3>2. \A q \in IPs \ {ip} : HoldersOf(q)' = HoldersOf(q)
      BY <1>1, PermitStep
    <3>3. /\ ip \in DOMAIN connCounter'
          /\ MapGet(connCounter', ip) = MapGet(connCounter, ip) + 1
          /\ \A q \in IPs \ {ip} :
                /\ q \in DOMAIN connCounter' <=> q \in DOMAIN connCounter
                /\ MapGet(connCounter', q) = MapGet(connCounter, q)
      BY <2>1, <2>4 DEF Counted, MapSet, MapGet
    <3>4. CounterExact'
      <4> SUFFICES ASSUME NEW q \in IPs
                   PROVE  /\ MapGet(connCounter', q) = Cardinality(HoldersOf(q)')
                          /\ q \in DOMAIN connCounter' <=> HoldersOf(q)' # {}
        BY <2>1, <2>4 DEF CounterExact
      <4>1. CASE q = ip
        BY <2>4, <3>1, <3>3, <4>1 DEF CounterExact
      <4>2. CASE q # ip
        BY <2>4, <3>2, <3>3, <4>2 DEF CounterExact
      <4>3. QED
        BY <4>1, <4>2
    <3>5. LimitRespected'
      BY <1>1, <2>1, <2>4, <3>1, <3>2, PermitStep DEF LimitRespected
    <3>6. QED
      BY <2>2, <3>4, <3>5
  <2>5. QED
    BY <2>3, <2>4
<1>2. ASSUME NEW s \in Streams, Return(s)
      PROVE  IPKnown' /\ CounterExact' /\ LimitRespected'
  <2>0. PICK ip \in IPs : ip = remoteIP[s]
    BY <1>2, ReturnStep
  <2>1. UNCHANGED eventAddrMaxConn /\ connCounter' = Uncounted(ip)
    BY <1>2, <2>0 DEF Return, conf
  <2>2. IPKnown' /\ s \in HoldersOf(ip)
    BY <1>2, <2>0, ReturnStep
  <2>3. \A q \in IPs : HoldersOf(q)' = HoldersOf(q) \ {s}
    BY <1>2, ReturnStep
  <2>4. \A q \in IPs \ {ip} : HoldersOf(q)' = HoldersOf(q)
    BY <1>2, <2>0, <2>3, ReturnStep
  <2>5. CASE eventAddrMaxConn = 0
    BY <2>1, <2>2, <2>5 DEF CounterExact, LimitRespected, Uncounted
  <2>6. CASE eventAddrMaxConn # 0
    <3>1. /\ IsFiniteSet(HoldersOf(ip)) /\ Cardinality(HoldersOf(ip)) \in Nat
          /\ IsFiniteSet(HoldersOf(ip)')
          /\ Cardinality(HoldersOf(ip)') = Cardinality(HoldersOf(ip)) - 1
          /\ HoldersOf(ip)' # {} <=> Cardinality(HoldersOf(ip)) > 1
      <4>1. IsFiniteSet(HoldersOf(ip)) /\ Cardinality(HoldersOf(ip)) \in Nat
        BY HoldersFinite
      <4>2. HoldersOf(ip)' = HoldersOf(ip) \ {s}
        BY <2>2, <2>3
      <4>3. /\ IsFiniteSet(HoldersOf(ip) \ {s})
            /\ Cardinality(HoldersOf(ip) \ {s}) = Cardinality(HoldersOf(ip)) - 1
        BY <4>1, <2>2, FS_RemoveElement
      <4>4. /\ HoldersOf(ip) \ {s} # {} <=> Cardinality(HoldersOf(ip) \ {s}) # 0
            /\ Cardinality(HoldersOf(ip) \ {s}) \in Nat
        BY <4>3, FS_EmptySet, FS_CardinalityType
      <4>5. QED
        BY <4>1, <4>2, <4>3, <4>4
    <3>2. MapGet(connCounter, ip) = Cardinality(HoldersOf(ip))
          /\ ip \in DOMAIN connCounter
      BY <2>2, <2>6 DEF CounterExact
    <3>3. /\ ip \in DOMAIN connCounter' <=> MapGet(connCounter, ip) > 1
          /\ MapGet(connCounter', ip) = MapGet(connCounter, ip) - 1
          /\ \A q \in IPs \ {ip} :
                /\ q \in DOMAIN connCounter' <=> q \in DOMAIN connCounter
                /\ MapGet(connCounter', q) = MapGet(connCounter, q)
      <4>1. connCounter[ip] \in Nat \ {0} /\ MapGet(connCounter, ip) = connCounter[ip]
        BY <3>2 DEF TypeOK, MapGet
      <4>2. CASE connCounter[ip] <= 1
        BY <2>1, <2>6, <3>2, <4>1, <4>2 DEF Uncounted, MapDelete, MapGet
      <4>3. CASE connCounter[ip] > 1
        BY <2>1, <2>6, <3>2, <4>1, <4>3 DEF Uncounted, MapSet, MapGet
      <4>4. QED
        BY <4>1, <4>2, <4>3
    <3>4. CounterExact'
      <4> SUFFICES ASSUME NEW q \in IPs
                   PROVE  /\ MapGet(connCounter', q) = Cardinality(HoldersOf(q)')
                          /\ q \in DOMAIN connCounter' <=> HoldersOf(q)' # {}
        BY <2>1, <2>6 DEF CounterExact
      <4>1. CASE q = ip
        BY <3>1, <3>2, <3>3, <4>1
      <4>2. CASE q # ip
        BY <2>4, <2>6, <3>3, <4>2 DEF CounterExact
      <4>3. QED
        BY <4>1, <4>2
    <3>5. LimitRespected'
      <4> SUFFICES ASSUME NEW q \in IPs
                   PROVE  Cardinality(HoldersOf(q)') <= eventAddrMaxConn
        BY <2>1 DEF LimitRespected
      <4>1. CASE q = ip
        BY <2>6, <3>1, <4>1 DEF LimitRespected, TypeOK
      <4>2. CASE q # ip
        BY <2>4, <2>6, <4>2 DEF LimitRespected
      <4>3. QED
        BY <4>1, <4>2
    <3>6. QED
      BY <2>2, <3>4, <3>5
  <2>7. QED
    BY <2>5, <2>6
<1>3. ASSUME \A s \in Streams :
                ~Return(s) /\ \A ip \in IPs : ~SubscribePermitted(s, ip)
      PROVE  IPKnown' /\ CounterExact' /\ LimitRespected'
  <2>1. /\ \A s \in Streams : Holds(s)' <=> Holds(s)
        /\ UNCHANGED <<eventAddrMaxConn, connCounter, remoteIP>>
    BY <1>3, OtherSteps
  <2>2. \A ip \in IPs : HoldersOf(ip)' = HoldersOf(ip)
    BY <2>1 DEF HoldersOf
  <2>3. IPKnown'
    BY <2>1 DEF IPKnown
  <2>4. CounterExact'
    BY <2>1, <2>2 DEF CounterExact
  <2>5. LimitRespected'
    BY <2>1, <2>2 DEF LimitRespected
  <2>6. QED
    BY <2>3, <2>4, <2>5
<1>4. QED
  BY <1>1, <1>2, <1>3

\* Before the first call there is no holder and no counter.
LEMMA InitHolds == Init => IInv
<1> SUFFICES ASSUME Init PROVE IInv
  OBVIOUS
<1>1. TypeOK
  BY EventAssumption DEF Init, TypeOK, Locations, Results
<1>2. IPKnown
  BY DEF Init, IPKnown, Holds
<1>3. \A ip \in IPs : HoldersOf(ip) = {}
  BY DEF Init, HoldersOf, Holds
<1>4. CounterExact
  BY <1>3, FS_EmptySet DEF Init, CounterExact, MapGet
<1>5. LimitRespected
  BY <1>1, <1>3, FS_EmptySet DEF LimitRespected, TypeOK
<1>6. QED
  BY <1>1, <1>2, <1>4, <1>5 DEF IInv

(* In every run of the service the inductive invariant holds: in           *)
(* particular the types are kept.                                          *)
THEOREM Invariance == Spec => []IInv
<1>1. IInv /\ [Next]_vars => IInv'
  BY TypeStep, CounterStep DEF IInv
<1>2. QED
  BY InitHolds, <1>1, PTL DEF Spec

(* The state of the service keeps its types, and connCounter has no key    *)
(* whose count is zero: releaseConn deletes it.                            *)
THEOREM TypesHold == Spec => []TypeOK
<1>1. IInv => TypeOK
  BY DEF IInv
<1> QED
  BY <1>1, Invariance, PTL

(* connCounter counts exactly the subscriptions between connPermit and     *)
(* releaseConn, for any number of concurrent calls.                        *)
THEOREM CounterIsExact == Spec => []CounterExact
<1>1. IInv => CounterExact
  BY DEF IInv
<1>2. QED
  BY Invariance, <1>1, PTL

(* No IP ever has more subscriptions than eventAddrMaxConn.                *)
THEOREM LimitIsRespected == Spec => []LimitRespected
<1>1. IInv => LimitRespected
  BY DEF IInv
<1>2. QED
  BY Invariance, <1>1, PTL

(* A call is refused for the limit only while an IP has all its slots in   *)
(* use.                                                                    *)
THEOREM RefusalIsJustified == Spec => RefusedOnlyWhenFull
<1> DEFINE Justified ==
      \A s \in Streams :
         (ret'[s] = "exceeded" /\ ret[s] # "exceeded") =>
            \E ip \in IPs : Cardinality(HoldersOf(ip)) = eventAddrMaxConn
<1>1. IInv /\ [Next]_vars => [Justified]_vars
  <2> SUFFICES ASSUME IInv, Next,
                      NEW s \in Streams, ret'[s] = "exceeded", ret[s] # "exceeded"
               PROVE  \E ip \in IPs : Cardinality(HoldersOf(ip)) = eventAddrMaxConn
    OBVIOUS
  <2>1. ret \in [Streams -> Results]
    BY DEF IInv, TypeOK
  <2>2. PICK t \in Streams, ip \in IPs : SubscribeExceeded(t, ip)
    BY <2>1 DEF Next, Subscribe, SubscribeDisabled, SubscribeBadAddr, Refuse,
         SubscribePermitted, RouterSubscribe, IterNext, IterEnd, SendOK, SendError,
         Return, ClientGone, NewBlock
  <2>3. eventAddrMaxConn # 0 /\ ip \in DOMAIN connCounter
        /\ connCounter[ip] >= eventAddrMaxConn
    BY <2>2 DEF SubscribeExceeded, Refuses
  <2>4. Cardinality(HoldersOf(ip)) = connCounter[ip]
    BY <2>3 DEF IInv, CounterExact, MapGet
  <2>5. Cardinality(HoldersOf(ip)) <= eventAddrMaxConn
    BY <2>3 DEF IInv, LimitRespected
  <2>6. Cardinality(HoldersOf(ip)) \in Nat /\ eventAddrMaxConn \in Nat
    BY HoldersFinite, EventAssumption DEF IInv, TypeOK
  <2>7. QED
    BY <2>3, <2>4, <2>5, <2>6
<1>2. QED
  BY Invariance, <1>1, PTL DEF Spec, RefusedOnlyWhenFull

-----------------------------------------------------------------------------
(* Refinement: the slots are a counting semaphore per IP.                  *)

\* ConnLimiter brings its own instance of FiniteSets: the same operator.
LEMMA SameCardinality == ASSUME NEW S PROVE Limiter!Cardinality(S) = Cardinality(S)
BY DEF Limiter!Cardinality, Cardinality

\* The abstract holders of an IP are the concrete ones.
LEMMA SameHolders ==
    ASSUME IPKnown, NEW ip \in IPs
    PROVE  Limiter!HoldersOf(ip) = HoldersOf(ip)
BY EventAssumption DEF Limiter!HoldersOf, HoldersOf, holderBar, IPKnown, Holds

(* Every run of the service is a run of ConnLimiter: a permit is an        *)
(* Acquire of a free slot, the deferred release a Release, and every other *)
(* step a stuttering one.                                                  *)
THEOREM Refinement == Spec => ImplementsLimiter
<1>1. Init => Limiter!Init
  BY EventAssumption DEF Init, Limiter!Init, holderBar, Holds
<1>2. IInv /\ [Next]_vars => [Limiter!Next]_(Limiter!vars)
  <2> SUFFICES ASSUME IInv, [Next]_vars
               PROVE  [Limiter!Next]_(Limiter!vars)
    OBVIOUS
  <2> USE DEF IInv
  <2>1. ASSUME NEW s \in Streams, NEW ip \in IPs, SubscribePermitted(s, ip)
        PROVE  Limiter!Acquire(s, ip)
    <3>1. holderBar[s] = NoIP
      BY <2>1 DEF SubscribePermitted, holderBar, Holds
    <3>2. eventAddrMaxConn = 0
          \/ Limiter!Cardinality(Limiter!HoldersOf(ip)) < eventAddrMaxConn
      <4>1. Limiter!HoldersOf(ip) = HoldersOf(ip)
        BY SameHolders
      <4>2. Cardinality(HoldersOf(ip)) \in Nat /\ eventAddrMaxConn \in Nat
        BY HoldersFinite, EventAssumption DEF TypeOK
      <4>3. QED
        BY <2>1, <4>1, <4>2, PermitStep, SameCardinality
    <3>3. holderBar' = [holderBar EXCEPT ![s] = ip]
      BY <2>1 DEF SubscribePermitted, holderBar, Holds, TypeOK
    <3>4. UNCHANGED eventAddrMaxConn
      BY <2>1 DEF SubscribePermitted, conf
    <3>5. QED
      BY <3>1, <3>2, <3>3, <3>4 DEF Limiter!Acquire
  <2>2. ASSUME NEW s \in Streams, Return(s)
        PROVE  Limiter!Release(s)
    <3>1. holderBar[s] # NoIP
      BY <2>2, EventAssumption DEF Return, holderBar, Holds, IPKnown
    <3>2. holderBar' = [holderBar EXCEPT ![s] = NoIP]
      BY <2>2 DEF Return, holderBar, Holds, TypeOK
    <3>3. UNCHANGED eventAddrMaxConn
      BY <2>2 DEF Return, conf
    <3>4. QED
      BY <3>1, <3>2, <3>3 DEF Limiter!Release
  <2>3. ASSUME \A s \in Streams :
                  ~Return(s) /\ \A ip \in IPs : ~SubscribePermitted(s, ip)
        PROVE  UNCHANGED Limiter!vars
    BY <2>3, OtherSteps DEF Limiter!vars, holderBar
  <2>4. QED
    BY <2>1, <2>2, <2>3 DEF Limiter!Next
<1>3. QED
  BY Invariance, <1>1, <1>2, PTL DEF Spec, Limiter!Spec, ImplementsLimiter
=============================================================================
