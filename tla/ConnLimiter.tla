---------------------------- MODULE ConnLimiter ----------------------------
(***************************************************************************)
(* What the event service promises of its subscriptions: a counting        *)
(* semaphore per remote IP.  No counters, no streams, no mutex: only who   *)
(* holds a slot of which IP.  EventService implements it.                  *)
(***************************************************************************)
EXTENDS Naturals, FiniteSets

CONSTANTS Streams,   \* subscription calls that may run at the same time
          IPs,       \* remote addresses
          NoIP       \* "holds no slot"

VARIABLES limit,     \* slots per IP, 0 is unlimited
          holder     \* the IP whose slot each stream holds, or NoIP

vars == <<limit, holder>>

HoldersOf(ip) == {s \in Streams : holder[s] = ip}

Init ==
    /\ limit \in Nat
    /\ holder = [s \in Streams |-> NoIP]

Acquire(s, ip) ==
    /\ holder[s] = NoIP
    /\ limit = 0 \/ Cardinality(HoldersOf(ip)) < limit
    /\ holder' = [holder EXCEPT ![s] = ip]
    /\ UNCHANGED limit

Release(s) ==
    /\ holder[s] # NoIP
    /\ holder' = [holder EXCEPT ![s] = NoIP]
    /\ UNCHANGED limit

Next == \E s \in Streams : Release(s) \/ \E ip \in IPs : Acquire(s, ip)

Spec == Init /\ [][Next]_vars
=============================================================================
