\* Three calls from two hosts, limits 0 (none), 1 and 2, fair handlers and a
\* chain that keeps growing.
CONSTANTS
    NoIP = NoIP
    Streams = {s1, s2, s3}
    IPs = {ip1, ip2}
    MaxConnBound = 2
    MaxBacklog = 1
SPECIFICATION FairSpec
INVARIANTS TypeOK CounterExact LimitRespected
PROPERTIES GoneClientReleases RefusedOnlyWhenFull ImplementsLimiter
