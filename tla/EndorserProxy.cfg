SPECIFICATION FairSpec
CONSTANTS
    Calls = {c1, c2, c3}
    Hosts = {h1, h2}
    None = None
INVARIANTS OneConnection UsesCached
PROPERTIES CallsEnd
