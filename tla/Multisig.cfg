\* Two gen commands, two signers, an endorser and every order of the commands.
SPECIFICATION Spec
CONSTANTS
    alice = alice
    bob = bob
    endorser = endorser
    f1 = f1
    f2 = f2
    f3 = f3
    Signers = {alice, bob}
    Initiator = alice
    Endorser = endorser
    Auth <- RequiredSigns
    Files = {f1, f2, f3}
    Output <- Outputs
    SendArgs <- Arguments
    PubKeys = 2
    Coins = {c1, c2}
    MaxGen = 2
SYMMETRY AlikeCoins
INVARIANTS RefusedForCause
\* The commands may end with no output left to spend.
CHECK_DEADLOCK FALSE
