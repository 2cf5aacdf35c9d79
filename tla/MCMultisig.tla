------------------------------ MODULE MCMultisig ------------------------------
(***************************************************************************)
(* Two parties and the endorser for the runs of Multisig.                  *)
(***************************************************************************)
EXTENDS Multisig, TLC

CONSTANTS alice, bob, endorser, f1, f2, f3

RequiredSigns == <<bob, endorser>>

Outputs == [p \in {alice, bob, endorser} |->
               CASE p = alice -> {f1} [] p = bob -> {f2} [] p = endorser -> {f3}]

\* The arguments as they should be, and those of --signtype multi, which are also
\* too many and in the wrong order without it.
Arguments == {[init |-> <<f1>>, auth |-> <<f2, f3>>], [init |-> <<f2, f1>>, auth |-> <<f3, f2>>]}

\* Nothing tells one output from another.
AlikeCoins == Permutations(Coins)

=============================================================================
