\* Chains and forks of up to five blocks, prunes that fail anywhere, the node started after them.
SPECIFICATION FairSpec
CONSTANT MaxBlock = 5
INVARIANTS OfflineAnswers StateBlockKept LedgerConsistent PrunedToTarget
PROPERTIES StateRecovers
