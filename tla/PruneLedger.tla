----------------------------- MODULE PruneLedger -----------------------------
(***************************************************************************)
(* xchain pruneLedger (cmd/xchain/cmd/pruneledger.go): with the node       *)
(* stopped, the state is walked to a target block, and then one batch      *)
(* moves the ledger's tip there and removes the branches that are invalid  *)
(* from there on.  The walk is persisted block by block, the batch at      *)
(* once; the command may fail or be killed anywhere and is run again, with *)
(* the same or another target, or the node is started instead.  Between    *)
(* two of them xchain offlineQuery (cmd/xchain/cmd/offlinequery.go) reads  *)
(* what they left.                                                         *)
(*                                                                         *)
(* External (xupercore): the ledger with its tables, State.Walk, and the   *)
(* node that confirms blocks and makes its state follow.  Blocks are       *)
(* numbered by the order in which they are confirmed; 0 is the root.       *)
(***************************************************************************)
EXTENDS Integers, FiniteSets

CONSTANT MaxBlock   \* number of blocks confirmed besides the root

ASSUME PruneAssumption == MaxBlock \in Nat

Ids == 0..MaxBlock

VARIABLES
    blocks,    \* blocks in the ledger
    parent,    \* PreHash of each block
    tip,       \* LedgerMeta.TipBlockid
    inTrunk,   \* blocks with InTrunk set
    heads,     \* the BranchInfo table: the last block of each branch
    stateTip,  \* the block the state is at
    next,      \* the next block's number
    pc,        \* the command, or "node" while the node runs, or "off"
    target     \* c.Target

vars == <<blocks, parent, tip, inTrunk, heads, stateTip, next, pc, target>>
ledgerVars == <<blocks, parent, tip, inTrunk, heads, next>>

ancestors[b \in Ids] == IF b = 0 THEN {0} ELSE {b} \cup ancestors[parent[b]]
Height(b) == Cardinality(ancestors[b]) - 1

\* after createChain: the root block, and nothing runs
Init ==
    /\ blocks = {0}
    /\ parent = [b \in Ids |-> 0]
    /\ tip = 0
    /\ inTrunk = {0}
    /\ heads = {0}
    /\ stateTip = 0
    /\ next = 1
    /\ pc = "off"
    /\ target = 0

---------------------------------------------------------------------------
(* The ledger and the state, as the command uses them.                     *)

\* one block undone, or, from an ancestor of the goal, one block redone; the
\* path is read from the ledger, which must have all of it
WalkOne(goal) ==
    /\ ancestors[stateTip] \cup ancestors[goal] \subseteq blocks
    /\ stateTip' = IF stateTip \notin ancestors[goal] THEN parent[stateTip]
                   ELSE CHOOSE b \in ancestors[goal] : b # 0 /\ parent[b] = stateTip

GetCommonParentBlockid(a, b) ==
    CHOOSE p \in ancestors[a] \cap ancestors[b] :
        \A q \in ancestors[a] \cap ancestors[b] : Height(q) <= Height(p)

\* the blocks from a head down to, and without, its common parent with the target
RemoveBlocks(head, to) == ancestors[head] \ ancestors[to]

\* GetBranchInfo: the heads beyond the target, and perhaps those at its height
InvalidBranches ==
    {S \in SUBSET {h \in heads \ {target} : Height(h) >= Height(target)} :
        \A h \in heads : Height(h) > Height(target) => h \in S}

---------------------------------------------------------------------------
(* The node.                                                               *)

\* a block is confirmed on any block of the ledger; the higher branch is the
\* trunk, unless a prune took a part of it
ConfirmBlock ==
    /\ pc = "node"
    /\ next <= MaxBlock
    /\ \E p \in blocks :
          /\ parent' = [parent EXCEPT ![next] = p]
          /\ heads' = (heads \ {p}) \cup {next}
          /\ LET higher == Height(p) + 1 > Height(tip)
             IN  /\ higher => ancestors[p] \subseteq blocks
                 /\ tip' = IF higher THEN next ELSE tip
                 /\ inTrunk' = IF higher THEN ancestors[p] \cup {next} ELSE inTrunk
    /\ blocks' = blocks \cup {next}
    /\ next' = next + 1
    /\ UNCHANGED <<stateTip, pc, target>>

\* the state follows the ledger, also when the node starts
StateFollows ==
    /\ pc = "node"
    /\ stateTip # tip
    /\ WalkOne(tip)
    /\ UNCHANGED <<ledgerVars, pc, target>>

StartNode == pc = "off" /\ pc' = "node" /\ UNCHANGED <<ledgerVars, stateTip, target>>
StopNode == pc = "node" /\ pc' = "off" /\ UNCHANGED <<ledgerVars, stateTip, target>>

---------------------------------------------------------------------------
(* The command.                                                            *)

\* OpenLedger, NewState, QueryBlock(targetBlockId)
Open ==
    /\ pc = "off"
    /\ target' \in blocks
    /\ pc' = "walk"
    /\ UNCHANGED <<ledgerVars, stateTip>>

\* shandle.Walk(targetBlockId, true)
Walk ==
    /\ pc = "walk"
    /\ stateTip # target
    /\ WalkOne(target)
    /\ UNCHANGED <<ledgerVars, pc, target>>

\* Mutant: the ledger first, the state after it.
WalkEndsLater ==
    /\ pc = "walk"
    /\ pc' = "write"
    /\ UNCHANGED <<ledgerVars, stateTip, target>>

WalkEnds ==
    /\ pc = "walk"
    /\ stateTip = target
    /\ pc' = "write"
    /\ UNCHANGED <<ledgerVars, stateTip, target>>

\* A branch that an earlier prune took a block of has no common parent any more:
\* ErrBlockNotExist is ignored, and RemoveBlocks removes nothing.
Connected(S) == {h \in S : ancestors[h] \subseteq blocks}

\* Mutant: the record of a branch is kept.
pruneInvalidBranchKeepsHead(S) ==
    /\ blocks' = blocks \ UNION {RemoveBlocks(h, GetCommonParentBlockid(target, h)) : h \in Connected(S)}
    /\ UNCHANGED heads

\* the blocks of every branch that is connected, and the record of every branch
pruneInvalidBranch(S) ==
    /\ blocks' = blocks \ UNION {RemoveBlocks(h, GetCommonParentBlockid(target, h)) : h \in Connected(S)}
    /\ heads' = heads \ S

\* Mutant: the new trunk is not marked.
WriteWithoutFork ==
    /\ pc = "write"
    /\ tip' = target
    /\ \E S \in InvalidBranches : pruneInvalidBranch(S)
    /\ pc' = "done"
    /\ UNCHANGED <<parent, inTrunk, stateTip, next, target>>

\* HandleFork, the new meta data and pruneInvalidBranch, written by one batch
Write ==
    /\ pc = "write"
    /\ inTrunk' = (inTrunk \ (ancestors[tip] \ ancestors[target])) \cup ancestors[target]
    /\ tip' = target
    /\ \E S \in InvalidBranches : pruneInvalidBranch(S)
    /\ pc' = "done"
    /\ UNCHANGED <<parent, stateTip, next, target>>

\* an error of any call, or the process is killed
Fail ==
    /\ pc \in {"walk", "write"}
    /\ pc' = "off"
    /\ UNCHANGED <<ledgerVars, stateTip, target>>

Close == pc = "done" /\ pc' = "off" /\ UNCHANGED <<ledgerVars, stateTip, target>>

Next ==
    \/ ConfirmBlock \/ StateFollows \/ StartNode \/ StopNode
    \/ Open \/ Walk \/ WalkEnds \/ Write \/ Fail \/ Close

Spec == Init /\ [][Next]_vars

\* A node that stays up lets its state follow; nothing else is assumed.
FairSpec == Spec /\ WF_vars(StateFollows)

---------------------------------------------------------------------------
(* The offline query: what it may show, or {} when it ends with an error.  *)

\* the ledger cannot be opened while another process has it open
createHandle(answer) == IF pc = "off" THEN answer ELSE {}

QueryBlockByHeight(h) == {b \in inTrunk \cap blocks : Height(b) = h}

QueryStatus == createHandle({[tip |-> tip, height |-> Height(tip)]})
QueryByBlockId(b) == createHandle({b} \cap blocks)
QueryByBlockHeight(h) == createHandle(QueryBlockByHeight(h))

\* A transaction of block b, from the ledger's table.  Whether the transactions
\* of a removed block leave the table is up to the ledger; one that is not found
\* is no error.
QueryByTxId(b) ==
    createHandle(CASE b \in blocks -> {b}
                   [] b \in 0..(next - 1) \ blocks -> {b, "not found"}
                   [] OTHER -> {"not found"})

\* CreateXMSnapshotReader: the state as it was at block b, if it passed b; else
\* what it has up to that height
Snapshot(b) ==
    IF b \in ancestors[stateTip] THEN {b}
    ELSE {a \in ancestors[stateTip] : Height(a) <= Height(b)}

\* The block whose state is read: the latest, at height -1, or that of a height.
Get(h) ==
    createHandle(IF h = -1 THEN {stateTip} ELSE UNION {Snapshot(b) : b \in QueryBlockByHeight(h)})

---------------------------------------------------------------------------
(* Properties.                                                             *)

\* Wherever the command fails or is killed, the ledger still has the whole path
\* from the root to the block the state is at, so that the state can be walked
\* to the ledger's tip: pruneLedger walks before the batch removes anything.
StateBlockKept == ancestors[stateTip] \subseteq blocks

\* The trunk is complete from the root to the tip and marked as such, and the
\* branch records name blocks the ledger has: HandleFork, the meta data and
\* pruneInvalidBranch belong to one batch and agree with each other.  (A lower
\* branch may lose blocks it shares with a pruned one; the rest of its blocks
\* then outlives its record, by the errors that pruneInvalidBranch ignores.)
LedgerConsistent ==
    /\ ancestors[tip] \subseteq blocks
    /\ inTrunk \cap blocks = ancestors[tip]
    /\ heads \subseteq blocks

\* After a successful command state and ledger are at the target, and no
\* recorded branch reaches beyond it.
PrunedToTarget ==
    pc = "done" =>
        /\ tip = target /\ stateTip = target
        /\ \A h \in heads : Height(h) <= Height(target)

\* Offline queries agree with each other, whatever ran before and however it
\* ended: there is exactly one block for every height up to the one status shows
\* and none beyond it, and every block is the parent of the next.  The state may
\* be behind or on another branch after a prune that was killed; what get reads is
\* then that of a block that is still found by its id, and its transactions by
\* theirs, and once the state is at the tip it is that of the height asked for.
OfflineAnswers ==
    \A s \in QueryStatus :
        /\ \A h \in Ids : QueryByBlockHeight(h) # {} <=> h <= s.height
        /\ \A h \in 0..s.height : \A b \in QueryByBlockHeight(h) :
              /\ h = s.height => b = s.tip
              /\ h > 0 => QueryByBlockHeight(h - 1) = {parent[b]}
        /\ \A h \in -1..s.height : \A b \in Get(h) :
              QueryByBlockId(b) = {b} /\ QueryByTxId(b) = {b}
        /\ stateTip = s.tip => \A h \in 0..s.height : Get(h) = QueryByBlockHeight(h)

\* The state of a node that stays up arrives at the ledger's tip, whatever a
\* failed prune left behind.
StateRecovers == (pc = "node") ~> (stateTip = tip \/ pc # "node")

=============================================================================
