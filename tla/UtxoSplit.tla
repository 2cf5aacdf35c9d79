------------------------------- MODULE UtxoSplit -------------------------------
(***************************************************************************)
(* The loop of genSplitOutputs (cmd/client/cmd/utxo_split.go): a balance   *)
(* is cut into num outputs of the payer.  TxFlow uses SplitOutputs, the    *)
(* closed form; this module shows that the loop computes it.               *)
(***************************************************************************)
EXTENDS TxAssembly, Sequences

CONSTANTS Totals,  \* balances
          Nums     \* values of the --num flag

ASSUME SplitAssumption == Totals \subseteq Nat /\ Nums \subseteq Int

VARIABLES splitTotal,  \* totalNeed: the balance at the start
          splitNum,    \* c.num
          splitPc,     \* "start", "loop", "done" or "refused"
          splitI,      \* i, the loop's counter
          splitRest,   \* rest: what is left of the balance
          txOutputs    \* amounts of the outputs made so far

splitVars == <<splitTotal, splitNum, splitPc, splitI, splitRest, txOutputs>>

SplitInit ==
    /\ splitTotal \in Totals
    /\ splitNum \in Nums
    /\ splitPc = "start"
    /\ splitI = 1
    /\ splitRest = splitTotal
    /\ txOutputs = <<>>

amount == splitTotal \div splitNum

\* "illegal split utxo num, num > 0 required", "split utxo <= BALANCE required"
SplitRefused == splitNum <= 0 \/ splitNum > splitRest

Refuse ==
    /\ splitPc = "start" /\ SplitRefused
    /\ splitPc' = "refused"
    /\ UNCHANGED <<splitTotal, splitNum, splitI, splitRest, txOutputs>>

Enter ==
    /\ splitPc = "start" /\ ~SplitRefused
    /\ splitPc' = "loop"
    /\ UNCHANGED <<splitTotal, splitNum, splitI, splitRest, txOutputs>>

\* Mutant: the loop stops early.
ContinuesShort == splitI < splitNum /\ splitRest > 2 * amount

\* The condition of the for loop
Continues == splitI < splitNum /\ splitRest > amount

Iterate ==
    /\ splitPc = "loop" /\ Continues
    /\ txOutputs' = Append(txOutputs, amount)
    /\ splitRest' = splitRest - amount
    /\ splitI' = splitI + 1
    /\ UNCHANGED <<splitTotal, splitNum, splitPc>>

Finish ==
    /\ splitPc = "loop" /\ ~Continues
    /\ txOutputs' = Append(txOutputs, splitRest)
    /\ splitPc' = "done"
    /\ UNCHANGED <<splitTotal, splitNum, splitI, splitRest>>

SplitNext == Refuse \/ Enter \/ Iterate \/ Finish

SplitSpec == SplitInit /\ [][SplitNext]_splitVars

---------------------------------------------------------------------------
\* Types, and the counter stays within the number of outputs.
SplitTypes ==
    /\ splitTotal \in Totals
    /\ splitNum \in Nums
    /\ splitPc \in {"start", "loop", "done", "refused"}
    /\ splitI \in Nat \ {0}
    /\ splitPc \in {"loop", "done"} => splitI \in 1..splitNum
    /\ splitRest \in Nat
    /\ txOutputs \in Seq(Nat)

\* genSplitOutputs cuts the balance into exactly num outputs, num - 1 equal ones
\* and one with the rest: the second condition of the loop never ends it early.
SplitExact == splitPc = "done" => txOutputs = SplitOutputs(splitTotal, splitNum)

=============================================================================
