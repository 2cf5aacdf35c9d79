------------------------------ MODULE TxAssembly ------------------------------
(***************************************************************************)
(* How the client's commands turn amounts into transaction outputs         *)
(* (cmd/client/cmd/comm_trans.go, cli.go, utxo_split.go), as pure          *)
(* operators.  A transaction is seen by what it pays to whom: "pay" to the *)
(* receiver or contract, "fee" to the fee placeholder "$", "service" to    *)
(* the endorser's fee address, "back" to the payer itself; an output that  *)
(* is not made counts 0.                                                   *)
(*                                                                         *)
(* Amounts arrive as decimal strings: empty, not a number, or a number in  *)
(* canonical form.  A command is a record t with the strings t.amount and  *)
(* t.fee, and t.to (a receiver is set).                                    *)
(***************************************************************************)
EXTENDS Integers

CONSTANTS Int64Half,   \* 2^63: int64 is -Int64Half .. Int64Half-1
          ServiceFee   \* ComplianceCheckEndorseServiceFee

ASSUME TxAssemblyAssumption ==
    /\ Int64Half \in Nat \ {0}
    /\ ServiceFee \in 0..(Int64Half - 1)

---------------------------------------------------------------------------
(* Strings and conversions.                                                *)

Empty == [kind |-> "empty", val |-> 0]
NotANumber == [kind |-> "bad", val |-> 0]
Num(n) == [kind |-> "num", val |-> n]
Strings == {Empty, NotANumber} \cup {Num(n) : n \in Int}

\* s == "" || s == "0"
Absent(s) == s = Empty \/ s = Num(0)

\* What the checks on big.Int.SetString and on the sign let through.
Valid(s) == s.kind = "num" /\ s.val >= 0

\* big.Int.Bytes() is the magnitude: the sign is dropped.
Bytes(n) == IF n < 0 THEN -n ELSE n

\* strconv.ParseInt(s, 10, 64): out of range is an error, and the value the
\* callers that ignore the error go on with is the nearest int64.
ParseIntOK(s) == s.kind = "num" /\ s.val \in -Int64Half..(Int64Half - 1)
ParseInt(s) == CASE s.val > Int64Half - 1 -> Int64Half - 1
                 [] s.val < -Int64Half -> -Int64Half
                 [] OTHER -> s.val

\* int64 addition wraps around.
Wrap(n) == ((n + Int64Half) % (2 * Int64Half)) - Int64Half

---------------------------------------------------------------------------
(* CommTrans without compliance check, and the transfer command.           *)

\* "You need add fee", "Fee not enough"
FeeRefused(t, gasUsed) ==
    gasUsed > 0 /\ (Absent(t.fee) \/ ParseInt(t.fee) < gasUsed)

\* GenTxOutputs returns an error: the gas is not covered, or an account's
\* amount is ErrInvalidAmount or ErrNegativeAmount.
GenTxOutputsError(t, gasUsed) ==
    \/ FeeRefused(t, gasUsed)
    \/ t.to /\ ~Valid(t.amount)
    \/ ~Absent(t.fee) /\ ~Valid(t.fee)

Pay(t) == IF t.to THEN t.amount.val ELSE 0
Fee(t) == IF Absent(t.fee) THEN 0 ELSE t.fee.val

\* totalNeed of GenTxOutputs
TotalNeed(t) == Pay(t) + Fee(t)

\* The output to the payer itself that GenTxInputs, GenerateTxInput and
\* assembleTxInputsSupportAccount make of what was selected in excess.
Delta(selected, need) == IF selected > need THEN selected - need ELSE 0

\* GenRawTx, and assembleTxSupportAccount for t.to = TRUE
GenRawTx(t, selected) ==
    [pay |-> Pay(t), fee |-> Fee(t), service |-> 0,
     back |-> <<Delta(selected, TotalNeed(t))>>]

\* Mutant: without the sign check.
AssembleErrorUnsigned(t) == t.amount.kind # "num" \/ (~Absent(t.fee) /\ t.fee.kind # "num")

\* assembleTxSupportAccount's checks: no gas, the receiver is always there.
AssembleError(t) == ~Valid(t.amount) \/ (~Absent(t.fee) /\ ~Valid(t.fee))

---------------------------------------------------------------------------
(* CommTrans with compliance check: a transaction for the service fee, and *)
(* the real one, which spends the change of the first.                     *)

\* preExecWithSelectUTXOReq: extraAmount, an int64.
ReqError(t) == \/ ~Absent(t.fee) /\ ~ParseIntOK(t.fee)
               \/ t.amount # Empty /\ ~ParseIntOK(t.amount)
ExtraAmount(t) == Wrap(ServiceFee + Fee(t) + t.amount.val)

\* RpcServ.PreExecWithSelectUTXO's totalAmount
TotalAmount(t, gasUsed) == Wrap(ExtraAmount(t) + gasUsed)

\* GenComplianceCheckTx: t.feeAddr says that the fee address is configured;
\* without it GenerateTxOutput makes no output for the service fee.
GenComplianceCheckTx(t, selected) ==
    [pay |-> 0, fee |-> 0, service |-> IF t.feeAddr THEN ServiceFee ELSE 0,
     back |-> <<Delta(selected, ServiceFee)>>]

\* GenRealTx and GenerateMultiTxOutputs: t.fee is parsed even when empty.
GenRealTxError(t) ==
    \/ ~Valid(t.fee)
    \/ t.amount # Empty /\ t.amount.kind # "num"

GenRealTx(t, totalSelected) ==
    [pay |-> Bytes(t.amount.val), fee |-> Fee(t), service |-> 0,
     back |-> <<Bytes(totalSelected - (t.fee.val + t.amount.val))>>]

---------------------------------------------------------------------------
(* Merge and split of the payer's own outputs.                             *)

\* GenTxInputsWithMergeUTXO: one output to the payer of all that was selected.
MergeTx(selected) ==
    [pay |-> 0, fee |-> 0, service |-> 0, back |-> <<selected>>]

\* What genSplitOutputs' loop computes (UtxoSplit models the loop itself):
\* num - 1 equal outputs and one with the rest.
SplitOutputs(total, num) ==
    LET amount == total \div num
    IN  [i \in 1..num |-> IF i < num THEN amount ELSE total - (num - 1) * amount]

SplitTx(selected, total, num) ==
    [pay |-> 0, fee |-> 0, service |-> 0,
     back |-> [i \in 1..(num + 1) |->
                 IF i <= num THEN SplitOutputs(total, num)[i] ELSE Delta(selected, total)]]

=============================================================================
