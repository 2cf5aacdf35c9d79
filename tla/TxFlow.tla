-------------------------------- MODULE TxFlow --------------------------------
(***************************************************************************)
(* Client processes that spend the outputs of one payer, the node they     *)
(* call and the endorser.  Each client runs one command, a job that        *)
(* Commands makes of its command line:                                     *)
(*   "invoke"    CommTrans.Transfer (comm_trans.go): contract invoke,      *)
(*               deploy, proposals, ..., with or without compliance check  *)
(*   "gen"       CommTrans.GenerateMultisigGenRawTx: the same transaction, *)
(*               written to a file for the multisig commands               *)
(*   "query"     CommTrans.GenPreExeRes alone                              *)
(*   "transfer"  Cli.Transfer (cli.go)                                     *)
(*   "merge"     MergeUtxoCommand (utxo_merge.go)                          *)
(*   "split"     SplitUtxoCommand (utxo_split.go)                          *)
(*   "refused", "nothing"  a command that ends before it calls the node    *)
(* Every client step is one call to the node or to the endorser with the   *)
(* local work up to the next call.  A call may fail or lose its reply.     *)
(*                                                                         *)
(* External: the ledger behind the node's api (selection, locks with an    *)
(* expiry, gas of a pre-execution, acceptance of a transaction).  Inputs   *)
(* and outputs a contract itself adds balance each other and are left out. *)
(***************************************************************************)
EXTENDS TxAssembly, Sequences, FiniteSets, FiniteSetsExt, SequencesExt

CONSTANTS Clients,  \* client processes
          Jobs,     \* the commands they may run
          Genesis,  \* the payer's outputs at the start: a sequence of amounts
          Gas       \* gas a pre-execution may report

\* What Commands makes of a command line: only CommTrans.Transfer checks
\* compliance, a transfer has a receiver, only a vote pays its own address.
JobOK(t) ==
    /\ t.cmd \in {"invoke", "gen", "query", "transfer", "merge", "split", "refused", "nothing"}
    /\ {t.to, t.compliance, t.feeAddr, t.debug, t.self, t.named} \subseteq BOOLEAN
    /\ \A s \in {t.amount, t.fee} :
          /\ s \in [kind : {"empty", "bad", "num"}, val : Int]
          /\ s.kind # "num" => s.val = 0
    /\ t.num \in Int
    /\ t.first \in {"none", "acl", "status"}
    /\ t.compliance => t.cmd = "invoke"
    /\ t.self => t.cmd = "transfer"
    /\ t.cmd = "transfer" => t.to

ASSUME TxFlowAssumption ==
    /\ Gas \subseteq 0..(Int64Half - 1)
    /\ Genesis \in Seq(Nat \ {0})
    /\ \A t \in Jobs : JobOK(t)
    /\ "genesis" \notin Clients

VARIABLES
    job,       \* the command of each client
    pc,        \* where it is, or how it ended
    balance,   \* what GetBalance told a split
    made,      \* the transactions a client assembled
    utxo,      \* node: the payer's unspent outputs
    locked,    \* node: outputs locked by a selection
    lapsed,    \* outputs whose lock expired (history)
    accepted,  \* node: accepted transactions
    endorser   \* the endorser's handler of a client's EndorserCall

vars == <<job, pc, balance, made, utxo, locked, lapsed, accepted, endorser>>
nodeVars == <<utxo, locked, lapsed, accepted>>

Ended == {"ok", "failed", "rejected", "printed", "panicked"}

NoTx == [ins |-> {}, pay |-> 0, fee |-> 0, service |-> 0, back |-> <<>>]

Kinds == {"fee", "main"}

\* The payer's outputs a transaction creates: zero outputs are not kept.
Coin(src, kind, i, n) == [src |-> src, kind |-> kind, ix |-> i, amount |-> n]
Coins(src, kind, back) ==
    {Coin(src, kind, i, back[i]) : i \in {j \in DOMAIN back : back[j] > 0}}

SumOf(S) == MapThenSumSet(LAMBDA u : u.amount, S)
SumOfSeq(s) == FoldSeq(LAMBDA x, y : x + y, 0, s)

Init ==
    /\ job \in [Clients -> Jobs]
    /\ pc = [c \in Clients |-> IF job[c].first = "none" THEN "start" ELSE "lookup"]
    /\ balance = [c \in Clients |-> 0]
    /\ made = [c \in Clients |-> [k \in Kinds |-> NoTx]]
    /\ utxo = Coins("genesis", "main", Genesis)
    /\ locked = {}
    /\ lapsed = {}
    /\ accepted = {}
    /\ endorser = [c \in Clients |-> "idle"]

---------------------------------------------------------------------------
(* The node.                                                               *)

Balanced(tx) == SumOf(tx.ins) = tx.pay + tx.fee + tx.service + SumOfSeq(tx.back)

\* SubmitTx accepts a new, balanced transaction whose inputs are unspent.
Acceptable(c, k) ==
    /\ <<c, k>> \notin accepted
    /\ made[c][k].ins \subseteq utxo
    /\ Balanced(made[c][k])

SubmitTx(c, k) ==
    /\ Acceptable(c, k)
    /\ utxo' = (utxo \ made[c][k].ins) \cup Coins(c, k, made[c][k].back)
    /\ locked' = locked \ made[c][k].ins
    /\ accepted' = accepted \cup {<<c, k>>}
    /\ UNCHANGED lapsed

\* SelectUTXO collects outputs, in any order, until it has what is needed.
Selections(need, available) ==
    {S \in SUBSET available :
        /\ SumOf(S) >= need
        /\ S # {} => \E u \in S : SumOf(S \ {u}) < need}

LockExpires ==
    \E u \in locked :
        /\ locked' = locked \ {u}
        /\ lapsed' = lapsed \cup {u}
        /\ UNCHANGED <<job, pc, balance, made, utxo, accepted, endorser>>

---------------------------------------------------------------------------
(* Steps of a client.                                                      *)

Goto(c, from, to) == pc[c] = from /\ pc' = [pc EXCEPT ![c] = to]

Make(c, k, ins, outs) ==
    made' = [made EXCEPT ![c][k] = [ins |-> ins, pay |-> outs.pay, fee |-> outs.fee,
                                    service |-> outs.service, back |-> outs.back]]

\* A read-only call fails, or the node cannot select enough: the command ends.
CallFails(c) ==
    /\ pc[c] \in {"lookup", "start", "select", "preexec", "endorse"}
    /\ job[c].cmd \notin {"refused", "nothing"}
    /\ pc' = [pc EXCEPT ![c] = "failed"]
    /\ UNCHANGED <<job, balance, made, endorser, nodeVars>>

\* A flag or a file is wrong, or the consensus type is not known.
EndsAtOnce(c) ==
    /\ job[c].cmd \in {"refused", "nothing"}
    /\ Goto(c, "start", IF job[c].cmd = "refused" THEN "failed" ELSE "printed")
    /\ UNCHANGED <<job, balance, made, endorser, nodeVars>>

\* What a command asks before: the rights of an account (xpoaInvoke refuses an
\* account without them), the height of the chain (validateProposal refuses a
\* vote that would have ended, and dereferences the status of a chain that
\* could not be read).
Lookup(c) ==
    /\ \/ Goto(c, "lookup", "start")
       \/ Goto(c, "lookup", "failed")
       \/ job[c].first = "status" /\ Goto(c, "lookup", "panicked")
    /\ UNCHANGED <<job, balance, made, endorser, nodeVars>>

(* CommTrans.Transfer without compliance check, GenerateMultisigGenRawTx *)

\* account new ends with the name of the account, read from the desc file again,
\* a consensus invoke for a file of xpoa with the addresses that must sign it.
AtEnd(c, end) == IF job[c].named THEN end ELSE "failed"

\* GenPreExeRes, which dereferences the response also when the node could not
\* convert it, then GenTxOutputs
PreExec(c) ==
    /\ job[c].cmd \in {"invoke", "gen", "query"} /\ ~job[c].compliance
    /\ \/ \E gasUsed \in Gas :
             Goto(c, "start", IF job[c].cmd = "query" THEN "printed"
                              ELSE IF GenTxOutputsError(job[c], gasUsed) THEN "failed"
                              ELSE "select")
       \/ Goto(c, "start", "panicked")
    /\ UNCHANGED <<job, balance, made, endorser, nodeVars>>

\* GenTxInputs (NeedLock: false), then GenTxFile writes, DebugTx prints or
\* SendTx signs
GenTxInputs(c) ==
    LET need == TotalNeed(job[c])
    IN  /\ job[c].cmd \in {"invoke", "gen"}
        /\ \E S \in Selections(need, utxo) :
              /\ Make(c, "main", S, GenRawTx(job[c], SumOf(S)))
              /\ Goto(c, "select", IF job[c].debug \/ job[c].cmd = "gen"
                                   THEN AtEnd(c, "printed") ELSE "post")
        /\ UNCHANGED <<job, balance, endorser, nodeVars>>

(* CommTrans.Transfer with compliance check *)

\* The response has no UtxoOutput: GenerateTxInput dereferences nil.
NothingSelected(c, gasUsed) ==
    /\ TotalAmount(job[c], gasUsed) < 1
    /\ Goto(c, "start", "panicked")
    /\ UNCHANGED made

\* GenComplianceCheckTx, then GenRealTx on its change
GenBothTx(c, S) ==
    LET t == job[c]
        feeTx == GenComplianceCheckTx(t, SumOf(S))
        change == Coins(c, "fee", feeTx.back)
        realTx == GenRealTx(t, SumOf(change))
    IN  made' = [made EXCEPT ![c] =
                   [fee |-> [ins |-> S, pay |-> feeTx.pay, fee |-> feeTx.fee,
                             service |-> feeTx.service, back |-> feeTx.back],
                    main |-> [ins |-> change, pay |-> realTx.pay, fee |-> realTx.fee,
                              service |-> realTx.service, back |-> realTx.back]]]

\* preExecWithSelectUTXOReq, RpcServ.PreExecWithSelectUTXO (no lock) and the
\* local part of GenCompleteTxAndPost
PreExecWithSelectUTXO(c) ==
    LET t == job[c]
    IN  /\ t.cmd = "invoke" /\ t.compliance
        /\ IF ReqError(t)
           THEN Goto(c, "start", "failed") /\ UNCHANGED made
           ELSE \E gasUsed \in Gas :
                  IF FeeRefused(t, gasUsed)
                  THEN Goto(c, "start", "failed") /\ UNCHANGED made
                  ELSE \/ NothingSelected(c, gasUsed)
                       \/ /\ TotalAmount(t, gasUsed) >= 1
                          /\ \E S \in Selections(TotalAmount(t, gasUsed), utxo) :
                               IF GenRealTxError(t)
                               THEN Goto(c, "start", "failed") /\ UNCHANGED made
                               ELSE Goto(c, "start", "endorse") /\ GenBothTx(c, S)
        /\ UNCHANGED <<job, balance, endorser, nodeVars>>

\* ComplianceCheck sends the two transactions and waits for 15 seconds.
ComplianceCheck(c) ==
    /\ Goto(c, "endorse", "waiting")
    /\ endorser' = [endorser EXCEPT ![c] = "called"]
    /\ UNCHANGED <<job, balance, made, nodeVars>>

\* Mutant: the error of EndorserCall is not looked at.
EndorserReplyUnchecked(c) ==
    /\ endorser[c] \in {"signed", "refused"}
    /\ Goto(c, "waiting", "post")
    /\ UNCHANGED <<job, balance, made, endorser, nodeVars>>

EndorserReply(c) ==
    /\ endorser[c] \in {"signed", "refused"}
    /\ Goto(c, "waiting", IF endorser[c] = "signed" THEN "post" ELSE "failed")
    /\ UNCHANGED <<job, balance, made, endorser, nodeVars>>

\* Mutant: the call has no timeout.
EndorserTimeoutNever(c) == FALSE /\ UNCHANGED vars

\* The handler is not stopped by the client's timeout.
EndorserTimeout(c) ==
    /\ Goto(c, "waiting", "failed")
    /\ UNCHANGED <<job, balance, made, endorser, nodeVars>>

(* DefaultXEndorser.EndorserCall, case "ComplianceCheck" *)

\* Mutant: a refused fee transaction does not stop the handler.
ProcessFeeUnchecked(c) ==
    /\ endorser[c] = "called"
    /\ SubmitTx(c, "fee") \/ (~Acceptable(c, "fee") /\ UNCHANGED nodeVars)
    /\ endorser' = [endorser EXCEPT ![c] = "paid"]
    /\ UNCHANGED <<job, pc, balance, made>>

ProcessFee(c) ==
    /\ endorser[c] = "called"
    /\ \/ SubmitTx(c, "fee") /\ endorser' = [endorser EXCEPT ![c] = "paid"]
       \/ /\ ~Acceptable(c, "fee")
          /\ endorser' = [endorser EXCEPT ![c] = "refused"]
          /\ UNCHANGED nodeVars
    /\ UNCHANGED <<job, pc, balance, made>>

\* The endorser's key files may be missing or wrong.
GenerateTxSign(c) ==
    /\ endorser[c] = "paid"
    /\ \E r \in {"signed", "refused"} : endorser' = [endorser EXCEPT ![c] = r]
    /\ UNCHANGED <<job, pc, balance, made, nodeVars>>

(* Cli.Transfer, MergeUtxoCommand, SplitUtxoCommand *)

\* A vote pays its own address (its frozen height is 0 here).
TransferOutputs(t, selected) ==
    LET outs == GenRawTx(t, selected)
    IN  IF t.self THEN [outs EXCEPT !.pay = 0, !.back = Append(@, outs.pay)] ELSE outs

\* Mutant: NeedLock is false.
AssembleTransferUnlocked(c) ==
    LET t == job[c]
    IN  /\ t.cmd = "transfer" /\ ~AssembleError(t)
        /\ \E S \in Selections(TotalNeed(t), utxo) :
              Goto(c, "start", "preexec") /\ Make(c, "main", S, TransferOutputs(t, SumOf(S)))
        /\ UNCHANGED <<job, balance, endorser, nodeVars>>

\* assembleTxSupportAccount up to SelectUTXO (NeedLock: true)
AssembleTransfer(c) ==
    LET t == job[c]
    IN  /\ t.cmd = "transfer"
        /\ \/ /\ AssembleError(t)
              /\ Goto(c, "start", "failed")
              /\ UNCHANGED <<made, locked>>
           \/ /\ ~AssembleError(t)
              /\ \E S \in Selections(TotalNeed(t), utxo \ locked) :
                    /\ locked' = locked \cup S
                    /\ \/ /\ Goto(c, "start", "preexec")
                          /\ Make(c, "main", S, TransferOutputs(t, SumOf(S)))
                       \/ Goto(c, "start", "failed") /\ UNCHANGED made   \* reply lost
        /\ UNCHANGED <<job, balance, utxo, lapsed, accepted, endorser>>

\* GenTxInputsWithMergeUTXO: SelectUTXOBySize takes what fits a transaction.
SelectMerge(c) ==
    /\ job[c].cmd = "merge"
    /\ \/ /\ \E S \in (SUBSET (utxo \ locked)) \ {{}} :
                /\ locked' = locked \cup S
                /\ \/ Goto(c, "start", "preexec") /\ Make(c, "main", S, MergeTx(SumOf(S)))
                   \/ Goto(c, "start", "failed") /\ UNCHANGED made   \* reply lost
       \/ /\ utxo \subseteq locked          \* "not enough available utxo to merge"
          /\ Goto(c, "start", "failed")
          /\ UNCHANGED <<made, locked>>
    /\ UNCHANGED <<job, balance, utxo, lapsed, accepted, endorser>>

GetBalance(c) ==
    /\ job[c].cmd = "split"
    /\ Goto(c, "start", IF job[c].num <= 0 THEN "failed" ELSE "select")
    /\ balance' = [balance EXCEPT ![c] = IF job[c].num <= 0 THEN @ ELSE SumOf(utxo)]
    /\ UNCHANGED <<job, made, endorser, nodeVars>>

\* GenTxInputs(totalNeed = the balance), then genSplitOutputs and, with --raw,
\* GenAuthRequire
SelectSplit(c) ==
    LET num == job[c].num
    IN  /\ job[c].cmd = "split"
        /\ \E S \in Selections(balance[c], utxo) :
              IF num > balance[c] \/ ~job[c].named
              THEN Goto(c, "select", "failed") /\ UNCHANGED made
              ELSE /\ Goto(c, "select", "preexec")
                   /\ Make(c, "main", S, SplitTx(SumOf(S), balance[c], num))
        /\ UNCHANGED <<job, balance, endorser, nodeVars>>

\* PreExec without requests; then the transaction is printed (transfer
\* --debug), written to a file (split --raw) or signed and posted.
PreExecEmpty(c) ==
    /\ Goto(c, "preexec", IF job[c].debug THEN "printed" ELSE "post")
    /\ UNCHANGED <<job, balance, made, endorser, nodeVars>>

(* postTx *)

PostTx(c) ==
    /\ \/ SubmitTx(c, "main") /\ Goto(c, "post", AtEnd(c, "ok"))
       \/ ~Acceptable(c, "main") /\ Goto(c, "post", "rejected") /\ UNCHANGED nodeVars
    /\ UNCHANGED <<job, balance, made, endorser>>

\* Mutant: the error of PostTx is not looked at.
PostTxBrokenUnchecked(c) ==
    /\ Goto(c, "post", "ok")
    /\ SubmitTx(c, "main") \/ UNCHANGED nodeVars
    /\ UNCHANGED <<job, balance, made, endorser>>

\* The call breaks off: the node may have served it.
PostTxBroken(c) ==
    /\ Goto(c, "post", "failed")
    /\ \/ SubmitTx(c, "main")
       \/ UNCHANGED nodeVars
    /\ UNCHANGED <<job, balance, made, endorser>>

ClientStep(c) ==
    \/ EndsAtOnce(c) \/ Lookup(c) \/ CallFails(c)
    \/ PreExec(c) \/ GenTxInputs(c)
    \/ PreExecWithSelectUTXO(c) \/ ComplianceCheck(c) \/ EndorserReply(c) \/ EndorserTimeout(c)
    \/ AssembleTransfer(c) \/ SelectMerge(c) \/ GetBalance(c) \/ SelectSplit(c) \/ PreExecEmpty(c)
    \/ PostTx(c) \/ PostTxBroken(c)

EndorserStep(c) == ProcessFee(c) \/ GenerateTxSign(c)

Next ==
    \/ \E c \in Clients : ClientStep(c) \/ EndorserStep(c)
    \/ LockExpires

Spec == Init /\ [][Next]_vars

\* A client process runs on and its calls to the node return, with a reply or an
\* error: most are made without a deadline (context.TODO), so that a node that
\* never answers hangs the command.  Nothing is assumed of the endorser, whose
\* call has its timeout, or of locks.
FairSpec == Spec /\ \A c \in Clients : WF_vars(ClientStep(c))

---------------------------------------------------------------------------
(* Properties.                                                             *)

\* Types: who is where, with which transactions, and what the node keeps.
TypeOK ==
    /\ job \in [Clients -> Jobs]
    /\ pc \in [Clients -> {"lookup", "start", "select", "preexec", "endorse", "waiting", "post"} \cup Ended]
    /\ balance \in [Clients -> Nat]
    /\ \A c \in Clients, k \in Kinds :
          /\ {made[c][k].pay, made[c][k].fee, made[c][k].service} \subseteq Nat
          /\ made[c][k].back \in Seq(Nat)
    /\ locked \subseteq utxo
    /\ accepted \subseteq Clients \X Kinds
    /\ endorser \in [Clients -> {"idle", "called", "paid", "signed", "refused"}]

\* The amounts of a command make sense to the compliance path: the fee
\* address is configured, the amount is not negative, and the int64 sums of
\* preExecWithSelectUTXOReq and PreExecWithSelectUTXO do not overflow.
Sound(t) ==
    t.compliance =>
        /\ t.feeAddr
        /\ t.amount.val >= 0
        /\ \A g \in Gas : ServiceFee + t.fee.val + t.amount.val + g < Int64Half

\* What the payer has paid to others in the accepted transactions of a client.
Charge(c) ==
    LET Paid(k) == IF <<c, k>> \in accepted
                   THEN made[c][k].pay + made[c][k].fee + made[c][k].service ELSE 0
    IN  Paid("fee") + Paid("main")

Price(t) ==
    CASE t.cmd \in {"merge", "split"} -> 0
      [] t.self -> Fee(t)
      [] t.compliance -> ServiceFee + t.fee.val + t.amount.val
      [] OTHER -> Pay(t) + Fee(t)

\* A command that reports success has cost exactly amount, fee and service fee;
\* one that did not has cost nothing, the service fee alone (paid before the
\* real transaction: EndorserCall, then postTx), or, when only the reply of
\* PostTx was lost, the whole price.
ChargedExactly ==
    \A c \in Clients :
        /\ pc[c] = "ok" => Charge(c) = Price(job[c])
        /\ Charge(c) \in {0, Price(job[c])} \cup (IF job[c].compliance THEN {ServiceFee} ELSE {})

\* The endorser signs only after the fee transaction is on chain (processFee
\* precedes generateTxSign), and a command under compliance check posts its
\* transaction only with that signature.
SignedOnlyIfPaid ==
    \A c \in Clients :
        /\ endorser[c] = "signed" => <<c, "fee">> \in accepted
        /\ pc[c] \in {"post", "ok"} /\ job[c].compliance => endorser[c] = "signed"

SpentBy(u, d) == \E k \in Kinds : <<d, k>> \in accepted /\ u \in made[d][k].ins

\* The node refuses a well-formed command's transaction only because another
\* client spent one of its inputs in between: never for its own amounts, for an
\* input that does not exist yet (the change of its fee transaction) or for an
\* input the client spent itself.
RejectedOnlyByConflict ==
    [][\A c \in Clients :
         pc[c] = "post" /\ pc'[c] = "rejected" /\ Sound(job[c]) =>
            \E u \in made[c]["main"].ins, d \in Clients \ {c} : SpentBy(u, d)]_vars

\* NeedLock (transfer, merge) protects: such a command loses an input only to a
\* command that selects without lock, or after its lock expired.
LockProtects ==
    [][\A c \in Clients :
         pc[c] = "post" /\ pc'[c] = "rejected" /\ job[c].cmd \in {"transfer", "merge"} =>
            \E u \in made[c]["main"].ins :
               \/ u \in lapsed
               \/ \E d \in Clients : SpentBy(u, d) /\ job[d].cmd \in {"invoke", "split"}]_vars

\* Where the node answers, every command ends, also when the endorser never does
\* (the 15 s timeout of ComplianceCheck).
CommandsEnd == \A c \in Clients : <>(pc[c] \in Ended)

\* DebugTx: "if enabled, tx will be printed instead of being posted"
\* (comm_trans.go), whatever the client's configuration says of compliance.
DebugNotPosted ==
    \A c \in Clients : job[c].debug => <<c, "main">> \notin accepted

=============================================================================
