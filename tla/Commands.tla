------------------------------- MODULE Commands -------------------------------
(***************************************************************************)
(* The commands of xchain-cli that make a transaction, from the command    *)
(* line to the job a client of TxFlow runs.  A command line l is a record: *)
(*   amount, fee   the flags' strings                                      *)
(*   account       an account name is given                                *)
(*   multi, debug  --isMulti (--raw of a split), --debug                   *)
(*   method        "read" (getTdposInfos, getValidates) or "write"         *)
(*   bucket        the consensus type                                      *)
(*   id            a proposal id is given                                  *)
(*   num           the outputs of a split                                  *)
(*   has           what can be read and parsed: "keys" (the files of the   *)
(*                 --keys directory, as one), "args", "code", "abi",       *)
(*                 "desc", "addrs", "path" (where the keys of an account   *)
(*                 are)                                                    *)
(*   conf          the client's configuration file: "none", "bad", or what *)
(*                 it says of compliance: "on", "noaddr" (on, but without  *)
(*                 the fee's address)                                      *)
(* What a command refuses before it has called the node is one job; the    *)
(* calls it makes before its pre-execution are the job's "first"; a job    *)
(* that is not "named" misses a file it reads after other calls.           *)
(***************************************************************************)
EXTENDS TxAssembly

Idle(cmd) ==
    [cmd |-> cmd, to |-> FALSE, amount |-> Empty, fee |-> Empty, compliance |-> FALSE,
     feeAddr |-> FALSE, debug |-> FALSE, self |-> FALSE, named |-> TRUE, num |-> 0,
     first |-> "none"]

\* A command that ends before its first call, with an error or without.
Refused == Idle("refused")
Nothing == Idle("nothing")

Needs(l, files, t) == IF files \subseteq l.has THEN t ELSE Refused

\* RootOptions.LoadConfig over setDefaultConf: no file means no check, and the
\* defaults hold no fee address.
LoadConfigError(l) == l.conf = "bad"
IsNeedComplianceCheck(l) == l.conf \in {"on", "noaddr"}
FeeAddr(l) == l.conf = "on"

\* Commands that build a CommTrans; rootOptions says that they fill in its
\* RootOptions, without which Transfer sees no compliance check.
CommTrans(l, rootOptions) ==
    [Idle("invoke") EXCEPT !.to = TRUE, !.amount = Num(0), !.fee = l.fee,
        !.compliance = rootOptions /\ IsNeedComplianceCheck(l),
        !.feeAddr = rootOptions /\ FeeAddr(l)]

\* if c.isMulti: GenerateMultisigGenRawTx, which never checks compliance; with
\* IsQuick, GenPreExeRes has read the addresses before its call.
Multi(t) == [t EXCEPT !.cmd = "gen", !.compliance = FALSE, !.feeAddr = FALSE, !.debug = FALSE]
MultiOr(l, t) == IF l.multi THEN Needs(l, {"addrs"}, Multi(t)) ELSE t

ContractInvoke(l) ==
    LET t == [CommTrans(l, TRUE) EXCEPT !.to = l.amount # Empty, !.amount = l.amount,
                                        !.debug = l.debug]
    IN  Needs(l, {"keys", "args"}, MultiOr(l, t))

ContractDeploy(l) ==
    Needs(l, {"keys", "args", "code"} \cup (IF l.bucket = "evm" THEN {"abi"} ELSE {}),
          MultiOr(l, CommTrans(l, TRUE)))

ContractUpgrade(l) == Needs(l, {"keys", "code"}, MultiOr(l, CommTrans(l, TRUE)))

\* GenPreExeRes alone, for the initiator and for who else must sign
Query(l) ==
    Needs(l, (IF l.account /\ l.multi THEN {} ELSE {"keys"}) \cup (IF l.multi THEN {"addrs"} ELSE {}),
          [CommTrans(l, FALSE) EXCEPT !.cmd = "query"])

TdposInvoke(l) ==
    IF l.method = "read" THEN Query(l)
    ELSE Needs(l, {"desc", "args", "keys"}, MultiOr(l, CommTrans(l, FALSE)))

\* QueryACL first, then the files and always a file for the multisig commands;
\* without --isMulti the addresses are read after the transaction is made.
XpoaInvoke(l) ==
    IF l.method = "read" THEN Query(l)
    ELSE IF ~l.account THEN Refused
    ELSE IF {"desc", "args", "keys"} \cup (IF l.multi THEN {"addrs"} ELSE {}) \subseteq l.has
         THEN [Multi(CommTrans(l, FALSE)) EXCEPT !.first = "acl", !.named = "addrs" \in l.has]
         ELSE [Refused EXCEPT !.first = "acl"]

ConsensusInvoke(l) ==
    CASE l.bucket \in {"tdpos", "xpos"} -> TdposInvoke(l)
      [] l.bucket \in {"poa", "xpoa"} -> XpoaInvoke(l)
      [] OTHER -> Nothing

\* validateProposal parses the file, then asks for the height of the chain
ProposalPropose(l) ==
    Needs(l, {"keys", "desc"}, [CommTrans(l, TRUE) EXCEPT !.first = "status"])

ProposalVote(l) ==
    IF ~l.id \/ l.amount = Empty THEN Refused ELSE Needs(l, {"keys"}, CommTrans(l, FALSE))

ProposalThaw(l) == IF ~l.id THEN Refused ELSE Needs(l, {"keys"}, CommTrans(l, TRUE))

GovernTokenInit(l) == Needs(l, {"keys"}, CommTrans(l, FALSE))

\* Without --to the contract is not called and the empty transfer is made.
GovernTokenTransfer(l) == Needs(l, {"keys"}, CommTrans(l, TRUE))

\* Without --account the call comes from the desc file, or there is none when
\* the file is not JSON ("args"): printRealAccountName then fails at the end.
AccountNew(l) ==
    LET t == [CommTrans(l, TRUE) EXCEPT !.debug = l.debug,
                                        !.named = l.account \/ "args" \in l.has]
    IN  Needs(l, {"keys"} \cup (IF l.account THEN {} ELSE {"desc"}), t)

\* Cli.Transfer for the two commands that use it
Transfer(l) ==
    Needs(l, {"keys", "desc"},
          [Idle("transfer") EXCEPT !.to = TRUE, !.amount = l.amount, !.fee = l.fee, !.debug = l.debug])

\* to the voter itself, without a fee
Vote(l) ==
    Needs(l, {"keys"}, [Idle("transfer") EXCEPT !.to = TRUE, !.amount = l.amount, !.self = TRUE])

\* An account, unlike an address, needs the path of its keys.
AccountPath(l) == IF l.account THEN {"path"} ELSE {}

\* The error of readAddress is dropped: without the keys it is signLockUtxo that
\* fails, before the first call too.  (Keys without an address: see KeyFiles.)
MergeUtxo(l) == Needs(l, {"keys"} \cup AccountPath(l), Idle("merge"))

\* --raw reads the addresses once the outputs are selected.
SplitUtxo(l) ==
    Needs(l, {"keys"} \cup AccountPath(l),
          [Idle("split") EXCEPT !.num = l.num, !.debug = l.multi,
                                !.named = l.multi => "addrs" \in l.has])

CommandJob(l) ==
    IF LoadConfigError(l) THEN Refused     \* initFlags: os.Exit(-1)
    ELSE
      CASE l.name = "contract invoke" -> ContractInvoke(l)
        [] l.name = "contract deploy" -> ContractDeploy(l)
        [] l.name = "contract upgrade" -> ContractUpgrade(l)
        [] l.name = "consensus invoke" -> ConsensusInvoke(l)
        [] l.name = "proposal propose" -> ProposalPropose(l)
        [] l.name = "proposal vote" -> ProposalVote(l)
        [] l.name = "proposal thaw" -> ProposalThaw(l)
        [] l.name = "govern init" -> GovernTokenInit(l)
        [] l.name = "govern transfer" -> GovernTokenTransfer(l)
        [] l.name = "account new" -> AccountNew(l)
        [] l.name = "transfer" -> Transfer(l)
        [] l.name = "vote" -> Vote(l)
        [] l.name = "utxo merge" -> MergeUtxo(l)
        [] l.name = "utxo split" -> SplitUtxo(l)

=============================================================================
