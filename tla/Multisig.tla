------------------------------- MODULE Multisig -------------------------------
(***************************************************************************)
(* The multisig commands of the client (cmd/client/cmd/multisig_*.go):     *)
(* gen writes a raw transaction into a file, every party signs the file as *)
(* it finds it, get buys the endorser's signature, and send collects the   *)
(* signature files and posts the transaction.  Parties run the commands in *)
(* any order, more than once, and at the same time.  check only prints.    *)
(*                                                                         *)
(* A transaction is known by the number of the gen command that made it    *)
(* and the output it spends; amounts are the subject of TxFlow.            *)
(*                                                                         *)
(* External: the endorser, the node's check of a transaction, and other    *)
(* commands that spend the same outputs.                                   *)
(***************************************************************************)
EXTENDS Naturals, Sequences

CONSTANTS Signers,    \* parties with a key
          Initiator,  \* the one whose outputs are spent
          Endorser,   \* the address of the endorser
          Auth,       \* AuthRequire: the addresses in the file of gen, in order
          Files,      \* names of signature files
          Output,     \* the files each of them may write its signature to
          SendArgs,   \* the arguments of send: [init, auth : sequences of files]
          PubKeys,    \* number of public keys in the file of gen --signtype multi
          Coins,      \* outputs of the initiator
          MaxGen      \* bound on gen commands

None == "none"

ASSUME MultisigAssumption ==
    /\ Initiator \in Signers /\ Endorser \notin Signers
    /\ Auth \in Seq(Signers \cup {Endorser})
    /\ Output \in [Signers \cup {Endorser} -> SUBSET Files]
    /\ SendArgs \subseteq [init : Seq(Files), auth : Seq(Files)]
    /\ None \notin Coins
    /\ PubKeys \in Nat /\ MaxGen \in Nat

Versions == 1..MaxGen
Blank == MaxGen + 1        \* an empty tx.out, which decodes as a transaction with no field
Sig(by, over) == [by |-> by, over |-> over]
EmptySig == Sig(None, 0)   \* the JSON null of a nil signature
NoSig == Sig(None, 1)      \* no such file, or an empty one, which is no JSON

VARIABLES
    txFile,       \* the transaction in tx.out, 0 if there is none
    extFile,      \* tx.out.ext, with the multisig data, is there
    coin,         \* the output each transaction spends
    signFile,     \* the signature files
    unspent,      \* outputs not spent yet
    gen,          \* the gen command: pc, number of the last one
    get,          \* the get command: pc, transaction, output for the fee, reply
    send          \* the send command, see SendLoad

vars == <<txFile, extFile, coin, signFile, unspent, gen, get, send>>

IdleGet == [pc |-> "idle", ver |-> 0, fee |-> None, reply |-> "error"]
IdleSend == [pc |-> "idle", ver |-> 0, args |-> [init |-> <<>>, auth |-> <<>>],
             init |-> <<>>, auth |-> <<>>, ready |-> FALSE]

Init ==
    /\ txFile = 0
    /\ extFile = FALSE
    /\ coin = [v \in Versions \cup {Blank} |-> None]
    /\ signFile = [f \in Files |-> NoSig]
    /\ unspent = Coins
    /\ gen = [pc |-> "idle", n |-> 0]
    /\ get = IdleGet
    /\ send = IdleSend

\* A file that send reads is written: what it was started with is no longer so.
Disturb == send' = [send EXCEPT !.ready = FALSE]

---------------------------------------------------------------------------
(* gen                                                                     *)

\* without a sign type, or with "multi": at least two public keys and tx.out.ext;
\* any other type is refused
GenBegin(type) ==
    /\ gen.pc = "idle" /\ gen.n < MaxGen
    /\ type = "multi" => PubKeys >= 2
    /\ gen' = [pc |-> "gen", n |-> gen.n + 1]
    /\ extFile' = (extFile \/ type = "multi")
    /\ UNCHANGED <<txFile, coin, signFile, unspent, get, send>>

\* GenerateMultisigGenRawTx: an unlocked selection, the required addresses, and the
\* file, which os.WriteFile empties
GenTx ==
    /\ gen.pc = "gen"
    /\ \E c \in unspent : coin' = [coin EXCEPT ![gen.n] = c]
    /\ txFile' = Blank
    /\ gen' = [gen EXCEPT !.pc = "write"]
    /\ Disturb
    /\ UNCHANGED <<extFile, signFile, unspent, get>>

\* and then writes
GenTxFile ==
    /\ gen.pc = "write"
    /\ txFile' = gen.n
    /\ gen' = [gen EXCEPT !.pc = "idle"]
    /\ Disturb
    /\ UNCHANGED <<extFile, coin, signFile, unspent, get>>

\* an error on the way leaves the file of an earlier gen, or an empty one
GenFails ==
    /\ gen.pc \in {"gen", "write"}
    /\ gen' = [gen EXCEPT !.pc = "idle"]
    /\ UNCHANGED <<txFile, extFile, coin, signFile, unspent, get, send>>

---------------------------------------------------------------------------
(* sign                                                                    *)

\* signDefault: a signature over the transaction in the file now; a sign type is
\* refused, "multi" too: signMulti is never reached.  A command that is killed may
\* leave its file empty.
Sign(s, f) ==
    /\ txFile # 0
    /\ \E sig \in {Sig(s, txFile), NoSig} : signFile' = [signFile EXCEPT ![f] = sig]
    /\ Disturb
    /\ UNCHANGED <<txFile, extFile, coin, unspent, gen, get>>

---------------------------------------------------------------------------
(* get                                                                     *)

\* reads the transaction and selects, unlocked, an output for the fee
GetSelect ==
    /\ get.pc = "idle" /\ txFile # 0
    /\ \E c \in unspent : get' = [pc |-> "call", ver |-> txFile, fee |-> c, reply |-> "error"]
    /\ UNCHANGED <<txFile, extFile, coin, signFile, unspent, gen, send>>

\* the endorser posts the fee transaction and then signs; each may fail.  "nil" is
\* a reply that says SUCCESS and has no signature.
GetCall ==
    /\ get.pc = "call"
    /\ \E posted \in BOOLEAN, reply \in {"sign", "nil", "error"} :
          /\ posted => get.fee \in unspent
          /\ reply = "sign" => posted
          /\ unspent' = IF posted THEN unspent \ {get.fee} ELSE unspent
          /\ get' = [get EXCEPT !.pc = "reply", !.reply = reply]
    /\ UNCHANGED <<txFile, extFile, coin, signFile, gen, send>>

\* what the reply has is written to a file, which is empty before (and after, if
\* get is killed); with an error nothing is written
GetReply(f) ==
    /\ get.pc = "reply"
    /\ \/ get.reply = "error" /\ UNCHANGED <<signFile, send>>
       \/ /\ get.reply # "error"
          /\ \E sig \in {IF get.reply = "sign" THEN Sig(Endorser, get.ver) ELSE EmptySig, NoSig} :
                signFile' = [signFile EXCEPT ![f] = sig]
          /\ Disturb
    /\ get' = IdleGet
    /\ UNCHANGED <<txFile, extFile, coin, unspent, gen>>

---------------------------------------------------------------------------
(* send                                                                    *)

\* The files are what the transaction needs, in the order it needs them.
Ready(args) ==
    /\ txFile \in Versions
    /\ Len(args.init) = 1 /\ signFile[args.init[1]] = Sig(Initiator, txFile)
    /\ Len(args.auth) = Len(Auth)
    /\ \A i \in DOMAIN Auth : signFile[args.auth[i]] = Sig(Auth[i], txFile)

\* loadTx
SendLoad(args) ==
    /\ send.pc = "idle" /\ txFile # 0
    /\ send' = [IdleSend EXCEPT !.pc = "init", !.ver = txFile, !.args = args,
                                !.ready = Ready(args)]
    /\ UNCHANGED <<txFile, extFile, coin, signFile, unspent, gen, get>>

\* the files in the order of the argument, all of them there
Readable(path) == \A i \in DOMAIN path : signFile[path[i]] # NoSig
getSigns(path) == [i \in DOMAIN path |-> signFile[path[i]]]

SendFails(path) == ~Readable(path) /\ send' = IdleSend

SendInit ==
    /\ send.pc = "init"
    /\ \/ SendFails(send.args.init)
       \/ /\ Readable(send.args.init)
          /\ send' = [send EXCEPT !.pc = "auth", !.init = getSigns(send.args.init)]
    /\ UNCHANGED <<txFile, extFile, coin, signFile, unspent, gen, get>>

\* Mutant: the files of the first argument are used again.
SendAuthReusesInit ==
    /\ send.pc = "auth"
    /\ \/ SendFails(send.args.auth)
       \/ /\ Readable(send.args.auth)
          /\ send' = [send EXCEPT !.pc = "post", !.auth = send.init]
    /\ UNCHANGED <<txFile, extFile, coin, signFile, unspent, gen, get>>

SendAuth ==
    /\ send.pc = "auth"
    /\ \/ SendFails(send.args.auth)
       \/ /\ Readable(send.args.auth)
          /\ send' = [send EXCEPT !.pc = "post", !.auth = getSigns(send.args.auth)]
    /\ UNCHANGED <<txFile, extFile, coin, signFile, unspent, gen, get>>

\* the node's check: the initiator, every required address at its place, the
\* content they signed, and the output
Accepts ==
    /\ send.init = <<Sig(Initiator, send.ver)>>
    /\ send.auth = [i \in DOMAIN Auth |-> Sig(Auth[i], send.ver)]
    /\ coin[send.ver] \in unspent

\* MakeTxId and sendTx
SendTx ==
    /\ send.pc = "post"
    /\ \/ /\ Accepts
          /\ unspent' = unspent \ {coin[send.ver]}
          /\ send' = IdleSend
       \/ /\ ~Accepts
          /\ send' = [IdleSend EXCEPT !.pc = "refused", !.ver = send.ver, !.ready = send.ready]
          /\ UNCHANGED unspent
    /\ UNCHANGED <<txFile, extFile, coin, signFile, gen, get>>

SendEnds ==
    /\ send.pc = "refused"
    /\ send' = IdleSend
    /\ UNCHANGED <<txFile, extFile, coin, signFile, unspent, gen, get>>

\* send --signtype multi needs tx.out.ext and a file for each of its keys, which
\* are at least two.  sign writes no partial signature; what it does write parses
\* as one with Index 0 and no Si, and the sum is no signature the node accepts.
sendXuper(args) ==
    /\ send.pc = "idle" /\ txFile # 0 /\ extFile
    /\ PubKeys > 1 /\ Len(args.init) = PubKeys
    /\ Readable(args.init)
    /\ send' = [IdleSend EXCEPT !.pc = "refused", !.ver = txFile]
    /\ UNCHANGED <<txFile, extFile, coin, signFile, unspent, gen, get>>

---------------------------------------------------------------------------
\* another command of the initiator
OtherSpend(c) ==
    /\ c \in unspent
    /\ unspent' = unspent \ {c}
    /\ UNCHANGED <<txFile, extFile, coin, signFile, gen, get, send>>

Next ==
    \/ \E type \in {"", "multi"} : GenBegin(type)
    \/ GenTx \/ GenTxFile \/ GenFails
    \/ \E s \in Signers : \E f \in Output[s] : Sign(s, f)
    \/ GetSelect \/ GetCall
    \/ \E f \in Output[Endorser] : GetReply(f)
    \/ \E args \in SendArgs : SendLoad(args)
    \/ SendInit \/ SendAuth \/ SendTx \/ SendEnds
    \/ \E args \in SendArgs : sendXuper(args)
    \/ \E c \in Coins : OtherSpend(c)

Spec == Init /\ [][Next]_vars

---------------------------------------------------------------------------
(* Properties.                                                             *)

\* A send that was started with the signature of every party, each over the
\* transaction in the file and in the order of AuthRequire, with no file written
\* meanwhile, is refused only because the output was spent: by another command,
\* or by the fee of the endorser's signature, whose selection is not locked
\* either (multisig send; gen, which leaves the file alone when it fails; get).
RefusedForCause ==
    send.pc = "refused" /\ send.ready => coin[send.ver] \notin unspent

=============================================================================
