---------------------------- MODULE MultisigProofs ----------------------------
(***************************************************************************)
(* Proof of RefusedForCause for any parties, files, arguments, outputs and *)
(* number of gen commands.                                                 *)
(***************************************************************************)
EXTENDS Multisig, TLAPS

\* What a signature file or a collected signature may be.
AnySig == [by : Signers \cup {Endorser, None}, over : Nat]
AnyArgs == [init : Seq(Files), auth : Seq(Files)]

GenType == [pc : {"idle", "gen", "write"}, n : Nat]
GetType == [pc : {"idle", "call", "reply"}, ver : Nat, fee : Coins \cup {None},
            reply : {"sign", "nil", "error"}]
SendType == [pc : {"idle", "init", "auth", "post", "refused"}, ver : Nat, args : AnyArgs,
             init : Seq(AnySig), auth : Seq(AnySig), ready : BOOLEAN]

\* The types that the proof needs.
Typed ==
    /\ txFile \in Nat
    /\ signFile \in [Files -> AnySig]
    /\ unspent \subseteq Coins
    /\ gen \in GenType
    /\ get \in GetType
    /\ send \in SendType

InitSigns(v) == <<Sig(Initiator, v)>>
AuthSigns(v) == [i \in DOMAIN Auth |-> Sig(Auth[i], v)]

(* While nothing disturbs it, send works on the transaction in the file,   *)
(* the files named are still right, and what it has collected is right.    *)
Undisturbed ==
    send.ready =>
        /\ send.ver = txFile
        /\ send.pc # "refused" => Ready(send.args)
        /\ send.pc \in {"auth", "post"} => send.init = InitSigns(txFile)
        /\ send.pc = "post" => send.auth = AuthSigns(txFile)
        /\ send.pc = "refused" => coin[send.ver] \notin unspent

\* The inductive invariant.
IInv == Typed /\ Undisturbed

-----------------------------------------------------------------------------

\* What getSigns collects is a sequence of signatures.
LEMMA SignsTyped ==
    ASSUME Typed, NEW path \in Seq(Files)
    PROVE  getSigns(path) \in Seq(AnySig)
<1>1. DOMAIN path = 1..Len(path) /\ Len(path) \in Nat
  OBVIOUS
<1>2. \A i \in DOMAIN path : signFile[path[i]] \in AnySig
  BY DEF Typed
<1>3. QED
  BY <1>1, <1>2 DEF getSigns

\* With the right files, getSigns collects the right signatures, in order.
LEMMA SignsRight ==
    ASSUME Typed, NEW args \in AnyArgs, Ready(args)
    PROVE  /\ getSigns(args.init) = InitSigns(txFile)
           /\ getSigns(args.auth) = AuthSigns(txFile)
<1>1. args.init \in Seq(Files) /\ args.auth \in Seq(Files)
  BY DEF AnyArgs
<1>2. DOMAIN args.init = 1..1 /\ signFile[args.init[1]] = Sig(Initiator, txFile)
  BY <1>1 DEF Ready
<1>3. getSigns(args.init) = InitSigns(txFile)
  BY <1>2 DEF getSigns, InitSigns
<1>4. Auth \in Seq(Signers \cup {Endorser})
  BY MultisigAssumption
<1>5. DOMAIN args.auth = DOMAIN Auth
  BY <1>1, <1>4 DEF Ready
<1>6. getSigns(args.auth) = AuthSigns(txFile)
  BY <1>5 DEF getSigns, AuthSigns, Ready
<1>7. QED
  BY <1>3, <1>6

\* The idle command is well formed.
LEMMA IdleTyped ==
    /\ IdleSend \in SendType
    /\ IdleSend.ready = FALSE
<1>1. /\ <<>> \in Seq(Files) /\ <<>> \in Seq(AnySig)
  OBVIOUS
<1>2. [init |-> <<>>, auth |-> <<>>] \in AnyArgs
  BY <1>1 DEF AnyArgs
<1>3. QED
  BY <1>1, <1>2 DEF IdleSend, SendType

-----------------------------------------------------------------------------

LEMMA InitHolds == Init => IInv
<1> SUFFICES ASSUME Init PROVE IInv
  OBVIOUS
<1>1. signFile \in [Files -> AnySig]
  <2>1. NoSig \in AnySig
    BY DEF NoSig, Sig, AnySig
  <2>2. QED
    BY <2>1 DEF Init
<1>2. txFile \in Nat /\ unspent \subseteq Coins /\ gen \in GenType /\ get \in GetType
  BY DEF Init, IdleGet, GenType, GetType
<1>3. QED
  BY <1>1, <1>2, IdleTyped DEF Init, IInv, Typed, Undisturbed

\* A command that writes a file disturbs send.
LEMMA DisturbStep ==
    ASSUME IInv, Disturb,
           txFile' \in Nat, signFile' \in [Files -> AnySig], unspent' \subseteq Coins,
           gen' \in GenType, get' \in GetType
    PROVE  IInv'
BY DEF IInv, Typed, SendType, Undisturbed, Disturb

\* An empty tx.out is a version like the others.
LEMMA BlankTyped == Blank \in Nat
<1>1. MaxGen \in Nat
  BY MultisigAssumption, Zenon
<1>2. QED
  BY <1>1 DEF Blank

\* gen and sign.
LEMMA WriterStep ==
    ASSUME IInv,
           \/ \E type \in {"", "multi"} : GenBegin(type)
           \/ GenTx \/ GenTxFile \/ GenFails
           \/ \E s \in Signers : \E f \in Output[s] : Sign(s, f)
    PROVE  IInv'
<1>1. ASSUME NEW type, GenBegin(type) PROVE IInv'
  BY <1>1 DEF GenBegin, IInv, Typed, GenType, Undisturbed, Ready
<1>2. ASSUME GenTx \/ GenTxFile PROVE IInv'
  <2>1. txFile' \in Nat /\ gen' \in GenType
    BY <1>2, BlankTyped DEF GenTx, GenTxFile, IInv, Typed, GenType
  <2>2. /\ signFile' \in [Files -> AnySig] /\ unspent' \subseteq Coins /\ get' \in GetType
        /\ Disturb
    BY <1>2 DEF GenTx, GenTxFile, IInv, Typed
  <2>3. QED
    BY <2>1, <2>2, DisturbStep
<1>3. ASSUME GenFails PROVE IInv'
  BY <1>3 DEF GenFails, IInv, Typed, GenType, Undisturbed, Ready
<1>4. ASSUME NEW s \in Signers, NEW f \in Output[s], Sign(s, f) PROVE IInv'
  <2>1. Sig(s, txFile) \in AnySig /\ NoSig \in AnySig
    BY DEF IInv, Typed, AnySig, Sig, NoSig
  <2>2. PICK sig \in {Sig(s, txFile), NoSig} : signFile' = [signFile EXCEPT ![f] = sig]
    BY <1>4 DEF Sign
  <2>3. signFile' \in [Files -> AnySig]
    BY <2>1, <2>2 DEF IInv, Typed
  <2>4. /\ txFile' = txFile /\ unspent' = unspent /\ gen' = gen /\ get' = get
        /\ Disturb
    BY <1>4 DEF Sign
  <2>5. QED
    BY <2>3, <2>4, DisturbStep DEF IInv, Typed
<1>5. QED
  BY <1>1, <1>2, <1>3, <1>4, Zenon

\* get, and other commands of the initiator: outputs only get fewer.
LEMMA SpenderStep ==
    ASSUME IInv,
           \/ GetSelect \/ GetCall
           \/ \E f \in Output[Endorser] : GetReply(f)
           \/ \E c \in Coins : OtherSpend(c)
    PROVE  IInv'
<1>1. ASSUME GetSelect PROVE IInv'
  <2>1. PICK c \in unspent :
            get' = [pc |-> "call", ver |-> txFile, fee |-> c, reply |-> "error"]
    BY <1>1 DEF GetSelect
  <2>2. QED
    BY <1>1, <2>1 DEF GetSelect, IInv, Typed, GetType, Undisturbed, Ready
<1>2. ASSUME GetCall PROVE IInv'
  <2>1. unspent' \subseteq unspent
    BY <1>2 DEF GetCall
  <2>2. Typed'
    BY <1>2 DEF GetCall, IInv, Typed, GetType
  <2>3. Undisturbed'
    BY <1>2, <2>1 DEF GetCall, IInv, Typed, GetType, Undisturbed, Ready
  <2>4. QED
    BY <2>2, <2>3 DEF IInv
<1>3. ASSUME NEW f \in Output[Endorser], GetReply(f) PROVE IInv'
  <2>1. Sig(Endorser, get.ver) \in AnySig /\ EmptySig \in AnySig /\ NoSig \in AnySig
    BY DEF IInv, Typed, GetType, AnySig, Sig, EmptySig, NoSig
  <2>2. IdleGet \in GetType
    BY DEF IdleGet, GetType
  <2>3. CASE get.reply # "error"
    BY <1>3, <2>1, <2>2, <2>3, DisturbStep DEF GetReply, IInv, Typed, GetType
  <2>4. CASE get.reply = "error"
    BY <1>3, <2>2, <2>4 DEF GetReply, IInv, Typed, GetType, Undisturbed, Ready
  <2>5. QED
    BY <2>3, <2>4
<1>4. ASSUME NEW c \in Coins, OtherSpend(c) PROVE IInv'
  BY <1>4 DEF OtherSpend, IInv, Typed, SendType, Undisturbed, Ready
<1>5. QED
  BY <1>1, <1>2, <1>3, <1>4

\* send: what it collects is what Ready says of the files.
LEMMA SendStep ==
    ASSUME IInv,
           \/ \E args \in SendArgs : SendLoad(args)
           \/ SendInit \/ SendAuth \/ SendTx \/ SendEnds
           \/ \E args \in SendArgs : sendXuper(args)
    PROVE  IInv'
<1>1. ASSUME NEW args \in SendArgs, SendLoad(args) PROVE IInv'
  <2>1. args \in AnyArgs
    BY MultisigAssumption DEF AnyArgs
  <2>2. Ready(args) \in BOOLEAN
    BY DEF Ready
  <2>3. send' = [IdleSend EXCEPT !.pc = "init", !.ver = txFile, !.args = args,
                                 !.ready = Ready(args)]
    BY <1>1 DEF SendLoad
  <2>4. Typed'
    BY <1>1, <2>1, <2>2, <2>3, IdleTyped DEF SendLoad, IInv, Typed, SendType
  <2>5. send'.pc = "init" /\ send'.ver = txFile /\ send'.args = args /\ send'.ready = Ready(args)
    BY <2>3, IdleTyped
  <2>6. Undisturbed'
    BY <1>1, <2>5 DEF SendLoad, Undisturbed, Ready
  <2>7. QED
    BY <2>4, <2>6 DEF IInv
<1>2. ASSUME SendInit PROVE IInv'
  <2>1. CASE SendFails(send.args.init)
    BY <1>2, <2>1, IdleTyped DEF SendInit, SendFails, IInv, Typed, SendType, Undisturbed
  <2>2. CASE send' = [send EXCEPT !.pc = "auth", !.init = getSigns(send.args.init)]
    <3>1. send.args \in AnyArgs /\ send.args.init \in Seq(Files)
      BY DEF IInv, Typed, SendType, AnyArgs
    <3>2. getSigns(send.args.init) \in Seq(AnySig)
      BY <3>1, SignsTyped DEF IInv
    <3>3. send.ready => getSigns(send.args.init) = InitSigns(txFile)
      BY <1>2, <3>1, SignsRight DEF IInv, Undisturbed, SendInit
    <3>4. Typed'
      BY <1>2, <2>2, <3>2 DEF SendInit, IInv, Typed, SendType
    <3>5. Undisturbed'
      BY <1>2, <2>2, <3>3 DEF SendInit, IInv, Typed, SendType, Undisturbed, Ready, InitSigns
    <3>6. QED
      BY <3>4, <3>5 DEF IInv
  <2>3. QED
    BY <1>2, <2>1, <2>2 DEF SendInit
<1>3. ASSUME SendAuth PROVE IInv'
  <2>1. CASE SendFails(send.args.auth)
    BY <1>3, <2>1, IdleTyped DEF SendAuth, SendFails, IInv, Typed, SendType, Undisturbed
  <2>2. CASE send' = [send EXCEPT !.pc = "post", !.auth = getSigns(send.args.auth)]
    <3>1. send.args \in AnyArgs /\ send.args.auth \in Seq(Files)
      BY DEF IInv, Typed, SendType, AnyArgs
    <3>2. getSigns(send.args.auth) \in Seq(AnySig)
      BY <3>1, SignsTyped DEF IInv
    <3>3. send.ready => getSigns(send.args.auth) = AuthSigns(txFile)
      BY <1>3, <3>1, SignsRight DEF IInv, Undisturbed, SendAuth
    <3>4. Typed'
      BY <1>3, <2>2, <3>2 DEF SendAuth, IInv, Typed, SendType
    <3>5. send.pc = "auth" /\ txFile' = txFile /\ signFile' = signFile
      BY <1>3 DEF SendAuth
    <3>6. /\ send'.pc = "post" /\ send'.auth = getSigns(send.args.auth)
          /\ send'.ver = send.ver /\ send'.args = send.args /\ send'.init = send.init
          /\ send'.ready = send.ready
      BY <2>2 DEF IInv, Typed, SendType
    <3>7. Undisturbed'
      BY <3>3, <3>5, <3>6 DEF IInv, Undisturbed, Ready, InitSigns, AuthSigns
    <3>8. QED
      BY <3>4, <3>7 DEF IInv
  <2>3. QED
    BY <1>3, <2>1, <2>2 DEF SendAuth
<1>4. ASSUME SendTx PROVE IInv'
  <2>1. CASE Accepts
    <3>1. send' = IdleSend
      BY <1>4, <2>1 DEF SendTx
    <3>2. QED
      BY <1>4, <3>1, IdleTyped DEF SendTx, IInv, Typed, SendType, Undisturbed
  <2>2. CASE ~Accepts
    <3>1. /\ send' = [IdleSend EXCEPT !.pc = "refused", !.ver = send.ver, !.ready = send.ready]
          /\ unspent' = unspent
      BY <1>4, <2>2 DEF SendTx
    <3>2. send.ready => coin[send.ver] \notin unspent
      BY <1>4, <2>2 DEF SendTx, Accepts, IInv, Undisturbed, InitSigns, AuthSigns
    <3>3. Typed' /\ send'.pc = "refused" /\ send'.ver = send.ver /\ send'.ready = send.ready
      BY <1>4, <3>1, IdleTyped DEF SendTx, IInv, Typed, SendType
    <3>4. Undisturbed'
      BY <1>4, <3>1, <3>2, <3>3 DEF SendTx, IInv, Undisturbed
    <3>5. QED
      BY <3>3, <3>4 DEF IInv
  <2>3. QED
    BY <2>1, <2>2
<1>5. ASSUME SendEnds PROVE IInv'
  BY <1>5, IdleTyped DEF SendEnds, IInv, Typed, SendType, Undisturbed
<1>6. ASSUME NEW args \in SendArgs, sendXuper(args) PROVE IInv'
  <2>1. QED
    BY <1>6, IdleTyped DEF sendXuper, IInv, Typed, SendType, Undisturbed
<1>7. QED
  BY <1>1, <1>2, <1>3, <1>4, <1>5, <1>6

-----------------------------------------------------------------------------

\* The inductive invariant holds in every reachable state.
THEOREM Invariance == Spec => []IInv
<1>1. IInv /\ [Next]_vars => IInv'
  <2> SUFFICES ASSUME IInv, [Next]_vars PROVE IInv'
    OBVIOUS
  <2>1. CASE Next
    BY <2>1, WriterStep, SpenderStep, SendStep DEF Next
  <2>2. CASE UNCHANGED vars
    BY <2>2 DEF vars, IInv, Typed, SendType, Undisturbed, Ready
  <2>3. QED
    BY <2>1, <2>2
<1>2. QED
  BY InitHolds, <1>1, PTL DEF Spec

\* However many parties there are, in whatever order they run gen, sign, get and
\* send: a send that was started with the right files and was not disturbed is
\* refused only because the output of its transaction was spent.
THEOREM RefusalHasCause == Spec => []RefusedForCause
<1>1. IInv => RefusedForCause
  BY DEF IInv, Undisturbed, RefusedForCause
<1>2. QED
  BY Invariance, <1>1, PTL

=============================================================================
