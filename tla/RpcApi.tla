-------------------------------- MODULE RpcApi --------------------------------
(***************************************************************************)
(* The unary calls of a node: the interceptor (service/rpc/rpc.go), the    *)
(* handlers of RpcServ (service/rpc/api.go) over ChainHandle               *)
(* (models/chain_handle.go), and DefaultXEndorser                          *)
(* (service/rpc/endorser_service.go), which calls the handlers directly,   *)
(* past the interceptor.                                                   *)
(*                                                                         *)
(* A handler returns an error ("nil" for none) and a response: its Header, *)
(* "none" unless the handler set it, and whether it holds the result:      *)
(* "full", "empty" (the chain has none) or "none" (nothing filled in).     *)
(* Handlers with one chain call are atomic; those with several take a step *)
(* for each, and chains are loaded and stopped in between.                 *)
(*                                                                         *)
(* External: the engine's set of chains, what a chain answers, grpc.       *)
(***************************************************************************)
EXTENDS Naturals, Sequences, FiniteSets

CONSTANTS Requests,  \* goroutines of the grpc server
          Chains,    \* names of chains
          NoName,    \* the empty Bcname
          Txs,       \* transactions
          Inputs,    \* requests clients send (see the fields below)
          Alone,     \* bound: the requests that are only tried one at a time
          Gas        \* gas a pre-execution may use

(* An input has: method; name (of an endorser request); bcname; nested,    *)
(* the Bcname of the request inside; valid: the other parameters are set   *)
(* and decode; tx; fee: the endorser request has a fee transaction; names: *)
(* the chains of a balance query; lock, account, signed: NeedLock, Address *)
(* is a contract account, and the amount its signature is about; total.    *)
ASSUME RpcAssumption ==
    /\ IsFiniteSet(Chains)
    /\ NoName \notin Chains
    /\ Gas \subseteq Nat
    /\ Alone \subseteq Inputs
    /\ Inputs # {}
    /\ \A in \in Inputs :
          in.tx \in Txs /\ in.total \in Nat /\ in.names \in Seq(Chains \cup {NoName})

VARIABLES
    chains,     \* chains the engine has loaded
    submitted,  \* transactions accepted by SubmitTx
    sending,    \* goroutines that will broadcast a transaction
    sends,      \* broadcasts of each transaction
    locks,      \* requests that locked outputs, with the amount
    req,        \* the request each goroutine serves
    pc,         \* where it is
    out,        \* what the handler returned
    todo,       \* chains still to be looked at by a loop
    list,       \* its entries so far
    steady,     \* history: chains loaded ever since the call began
    wire        \* what the client got

vars == <<chains, submitted, sending, sends, locks, req, pc, out, todo, list, steady, wire>>
nodeVars == <<submitted, sending, sends, locks>>
callVars == <<req, todo, list, steady>>

Errors == {"nil", "param", "notexist", "unauthorized", "forbidden", "internal",
           "duplicate", "chain", "other"}
Codes == {"none", "SUCCESS", "UNKNOW_ERROR", "CONNECT_REFUSE", "BLOCKCHAIN_NOTEXIST",
          "TX_DUPLICATE_ERROR", "SERVICE_REFUSED_ERROR"}

Result(e, d) == [err |-> e, data |-> d]
Full == Result("nil", "full")
Empty == Result("nil", "empty")
Fails(e) == Result(e, "none")
Lost == Result("nil", "none")   \* no error, and yet nothing in the response

NoReply == [err |-> FALSE, header |-> "none", data |-> "none"]
NoOut == [err |-> "nil", header |-> "none", data |-> "none"]
NoRequest == CHOOSE in \in Inputs : TRUE   \* of an idle goroutine: any

Init ==
    /\ chains \in SUBSET Chains
    /\ submitted = {}
    /\ sending = {}
    /\ sends = [t \in Txs |-> 0]
    /\ locks = {}
    /\ req = [r \in Requests |-> NoRequest]
    /\ pc = [r \in Requests |-> "idle"]
    /\ out = [r \in Requests |-> NoOut]
    /\ todo = [r \in Requests |-> <<>>]
    /\ list = [r \in Requests |-> <<>>]
    /\ steady = [r \in Requests |-> {}]
    /\ wire = [r \in Requests |-> NoReply]

---------------------------------------------------------------------------
(* The pattern of the handlers: parameters, chain handle, chain call.      *)

\* NewChainHandle, after the check of the parameters
Guarded(bcname, valid, results) ==
    CASE bcname = NoName \/ ~valid -> {Fails("param")}
      [] bcname # NoName /\ valid /\ bcname \notin chains -> {Fails("notexist")}
      [] OTHER -> results

Renamed(results, from, to) ==
    {IF res.err \in from THEN Fails(to) ELSE res : res \in results}

(* What the chain has is copied into the message of the api by encoding    *)
(* one and decoding the other; either may fail (service/common/convert.go).*)
ToXchain == {Full, Fails("internal")}    \* transactions, blocks, ACLs
ListToXchain == {Full, Fails("internal")}   \* outputs and contracts: all or none
InvokeToXchain == {Full, Lost}   \* the response of a contract: nil
MetaToXchain == {Full, Lost}     \* ledger and utxo meta data: nil

\* QueryContractStatData, QueryUtxoRecord
QueryRecords(in) == Guarded(in.bcname, in.valid, {Full, Fails("chain")})

\* no ACL: Confirmed is false
QueryACL(in) == Guarded(in.bcname, in.valid, ToXchain \cup {Empty, Fails("chain")})

\* an account without contracts is an internal error
GetAccountContracts(in) == Guarded(in.bcname, in.valid, ListToXchain \cup {Fails("chain")})

QueryTx(in) ==
    Renamed(Guarded(in.bcname, in.valid, ToXchain \cup {Fails("chain")}),
            {"notexist"}, "internal")

GetBlock(in) == Guarded(in.bcname, in.valid, ToXchain \cup {Fails("chain")})

\* block, ledger meta or utxo meta that cannot be converted: err is nil
GetBlockChainStatus(in) == Guarded(in.bcname, in.valid, MetaToXchain \cup {Fails("chain")})

GetBlockByHeight(in) == Guarded(in.bcname, in.valid, ToXchain \cup {Fails("chain")})

GetAccountByAK(in) == Guarded(in.bcname, in.valid, {Full, Empty, Fails("chain")})

\* accounts whose contracts cannot be read are left out
GetAddressContracts(in) == Guarded(in.bcname, in.valid, {Full, Empty, Fails("chain")})

GetConsensusStatus(in) ==
    Renamed(Guarded(in.bcname, in.valid, {Full, Fails("chain")}), {"notexist", "chain"}, "forbidden")

\* DposCandidates and the other Dpos queries are not served any more
Dpos(in) == IF in.bcname = NoName \/ ~in.valid THEN {Fails("param")} ELSE {Fails("forbidden")}

\* GetBlockChains and GetNetURL ask the engine
GetBlockChains(in) == {Full}
GetNetURL(in) == {Full}

PreExec(bcname, valid) == Guarded(bcname, valid, InvokeToXchain \cup {Fails("chain")})

---------------------------------------------------------------------------
(* Handlers that change something, by the result they have.                *)

\* Mutants: the broadcast is forgotten, does not depend on the result, or is
\* repeated for a transaction the node has already.
PostTxSilent(bcname, valid, tx, res) ==
    /\ res \in Guarded(bcname, valid, IF tx \in submitted THEN {Fails("duplicate")}
                                      ELSE {Full, Fails("chain")})
    /\ submitted' = IF res.err = "nil" THEN submitted \cup {tx} ELSE submitted
    /\ UNCHANGED <<sending, sends, locks>>

PostTxLoud(bcname, valid, tx, res) ==
    /\ res \in Guarded(bcname, valid, IF tx \in submitted THEN {Fails("duplicate")}
                                      ELSE {Full, Fails("chain")})
    /\ submitted' = IF res.err = "nil" THEN submitted \cup {tx} ELSE submitted
    /\ sending' = sending \cup {tx}
    /\ UNCHANGED <<sends, locks>>

PostTxAgain(bcname, valid, tx, res) ==
    /\ res \in Guarded(bcname, valid, IF tx \in submitted THEN {Fails("duplicate")}
                                      ELSE {Full, Fails("chain")})
    /\ submitted' = IF res.err = "nil" THEN submitted \cup {tx} ELSE submitted
    /\ sending' = IF res.err \in {"nil", "duplicate"} /\ sends[tx] < 2 THEN sending \cup {tx} ELSE sending
    /\ UNCHANGED <<sends, locks>>

\* SubmitTx; an accepted transaction is broadcast by a goroutine of its own
PostTx(bcname, valid, tx, res) ==
    /\ res \in Guarded(bcname, valid, IF tx \in submitted THEN {Fails("duplicate")}
                                      ELSE {Full, Fails("chain")})
    /\ submitted' = IF res.err = "nil" THEN submitted \cup {tx} ELSE submitted
    /\ sending' = IF res.err = "nil" THEN sending \cup {tx} ELSE sending
    /\ UNCHANGED <<sends, locks>>

\* Mutant: the signature is not needed for a lock.
checkSelectUtxoSignSkipped(in, need) == TRUE

\* a signature of the owner for exactly this chain, address and amount
checkSelectUtxoSign(in, need) == in.account \/ ~in.lock \/ in.signed = need

\* ChainHandle.SelectUtxo, then the conversion: it may fail with the lock taken
SelectUTXO(r, in, need, valid, res) ==
    /\ res \in Guarded(in.bcname, valid,
                       IF checkSelectUtxoSign(in, need)
                       THEN ListToXchain \cup {Fails("chain")}
                       ELSE {Fails("unauthorized")})
    /\ locks' = IF in.lock /\ res.err \in {"nil", "internal"} THEN locks \cup {<<r, need>>} ELSE locks
    /\ UNCHANGED <<submitted, sending, sends>>

---------------------------------------------------------------------------
(* A request, from its arrival to the handler's return.                    *)

Endorsed(r) == req[r].method = "EndorserCall"

\* The RpcServ method that serves a request, or a part of it.
Op(in) ==
    IF in.method # "EndorserCall" THEN in.method
    ELSE CASE in.name = "ComplianceCheck" -> "PostTx"
           [] in.name = "PreExecWithFee" -> "PreExecWithSelectUTXO"
           [] in.name = "CrossQueryPreExec" -> "PreExec"
           [] in.name = "TxQuery" -> "QueryTx"
           [] OTHER -> "none"

\* A method of RpcServ returns, to the interceptor or to the endorser.
Return(r, res) ==
    /\ out' = [out EXCEPT ![r] = [err |-> res.err, header |-> "none", data |-> res.data]]
    /\ pc' = [pc EXCEPT ![r] = IF Endorsed(r) THEN "endorse" ELSE "returned"]

\* The methods of the grpc services: RpcServ.ConfirmBlockChainStatus is not among
\* them.  QueryRecords stands for two of them, Dpos for seven.
Served ==
    {"SelectUTXOBySize", "PostTx", "QueryACL", "QueryRecords", "GetAccountContracts", "QueryTx",
     "GetBalance", "GetBalanceDetail", "GetFrozenBalance", "GetBlock", "GetBlockByHeight",
     "GetBlockChainStatus", "GetBlockChains", "GetSystemStatus", "GetConsensusStatus", "GetNetURL",
     "SelectUTXO", "PreExecWithSelectUTXO", "Dpos", "GetAccountByAK", "GetAddressContracts",
     "PreExec", "EndorserCall"}

\* The interceptor's first part: header, log id and context of the request.  The
\* ignored error of createReqCtx (rpc.go:56) is left out: grpc gives every call
\* its peer, and the engine and the logger are there before the server is.
Receive(r, in) ==
    /\ pc[r] = "idle" /\ in.method \in Served
    /\ \A q \in Requests \ {r} : pc[q] = "idle" \/ {in, req[q]} \cap Alone = {}
    /\ pc' = [pc EXCEPT ![r] = IF in.method = "EndorserCall" THEN "endorser" ELSE "start"]
    /\ req' = [req EXCEPT ![r] = in]
    /\ out' = [out EXCEPT ![r] = NoOut]
    /\ list' = [list EXCEPT ![r] = <<>>]
    /\ steady' = [steady EXCEPT ![r] = chains]
    /\ UNCHANGED <<chains, nodeVars, todo, wire>>

\* The message does not decode: grpc answers, the interceptor is not called.
Undecoded(r, in) ==
    /\ pc[r] = "idle" /\ in.method \in Served
    /\ \A q \in Requests \ {r} : pc[q] = "idle"
    /\ pc' = [pc EXCEPT ![r] = "replied"]
    /\ req' = [req EXCEPT ![r] = in]
    /\ wire' = [wire EXCEPT ![r] = [err |-> TRUE, header |-> "none", data |-> "none"]]
    /\ UNCHANGED <<chains, nodeVars, out, todo, list, steady>>

QueryResults(in) ==
    CASE Op(in) = "QueryRecords" -> QueryRecords(in)
      [] Op(in) = "QueryACL" -> QueryACL(in)
      [] Op(in) = "GetAccountContracts" -> GetAccountContracts(in)
      [] Op(in) = "QueryTx" -> QueryTx(in)
      [] Op(in) = "GetBlock" -> GetBlock(in)
      [] Op(in) = "GetBlockChainStatus" -> GetBlockChainStatus(in)
      [] Op(in) = "GetBlockByHeight" -> GetBlockByHeight(in)
      [] Op(in) = "GetAccountByAK" -> GetAccountByAK(in)
      [] Op(in) = "GetAddressContracts" -> GetAddressContracts(in)
      [] Op(in) = "GetConsensusStatus" -> GetConsensusStatus(in)
      [] Op(in) = "Dpos" -> Dpos(in)
      [] Op(in) = "GetBlockChains" -> GetBlockChains(in)
      [] Op(in) = "GetNetURL" -> GetNetURL(in)
      [] Op(in) = "PreExec" -> PreExec(in.bcname, in.valid)
      [] OTHER -> {}

Query(r) ==
    /\ pc[r] = "start"
    /\ \E res \in QueryResults(req[r]) : Return(r, res)
    /\ UNCHANGED <<chains, nodeVars, callVars, wire>>

HandlePostTx(r) ==
    /\ pc[r] = "start" /\ Op(req[r]) = "PostTx"
    /\ \E res \in [err : Errors, data : {"full", "none"}] :
          PostTx(req[r].bcname, req[r].valid, req[r].tx, res) /\ Return(r, res)
    /\ UNCHANGED <<chains, callVars, wire>>

\* SelectUTXO, and SelectUTXOBySize whose signature is about the amount 0
HandleSelectUTXO(r) ==
    /\ pc[r] = "start" /\ Op(req[r]) \in {"SelectUTXO", "SelectUTXOBySize"}
    /\ \E res \in [err : Errors, data : {"full", "none"}] :
          /\ SelectUTXO(r, req[r], IF Op(req[r]) = "SelectUTXO" THEN req[r].total ELSE 0,
                        req[r].valid, res)
          /\ Return(r, res)
    /\ UNCHANGED <<chains, callVars, wire>>

\* PreExecWithSelectUTXO: the parameters, then PreExec of the nested request
WithPreExec(r) ==
    /\ pc[r] = "start" /\ Op(req[r]) = "PreExecWithSelectUTXO"
    /\ IF req[r].bcname = NoName \/ ~req[r].valid THEN Return(r, Fails("param"))
       ELSE \E res \in PreExec(req[r].nested, TRUE) :
              IF res.err # "nil" THEN Return(r, res)
              ELSE /\ pc' = [pc EXCEPT ![r] = "select"]
                   /\ out' = [out EXCEPT ![r].data = res.data]
    /\ UNCHANGED <<chains, nodeVars, callVars, wire>>

\* then SelectUTXO for TotalAmount and the gas, unless that is nothing; without
\* the contract's response the gas reads 0
WithSelectUTXO(r) ==
    /\ pc[r] = "select"
    /\ \E gasUsed \in IF out[r].data = "none" THEN {0} ELSE Gas :
          LET need == req[r].total + gasUsed
          IN  \/ need < 1 /\ Return(r, Result("nil", out[r].data)) /\ UNCHANGED nodeVars
              \/ /\ need >= 1
                 /\ \E res \in [err : Errors, data : {"full", "none"}] :
                       /\ SelectUTXO(r, req[r], need, TRUE, res)
                       /\ Return(r, IF res.err = "nil" THEN Result("nil", out[r].data) ELSE res)
    /\ UNCHANGED <<chains, callVars, wire>>

---------------------------------------------------------------------------
(* Loops over chains.                                                      *)

Balances == {"GetBalance", "GetFrozenBalance", "GetBalanceDetail"}
Orders(S) == {s \in [1..Cardinality(S) -> S] : \A i, j \in DOMAIN s : s[i] = s[j] => i = j}

\* a balance query without address is refused
BeginBalances(r) ==
    /\ pc[r] = "start" /\ Op(req[r]) \in Balances
    /\ IF ~req[r].valid THEN Return(r, Fails("param")) /\ UNCHANGED todo
       ELSE /\ todo' = [todo EXCEPT ![r] = req[r].names]
            /\ pc' = [pc EXCEPT ![r] = "loop"]
            /\ UNCHANGED out
    /\ UNCHANGED <<chains, nodeVars, req, list, steady, wire>>

\* GetSystemStatus: the engine's chains at this moment
BeginSystemStatus(r) ==
    /\ pc[r] = "start" /\ Op(req[r]) = "GetSystemStatus"
    /\ \E s \in Orders(chains) : todo' = [todo EXCEPT ![r] = s]
    /\ pc' = [pc EXCEPT ![r] = "loop"]
    /\ UNCHANGED <<chains, nodeVars, req, out, list, steady, wire>>

Entry(name, code, data) == [name |-> name, code |-> code, data |-> data]

\* GetBalanceDetail's conversion error is overwritten by SUCCESS
BalanceEntries(in, name) ==
    IF name \notin chains THEN {Entry(name, "BLOCKCHAIN_NOTEXIST", "none")}
    ELSE {Entry(name, "SUCCESS", "full"), Entry(name, "UNKNOW_ERROR", "none")}
         \cup (IF in.method = "GetBalanceDetail" THEN {Entry(name, "SUCCESS", "none")} ELSE {})

\* an error of GetBlockChainStatus is logged; its response then has not even the
\* name of the chain
StatusEntries(name) ==
    IF name \notin chains THEN {Entry(NoName, "none", "none")}
    ELSE {Entry(name, "none", "full"), Entry(NoName, "none", "none")}

\* Mutant: the loop ends with the first chain that is not there.
LoopBreaks(r) ==
    /\ pc[r] = "loop" /\ todo[r] # <<>>
    /\ \E e \in IF Op(req[r]) \in Balances THEN BalanceEntries(req[r], Head(todo[r]))
                ELSE StatusEntries(Head(todo[r])) :
          /\ list' = [list EXCEPT ![r] = Append(@, e)]
          /\ todo' = [todo EXCEPT ![r] = IF Head(todo[r]) \in chains THEN Tail(@) ELSE <<>>]
    /\ UNCHANGED <<chains, nodeVars, req, pc, out, steady, wire>>

Loop(r) ==
    /\ pc[r] = "loop" /\ todo[r] # <<>>
    /\ \E e \in IF Op(req[r]) \in Balances THEN BalanceEntries(req[r], Head(todo[r]))
                ELSE StatusEntries(Head(todo[r])) :
          list' = [list EXCEPT ![r] = Append(@, e)]
    /\ todo' = [todo EXCEPT ![r] = Tail(@)]
    /\ UNCHANGED <<chains, nodeVars, req, pc, out, steady, wire>>

LoopEnds(r) ==
    /\ pc[r] = "loop" /\ todo[r] = <<>>
    /\ Return(r, Full)
    /\ UNCHANGED <<chains, nodeVars, callVars, wire>>

---------------------------------------------------------------------------
(* DefaultXEndorser.EndorserCall.                                          *)

Endorse(r, e, header, data) ==
    /\ out' = [out EXCEPT ![r] = [err |-> e, header |-> header, data |-> data]]
    /\ pc' = [pc EXCEPT ![r] = "returned"]

\* The request name is unknown; createReqCtx fails and the response is nil, which
\* makes the interceptor panic when it looks for the header (rpc.go:92); the data
\* do not decode; or the method is called.  A ComplianceCheck without fee goes on
\* to the signature at once.
EndorserBegins(r) ==
    /\ pc[r] = "endorser"
    /\ \/ Op(req[r]) # "none" /\ pc' = [pc EXCEPT ![r] = "panic"] /\ UNCHANGED out
       \/ CASE Op(req[r]) = "none" \/ (req[r].name # "ComplianceCheck" /\ ~req[r].valid) ->
                 Endorse(r, "other", "SERVICE_REFUSED_ERROR", "none")
            [] req[r].name = "ComplianceCheck" /\ ~req[r].fee -> Return(r, Full)
            [] OTHER -> pc' = [pc EXCEPT ![r] = "start"] /\ UNCHANGED out
    /\ UNCHANGED <<chains, nodeVars, callVars, wire>>

(* The method's response has no Header, whose Error therefore reads        *)
(* SUCCESS: that is the error code of the endorser's response too.         *)
EndorserEnds(r) ==
    /\ pc[r] = "endorse"
    /\ \/ out[r].err # "nil" /\ Endorse(r, out[r].err, "SUCCESS", "none")
       \/ out[r].err = "nil" /\ Endorse(r, "nil", "SUCCESS", out[r].data)
       \/ /\ out[r].err = "nil" /\ req[r].name # "PreExecWithFee"     \* no signature
          /\ Endorse(r, "other", IF req[r].name = "ComplianceCheck"
                                 THEN "SERVICE_REFUSED_ERROR" ELSE "SUCCESS", "none")
    /\ UNCHANGED <<chains, nodeVars, callVars, wire>>

---------------------------------------------------------------------------
(* The interceptor's second part.                                          *)

\* CastError, and StdErrToXchainErrMap
convertErr(e) ==
    CASE e = "nil" -> "SUCCESS"
      [] e \in {"param", "unauthorized", "forbidden"} -> "CONNECT_REFUSE"
      [] e = "notexist" -> "BLOCKCHAIN_NOTEXIST"
      [] e = "duplicate" -> "TX_DUPLICATE_ERROR"
      [] OTHER -> "UNKNOW_ERROR"

ReplyHeader(o) == IF o.header = "none" THEN convertErr(o.err) ELSE o.header

\* Mutant: the comment's version, err=nil for every request.
InterceptErrNil(r) ==
    /\ pc[r] = "returned"
    /\ wire' = [wire EXCEPT ![r] = [err |-> FALSE, header |-> ReplyHeader(out[r]),
                                    data |-> out[r].data]]
    /\ pc' = [pc EXCEPT ![r] = "replied"]
    /\ UNCHANGED <<chains, nodeVars, callVars, out>>

\* Mutant: the header of a response is left to the handlers.
InterceptNoHeader(r) ==
    /\ pc[r] = "returned"
    /\ wire' = [wire EXCEPT ![r] =
          IF out[r].err # "nil" THEN [err |-> TRUE, header |-> "none", data |-> "none"]
          ELSE [err |-> FALSE, header |-> out[r].header, data |-> out[r].data]]
    /\ pc' = [pc EXCEPT ![r] = "replied"]
    /\ UNCHANGED <<chains, nodeVars, callVars, out>>

\* The header is set if the handler left it nil; with an error grpc sends the
\* error and not the response.
Intercept(r) ==
    /\ pc[r] = "returned"
    /\ wire' = [wire EXCEPT ![r] =
          IF out[r].err # "nil" THEN [err |-> TRUE, header |-> "none", data |-> "none"]
          ELSE [err |-> FALSE, header |-> ReplyHeader(out[r]), data |-> out[r].data]]
    /\ pc' = [pc EXCEPT ![r] = "replied"]
    /\ UNCHANGED <<chains, nodeVars, callVars, out>>

\* Mutant: a panic is not recovered, the goroutine never answers.
RecoverNever(r) == FALSE /\ UNCHANGED vars

\* A panic below the handler becomes an error.
Recover(r) ==
    /\ pc[r] = "panic"
    /\ wire' = [wire EXCEPT ![r] = [err |-> TRUE, header |-> "none", data |-> "none"]]
    /\ pc' = [pc EXCEPT ![r] = "replied"]
    /\ UNCHANGED <<chains, nodeVars, callVars, out>>

---------------------------------------------------------------------------
(* The environment.                                                        *)

\* the chain panics, or a handler on what it got
Panics(r) ==
    /\ pc[r] \in {"start", "select", "loop", "endorse"}
    /\ pc' = [pc EXCEPT ![r] = "panic"]
    /\ UNCHANGED <<chains, nodeVars, callVars, out, wire>>

\* the client has its answer; the goroutine serves the next request
Answered(r) ==
    /\ pc[r] = "replied"
    /\ pc' = [pc EXCEPT ![r] = "idle"]
    /\ out' = [out EXCEPT ![r] = NoOut]
    /\ wire' = [wire EXCEPT ![r] = NoReply]
    /\ list' = [list EXCEPT ![r] = <<>>]
    /\ todo' = [todo EXCEPT ![r] = <<>>]
    /\ locks' = {l \in locks : l[1] # r}   \* the locks expire
    /\ req' = [req EXCEPT ![r] = NoRequest]
    /\ steady' = [steady EXCEPT ![r] = {}]
    /\ UNCHANGED <<chains, submitted, sending, sends>>

\* Net.SendMessage in the goroutine of PostTx
SendMessage(tx) ==
    /\ tx \in sending
    /\ sending' = sending \ {tx}
    /\ sends' = [sends EXCEPT ![tx] = @ + 1]
    /\ UNCHANGED <<chains, submitted, locks, callVars, pc, out, wire>>

LoadChain(c) ==
    /\ c \notin chains
    /\ chains' = chains \cup {c}
    /\ UNCHANGED <<nodeVars, callVars, pc, out, wire>>

StopChain(c) ==
    /\ c \in chains
    /\ chains' = chains \ {c}
    /\ steady' = [r \in Requests |-> steady[r] \ {c}]
    /\ UNCHANGED <<nodeVars, req, todo, list, pc, out, wire>>

Handler(r) ==
    \/ Query(r) \/ HandlePostTx(r) \/ HandleSelectUTXO(r) \/ WithPreExec(r) \/ WithSelectUTXO(r)
    \/ BeginBalances(r) \/ BeginSystemStatus(r) \/ Loop(r) \/ LoopEnds(r)
    \/ EndorserBegins(r) \/ EndorserEnds(r)

Next ==
    \/ \E r \in Requests :
          \/ \E in \in Inputs : Receive(r, in) \/ Undecoded(r, in)
          \/ Handler(r) \/ Intercept(r) \/ Recover(r) \/ Panics(r) \/ Answered(r)
    \/ \E tx \in Txs : SendMessage(tx)
    \/ \E c \in Chains : LoadChain(c) \/ StopChain(c)

Spec == Init /\ [][Next]_vars

\* Goroutines run on, and the calls they make return: every call of the chain,
\* and SendMessage, which have no deadline in the code.  Nothing is assumed of
\* what they answer, of clients, of loaded chains or of panics.
FairSpec ==
    /\ Spec
    /\ \A r \in Requests : WF_vars(Handler(r) \/ Intercept(r) \/ Recover(r))
    /\ \A tx \in Txs : WF_vars(SendMessage(tx))

---------------------------------------------------------------------------
(* Properties.                                                             *)

\* Types; only the endorser sets a header of its own.
TypeOK ==
    /\ chains \subseteq Chains
    /\ submitted \subseteq Txs /\ sending \subseteq submitted
    /\ sends \in [Txs -> Nat]
    /\ locks \subseteq Requests \X Nat
    /\ req \in [Requests -> Inputs]
    /\ pc \in [Requests -> {"idle", "start", "select", "loop", "endorser", "endorse",
                            "returned", "panic", "replied"}]
    /\ out \in [Requests -> [err : Errors, header : Codes, data : {"none", "empty", "full"}]]
    /\ \A r \in Requests : out[r].header # "none" => Endorsed(r)
    /\ wire \in [Requests -> [err : BOOLEAN, header : Codes, data : {"none", "empty", "full"}]]
    /\ steady \in [Requests -> SUBSET Chains]

\* What every client tests: err == nil, then reply.Header.Error.
Success(r) == pc[r] = "replied" /\ ~wire[r].err /\ wire[r].header = "SUCCESS"

\* A client that sees success has what it asked for: the reply holds the result,
\* the transaction (also the fee transaction of an endorsement) is accepted, the
\* outputs are locked for it.  The endorser's responses say SUCCESS in their
\* header when the call below failed (processFee, getCrossQueryResult,
\* getTxResult read the Header of a response that has none): that this is not
\* seen rests on the interceptor returning err.  Left out are the methods that
\* lose what they cannot convert (ConversionErrorSeen).
NoFalseSuccess ==
    \A r \in Requests : Success(r) =>
        /\ Op(req[r]) \notin {"GetBlockChainStatus", "PreExec", "PreExecWithSelectUTXO"} =>
              wire[r].data # "none"
        /\ Op(req[r]) = "PostTx" /\ (Endorsed(r) => req[r].fee) => req[r].tx \in submitted
        /\ Op(req[r]) \in {"SelectUTXO", "SelectUTXOBySize"} /\ req[r].lock =>
              \E l \in locks : l[1] = r

\* A request refused for its parameters, its chain or its signature changed
\* nothing: no output is locked for it, for each of the two chain calls of
\* PreExecWithSelectUTXO; and a lock is for the amount its owner signed, gas
\* included (checkSelectUtxoSign).
LockedAsSigned ==
    \A r \in Requests :
        /\ out[r].err \in {"param", "notexist", "unauthorized"} => \A l \in locks : l[1] # r
        /\ \A l \in locks : l[1] = r => req[r].account \/ l[2] = req[r].signed

\* Every accepted transaction is broadcast once, and no other, however often
\* clients post it (PostTx; processFee of the endorser).
BroadcastOnce ==
    \A tx \in Txs : /\ sends[tx] + (IF tx \in sending THEN 1 ELSE 0) <= 1
                    /\ sends[tx] > 0 => tx \in submitted

\* The loops look at every chain asked for, in order, and say that a chain does
\* not exist only if it was not loaded all through the call: one chain that is
\* missing or fails does not hide the others (GetSystemStatus: a chain has its
\* entry, or one of the entries without a name stands for it).
LoopsComplete ==
    \A r \in Requests : pc[r] = "returned" /\ out[r].err = "nil" =>
        /\ Op(req[r]) \in Balances =>
              /\ [i \in DOMAIN list[r] |-> list[r][i].name] = req[r].names
              /\ \A i \in DOMAIN list[r] :
                    list[r][i].code = "BLOCKCHAIN_NOTEXIST" => list[r][i].name \notin steady[r]
        /\ Op(req[r]) = "GetSystemStatus" =>
              LET names == {list[r][i].name : i \in DOMAIN list[r]}
              IN  Cardinality(steady[r] \ names)
                     <= Cardinality({i \in DOMAIN list[r] : list[r][i].name = NoName})

\* Every request is answered, also after a panic, if the chain's calls return.
RequestsAnswered == \A r \in Requests : pc[r] = "start" ~> pc[r] = "replied"

\* An accepted transaction reaches the network.
AcceptedIsBroadcast == \A tx \in Txs : tx \in submitted ~> sends[tx] > 0

\* api.go:19: "without an error the response's err is nil": what could not be
\* converted is an error of the reply (or of the entry of a list).
ConversionErrorSeen ==
    \A r \in Requests : Success(r) =>
        /\ wire[r].data # "none"
        /\ \A i \in DOMAIN list[r] : list[r][i].code = "SUCCESS" => list[r][i].data = "full"

=============================================================================
