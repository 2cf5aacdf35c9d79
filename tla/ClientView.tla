------------------------------ MODULE ClientView ------------------------------
(***************************************************************************)
(* What is made of a reply of RpcApi: by the query commands of the client  *)
(* (cmd/client/cmd), each of which makes one call and prints, and by the   *)
(* HTTP gateway (service/pb/*.pb.gw.go), which turns a request of its own  *)
(* into a call and the reply into JSON.                                    *)
(*                                                                         *)
(* A view is how the user sees the call end: whether the command's exit    *)
(* status (the HTTP status) is that of success, and what is shown: the     *)
(* result, nothing (a blank line, null, zeros), an error, a value JSON     *)
(* cannot print, or the stack of a panic.                                  *)
(*                                                                         *)
(* How results are laid out (types.go) is left out, but for what is        *)
(* dropped or divided on the way.                                          *)
(***************************************************************************)
EXTENDS RpcApi

CONSTANT Xuper   \* the chain name that stands for every chain in "status"

ASSUME XuperAssumption == Xuper \in Chains

View(ok, shown) == [ok |-> ok, shown |-> shown]
Failure == View(FALSE, "error")
Panic == View(FALSE, "panic")
Shown(d) == View(TRUE, IF d = "full" THEN "result" ELSE "nothing")

---------------------------------------------------------------------------
(* Commands.                                                               *)

\* The stub of a method: the response only if there is no error.
Invoke(w, view) == IF w.err THEN Failure ELSE view

\* reply.Header.Error, with no test for nil
Checked(w, view) ==
    Invoke(w, CASE w.header = "none" -> Panic
                [] w.header \notin {"none", "SUCCESS"} -> Failure
                [] OTHER -> view)

\* signed: the block has no justification, or one with SignInfos (which
\* FromPBJustify does not test for nil)
FromInternalBlockPB(d, signed) == IF d = "full" /\ ~signed THEN Panic ELSE Shown(d)

queryBlock(w, signed) ==
    Checked(w, IF w.data = "none" THEN Failure ELSE FromInternalBlockPB(w.data, signed))
queryBlockByHeight(w, signed) ==
    Checked(w, IF w.data = "none" THEN Failure ELSE FromInternalBlockPB(w.data, signed))

FromPBTx(d) == Shown(d)

\* written: the file of --pb, if it is given, could be written
queryTx(w, written) ==
    Checked(w, IF w.data = "none" \/ ~written THEN Failure ELSE FromPBTx(w.data))

\* without an ACL it prints null, and "unconfirmed"
queryACL(w) == Checked(w, Shown(w.data))

\* GetHeader().GetError() reads SUCCESS when there is no header
queryAccount(w) ==
    Invoke(w, IF w.header \notin {"none", "SUCCESS"} THEN Failure ELSE Shown(w.data))

\* the error of the chain's entry is not looked at: its balance is then blank
queryBalance(w, bcs) == Checked(w, IF bcs = <<>> THEN Panic ELSE Shown(bcs[1].data))

queryContractStatData(w) == Checked(w, Shown(w.data))

(* These never look at the header.                                         *)
queryUtxoRecords(w) == Invoke(w, Shown(w.data))
getStatus(w) == Invoke(w, Shown(w.data))
getNetURL(w) == Invoke(w, Shown(w.data))
queryCandidates(w) == Invoke(w, Shown(w.data))
queryCheckResult(w) == Invoke(w, Shown(w.data))
queryNominateRecords(w) == Invoke(w, Shown(w.data))
queryNomineeRecord(w) == Invoke(w, Shown(w.data))
queryConsensusStatus(w) == Invoke(w, Shown(w.data))
queryVoteRecords(w) == Invoke(w, Shown(w.data))
queryVotedRecords(w) == Invoke(w, Shown(w.data))
queryAccountContracts(w) == Invoke(w, Shown(w.data))
queryAddressContracts(w) == Invoke(w, Shown(w.data))

\* "account contracts" prints the error of either, and ends well
queryContracts(v) == IF v = Failure THEN View(TRUE, "error") ELSE v

\* The entries shown: all of them, or those with the chain's name; an entry
\* that failed has none.
FromSystemStatusPB(bcs, cname) ==
    {bcs[i] : i \in {j \in DOMAIN bcs : cname = Xuper \/ bcs[j].name = cname}}

\* Peers (-P) do not depend on the chains.  -B divides by the height of the trunk,
\* 0 for an entry that failed and for a chain with its first block only:
\* encoding/json refuses the quotient.  -L, -U and no flag ("all") print the entries.
StatusFlags == {"-L", "-U", "-B", "-P", "all"}
extractSpecificInfo(d, entries, flag, fresh) ==
    CASE flag = "-P" -> Shown(d)
      [] flag = "-B" /\ (\E e \in entries : e.data # "full" \/ e.name \in fresh) ->
            View(TRUE, "unprintable")
      [] OTHER ->
            Shown(IF entries # {} /\ \A e \in entries : e.data = "full" THEN "full" ELSE "none")

printXchainStatus(w, bcs, cname, flag, fresh) ==
    Checked(w, extractSpecificInfo(w.data, FromSystemStatusPB(bcs, cname), flag, fresh))

\* The queries of contracts, proposals and the govern token: a contract's error
\* status, and a response that is not there.
GenPreExeRes(w, status) ==
    Invoke(w, CASE w.data = "none" -> Panic
                [] w.data # "none" /\ status = "error" -> Failure
                [] OTHER -> Shown(w.data))
contractQuery(w, status) == GenPreExeRes(w, status)
proposalQuery(w, status) == GenPreExeRes(w, status)
governTokenQuery(w, status) == GenPreExeRes(w, status)

---------------------------------------------------------------------------
(* The gateway.                                                            *)

\* No path for GetNetURL and the Dpos queries.
GatewayMethods == Served \ {"GetNetURL", "Dpos"}

\* The request a body stands for: none if it does not decode; an empty one
\* (io.EOF) is the request without any field.
GatewayRequest(in, body) ==
    CASE in.method \notin GatewayMethods \/ body = "bad" -> {}
      [] in.method \in GatewayMethods /\ body = "empty" ->
            {[in EXCEPT !.bcname = NoName, !.nested = NoName, !.valid = FALSE, !.names = <<>>,
                        !.lock = FALSE, !.fee = FALSE, !.total = 0, !.name = "none"]}
      [] OTHER -> {in}

\* HTTPError, or the response with its header
GatewayReply(w) ==
    Invoke(w, IF w.header \notin {"none", "SUCCESS"} THEN View(TRUE, "error") ELSE Shown(w.data))

---------------------------------------------------------------------------
(* Everybody who may have sent a request.                                  *)

\* The balance command asks for the one chain of --name.
CommandViews(method, names, w, bcs) ==
    CASE method = "GetBlock" -> {queryBlock(w, signed) : signed \in BOOLEAN}
      [] method = "GetBlockByHeight" -> {queryBlockByHeight(w, signed) : signed \in BOOLEAN}
      [] method = "QueryTx" -> {queryTx(w, written) : written \in BOOLEAN}
      [] method = "QueryACL" -> {queryACL(w)}
      [] method = "GetAccountByAK" -> {queryAccount(w)}
      [] method \in {"GetBalance", "GetFrozenBalance"} /\ Len(names) = 1 -> {queryBalance(w, bcs)}
      [] method = "QueryRecords" -> {queryContractStatData(w), queryUtxoRecords(w)}
      [] method = "GetConsensusStatus" -> {getStatus(w)}
      [] method = "GetNetURL" -> {getNetURL(w)}
      [] method = "Dpos" ->
            {queryCandidates(w), queryCheckResult(w), queryNominateRecords(w), queryNomineeRecord(w),
             queryConsensusStatus(w), queryVoteRecords(w), queryVotedRecords(w)}
      [] method = "GetAccountContracts" -> {queryContracts(queryAccountContracts(w))}
      [] method = "GetAddressContracts" -> {queryContracts(queryAddressContracts(w))}
      [] method = "GetSystemStatus" ->
            {printXchainStatus(w, bcs, c, flag, fresh) :
                c \in Chains, flag \in StatusFlags, fresh \in SUBSET Chains}
      [] method = "PreExec" ->
            UNION {{contractQuery(w, status), proposalQuery(w, status), governTokenQuery(w, status)} :
                      status \in {"ok", "error"}}
      [] OTHER -> {}

Views(r) ==
    CommandViews(req[r].method, req[r].names, wire[r], list[r])
    \cup IF req[r].method \in GatewayMethods THEN {GatewayReply(wire[r])} ELSE {}

---------------------------------------------------------------------------
(* Properties.                                                             *)

\* A call that failed in its handler is shown as an error by every command and
\* by the gateway.  A dozen commands (account_contracts.go, utxo_list.go,
\* consensus_status.go, neturl_get.go, tdpos_*.go) never look at the Header:
\* they rest on the interceptor returning the error to grpc.
FailureShown ==
    \A r \in Requests : pc[r] = "replied" /\ out[r].err # "nil" =>
        \A v \in Views(r) : v.shown = "error"

\* Without a failure nobody is misled: nothing is shown only if the chain has
\* nothing, or (the code's weak spots) an entry of a list failed, the chain asked
\* for is not there, or a method lost what it could not convert; only the status
\* command meets a value it cannot print; a command panics only on a contract
\* response that is lost (comm_trans.go:143) or on a block whose justification has
\* no SignInfos (types.go:326), never on a reply without Header.
ViewTruthful ==
    \A r \in Requests : pc[r] = "replied" =>
        \A v \in Views(r) :
            /\ v.shown = "result" => wire[r].data = "full"
            /\ v.shown = "nothing" =>
                  \/ wire[r].data = "empty"
                  \/ req[r].method = "GetSystemStatus" /\ Len(list[r]) < Cardinality(Chains)
                  \/ \E i \in DOMAIN list[r] : list[r][i].data # "full"
                  \/ Op(req[r]) \in {"GetBlockChainStatus", "PreExec", "PreExecWithSelectUTXO"}
            /\ v.shown = "unprintable" => req[r].method = "GetSystemStatus"
            /\ v.shown = "panic" =>
                  \/ req[r].method = "PreExec" /\ wire[r].data = "none"
                  \/ req[r].method \in {"GetBlock", "GetBlockByHeight"} /\ wire[r].data = "full"

=============================================================================
