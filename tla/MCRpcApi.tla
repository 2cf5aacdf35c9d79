------------------------------- MODULE MCRpcApi -------------------------------
(***************************************************************************)
(* Requests for the runs of RpcApi.                                        *)
(***************************************************************************)
EXTENDS ClientView

CONSTANTS c1, c2, t1

Call(method) ==
    [method |-> method, name |-> "none", bcname |-> c1, nested |-> c1, valid |-> TRUE, tx |-> t1,
     fee |-> TRUE, names |-> <<>>, lock |-> FALSE, account |-> FALSE, signed |-> 0, total |-> 0]
EndorserCall(name) == [Call("EndorserCall") EXCEPT !.name = name]
Locking(in, signed) == [in EXCEPT !.lock = TRUE, !.signed = signed, !.total = 1]

\* A call as it should be, without a Bcname, and without another parameter.
Shapes(in) == {in, [in EXCEPT !.bcname = NoName], [in EXCEPT !.valid = FALSE]}

QueryMethods ==
    {"QueryRecords", "QueryACL", "GetAccountContracts", "QueryTx", "GetBlock",
     "GetBlockChainStatus", "GetBlockByHeight", "GetAccountByAK",
     "GetAddressContracts", "GetConsensusStatus", "Dpos", "GetBlockChains", "GetNetURL", "PreExec"}

Selects == {Call("SelectUTXO"), Locking(Call("SelectUTXO"), 1), Locking(Call("SelectUTXO"), 0),
            Locking(Call("SelectUTXOBySize"), 0), Locking(Call("SelectUTXOBySize"), 1),
            [Locking(Call("SelectUTXO"), 0) EXCEPT !.account = TRUE]}
WithSelects ==
    {Call("PreExecWithSelectUTXO"), [Call("PreExecWithSelectUTXO") EXCEPT !.nested = c2],
     [Call("PreExecWithSelectUTXO") EXCEPT !.nested = NoName],
     Locking(Call("PreExecWithSelectUTXO"), 1), Locking(Call("PreExecWithSelectUTXO"), 2)}
Lists == {[Call(m) EXCEPT !.names = names] : m \in Balances, names \in {<<c1>>, <<c1, c2>>}} \cup {Call("GetSystemStatus")}
Endorsements ==
    {EndorserCall(n) : n \in {"ComplianceCheck", "PreExecWithFee", "CrossQueryPreExec", "TxQuery", "Unknown"}}
    \cup {[EndorserCall("ComplianceCheck") EXCEPT !.fee = FALSE]}

GoodCalls == {Call(m) : m \in QueryMethods \cup {"PostTx"}}
             \cup Selects \cup WithSelects \cup Lists \cup Endorsements

\* Every method, once with and once without what it needs, and what the gateway
\* makes of an empty body.
AllCalls ==
    UNION {Shapes(in) : in \in GoodCalls}
    \cup UNION {GatewayRequest(in, body) : in \in GoodCalls, body \in {"bad", "empty", "json"}}

\* Calls that meet in what the node has accepted: a transaction posted by two
\* clients, directly or through the endorser, also again after a reply was lost.
Contended == {Call("PostTx"), EndorserCall("ComplianceCheck")}

OneAtATime == AllCalls \ Contended

=============================================================================
