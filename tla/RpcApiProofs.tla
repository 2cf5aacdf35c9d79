----------------------------- MODULE RpcApiProofs -----------------------------
(***************************************************************************)
(* The unary calls, for any number of goroutines, chains, transactions and *)
(* requests.                                                               *)
(***************************************************************************)
EXTENDS ClientView, FiniteSetTheorems, TLAPS

Datas == {"none", "empty", "full"}
Results == [err : Errors, data : Datas]
Places == {"idle", "start", "select", "loop", "endorser", "endorse", "returned", "panic", "replied"}

\* TypeOK without its part about headers
NodeTypes ==
    /\ submitted \subseteq Txs /\ sending \subseteq submitted
    /\ sends \in [Txs -> Nat]
    /\ locks \subseteq Requests \X Nat

CallTypes ==
    /\ chains \subseteq Chains
    /\ req \in [Requests -> Inputs]
    /\ pc \in [Requests -> Places]
    /\ out \in [Requests -> [err : Errors, header : Codes, data : Datas]]
    /\ wire \in [Requests -> [err : BOOLEAN, header : Codes, data : Datas]]
    /\ steady \in [Requests -> SUBSET Chains]

\* A transaction that waits for its broadcast has had none.
Once ==
    \A tx \in Txs : /\ sends[tx] <= 1
                    /\ tx \in sending => sends[tx] = 0
                    /\ sends[tx] > 0 => tx \in submitted

LocksOf(r) == {l \in locks : l[1] = r}

\* Where a goroutine is tells what it serves.
Reached(r) ==
    /\ pc[r] = "idle" => out[r] = NoOut
    /\ out[r].header # "none" => Endorsed(r)
    /\ pc[r] \in {"endorser", "endorse"} => Endorsed(r)
    /\ pc[r] = "select" => Op(req[r]) = "PreExecWithSelectUTXO"
    /\ pc[r] = "loop" => Op(req[r]) \in Balances \cup {"GetSystemStatus"}

\* The lock is the last thing a handler takes.
Locked(r) ==
    /\ pc[r] \in {"idle", "endorser", "start", "select", "loop"} => LocksOf(r) = {}
    /\ out[r].err \in {"param", "notexist", "unauthorized"} => LocksOf(r) = {}
    /\ \A l \in LocksOf(r) : req[r].account \/ l[2] = req[r].signed

\* What a call without an error has done
Done(in, data, accepted, locked) ==
    /\ Op(in) \notin {"GetBlockChainStatus", "PreExec", "PreExecWithSelectUTXO"} => data # "none"
    /\ Op(in) = "PostTx" /\ (in.method = "EndorserCall" => in.fee) => in.tx \in accepted
    /\ Op(in) \in {"SelectUTXO", "SelectUTXOBySize"} /\ in.lock => locked # {}

\* From the handler's return to the client: an error always arrives as one.
Delivered(r) ==
    /\ pc[r] \in {"endorse", "returned", "replied"} /\ out[r].err = "nil"
          /\ (pc[r] = "replied" => ~wire[r].err) =>
          Done(req[r], out[r].data, submitted, LocksOf(r))
    /\ pc[r] = "replied" /\ ~wire[r].err => out[r].err = "nil" /\ wire[r].data = out[r].data

RInv(r) == Reached(r) /\ Locked(r) /\ Delivered(r)

IInv == NodeTypes /\ CallTypes /\ Once /\ \A r \in Requests : RInv(r)

---------------------------------------------------------------------------
(* What the handlers answer.                                               *)

\* The results handlers choose from
LEMMA ResultForms ==
  /\ Full \in Results /\ Empty \in Results /\ Lost \in Results
  /\ \A e \in Errors : Fails(e) \in Results /\ Fails(e).err = e
  /\ Full.err = "nil" /\ Full.data = "full" /\ Empty.err = "nil" /\ Empty.data = "empty"
  BY DEF Full, Empty, Lost, Fails, Result, Results, Errors, Datas

\* The checks before the chain call add refusals only.
LEMMA GuardedResults ==
  ASSUME NEW b, NEW v, NEW S, S \subseteq Results
  PROVE  /\ Guarded(b, v, S) \subseteq Results
         /\ \A res \in Guarded(b, v, S) : res.err = "nil" => res \in S
<1>1. /\ Fails("param") \in Results /\ Fails("param").err # "nil"
      /\ Fails("notexist") \in Results /\ Fails("notexist").err # "nil"
  BY ResultForms DEF Errors
<1>2. \A res \in Guarded(b, v, S) : res \in {Fails("param"), Fails("notexist")} \/ res \in S
  BY DEF Guarded
<1> QED
  BY <1>1, <1>2

\* An error that is renamed stays an error.
LEMMA RenamedResults ==
  ASSUME NEW S, S \subseteq Results, NEW F, "nil" \notin F, NEW e \in Errors \ {"nil"}
  PROVE  /\ Renamed(S, F, e) \subseteq Results
         /\ \A res \in Renamed(S, F, e) : res.err = "nil" => res \in S
  BY ResultForms DEF Renamed

\* A query without an error has found something, or that there is nothing; the
\* pre-execution and the status of a chain may have lost it.
LEMMA QueryAnswers ==
  ASSUME NEW in, NEW res \in QueryResults(in)
  PROVE  /\ res \in Results
         /\ Op(in) \notin {"PostTx", "SelectUTXO", "SelectUTXOBySize"}
         /\ res.err = "nil" /\ Op(in) \notin {"GetBlockChainStatus", "PreExec"} => res.data # "none"
<1> DEFINE Sound(S) == S \subseteq Results /\ \A x \in S : x.err = "nil" => x.data # "none"
<1>1. Op(in) \notin {"PostTx", "SelectUTXO", "SelectUTXOBySize"}
  BY DEF QueryResults
<1>2. /\ Fails("internal") \in Results /\ Fails("internal").err # "nil"
      /\ Fails("chain") \in Results /\ Fails("chain").err # "nil"
      /\ Fails("param") \in Results /\ Fails("param").err # "nil"
      /\ Fails("forbidden") \in Results /\ Fails("forbidden").err # "nil"
  BY ResultForms DEF Errors
<1>3. /\ Sound({Full, Fails("chain")})
      /\ Sound(ToXchain \cup {Empty, Fails("chain")})
      /\ Sound(ToXchain \cup {Fails("chain")})
      /\ Sound(ListToXchain \cup {Fails("chain")})
      /\ Sound({Full, Empty, Fails("chain")})
      /\ Sound({Full})
      /\ Sound({Fails("param")}) /\ Sound({Fails("forbidden")})
  BY <1>2, ResultForms DEF ToXchain, ListToXchain
<1>4. ASSUME NEW S, Sound(S), NEW b, NEW v PROVE Sound(Guarded(b, v, S))
  BY <1>4, GuardedResults
<1>5. ASSUME NEW S, Sound(S), NEW F, "nil" \notin F, NEW e \in Errors \ {"nil"}
      PROVE  Sound(Renamed(S, F, e))
  BY <1>5, RenamedResults
<1>6. /\ MetaToXchain \cup {Fails("chain")} \subseteq Results
      /\ InvokeToXchain \cup {Fails("chain")} \subseteq Results
  BY <1>2, ResultForms DEF MetaToXchain, InvokeToXchain
<1>7. GetBlockChainStatus(in) \subseteq Results /\ PreExec(in.bcname, in.valid) \subseteq Results
  BY <1>6, GuardedResults DEF GetBlockChainStatus, PreExec
<1>8. {"internal", "forbidden"} \subseteq Errors \ {"nil"}
  BY DEF Errors
<1> HIDE DEF Sound
<1>9. /\ Sound(QueryRecords(in)) /\ Sound(QueryACL(in)) /\ Sound(GetAccountContracts(in))
      /\ Sound(GetBlock(in)) /\ Sound(GetBlockByHeight(in)) /\ Sound(GetAccountByAK(in))
      /\ Sound(GetAddressContracts(in)) /\ Sound(Dpos(in)) /\ Sound(GetBlockChains(in))
      /\ Sound(GetNetURL(in))
  BY <1>3, <1>4 DEF QueryRecords, QueryACL, GetAccountContracts, GetBlock, GetBlockByHeight,
     GetAccountByAK, GetAddressContracts, Dpos, GetBlockChains, GetNetURL
<1>10. Sound(QueryTx(in))
  <2>1. Sound(Guarded(in.bcname, in.valid, ToXchain \cup {Fails("chain")}))
    BY <1>3, <1>4
  <2> QED
    BY <2>1, <1>5, <1>8 DEF QueryTx
<1>11. Sound(GetConsensusStatus(in))
  <2>1. Sound(Guarded(in.bcname, in.valid, {Full, Fails("chain")}))
    BY <1>3, <1>4
  <2> QED
    BY <2>1, <1>5, <1>8 DEF GetConsensusStatus
<1>12. \/ res \in GetBlockChainStatus(in) /\ Op(in) = "GetBlockChainStatus"
       \/ res \in PreExec(in.bcname, in.valid) /\ Op(in) = "PreExec"
       \/ \E S : Sound(S) /\ res \in S
  BY <1>9, <1>10, <1>11 DEF QueryResults
<1> QED
  BY <1>1, <1>7, <1>12 DEF Sound

---------------------------------------------------------------------------
(* Every step keeps the invariant.                                         *)

\* The initial states satisfy the invariant.
LEMMA InitInv == ASSUME Init PROVE IInv
<1>1. NoOut \in [err : Errors, header : Codes, data : Datas]
      /\ NoReply \in [err : BOOLEAN, header : Codes, data : Datas] /\ NoRequest \in Inputs
  BY RpcAssumption DEF NoOut, NoReply, NoRequest, Errors, Codes, Datas
<1>2. NodeTypes /\ Once
  BY DEF Init, NodeTypes, Once
<1>3. CallTypes
  BY <1>1 DEF Init, CallTypes, Places
<1>4. ASSUME NEW r \in Requests PROVE RInv(r)
  <2>1. pc[r] = "idle" /\ out[r] = NoOut /\ locks = {}
    BY DEF Init
  <2> QED
    BY <2>1 DEF RInv, Reached, Locked, Delivered, LocksOf, NoOut
<1> QED
  BY <1>2, <1>3, <1>4 DEF IInv

\* What other goroutines do does not matter to q, if they leave its locks.
LEMMA OthersInv ==
  ASSUME NEW q \in Requests, RInv(q),
         req'[q] = req[q], pc'[q] = pc[q], out'[q] = out[q], wire'[q] = wire[q],
         LocksOf(q)' = LocksOf(q), submitted \subseteq submitted'
  PROVE  RInv(q)'
<1>1. Reached(q)'
  BY DEF RInv, Reached, Endorsed
<1>2. Locked(q)'
  BY DEF RInv, Locked
<1>3. Delivered(q)'
  BY DEF RInv, Delivered, Done
<1> QED
  BY <1>1, <1>2, <1>3 DEF RInv

\* A step of r that leaves the node alone
LEMMA LocalInv ==
  ASSUME IInv, NEW r \in Requests, UNCHANGED nodeVars, CallTypes', RInv(r)',
         \A q \in Requests \ {r} :
            req'[q] = req[q] /\ pc'[q] = pc[q] /\ out'[q] = out[q] /\ wire'[q] = wire[q]
  PROVE  IInv'
<1>1. NodeTypes' /\ Once'
  BY DEF IInv, NodeTypes, Once, nodeVars
<1>2. ASSUME NEW q \in Requests \ {r} PROVE RInv(q)'
  BY <1>2, OthersInv DEF IInv, LocksOf, nodeVars
<1> QED
  BY <1>1, <1>2 DEF IInv

\* A request arrives: nothing is locked for it yet.
LEMMA ReceiveInv ==
  ASSUME IInv, NEW r \in Requests, NEW in \in Inputs, Receive(r, in)
  PROVE  IInv'
<1>1. NoOut \in [err : Errors, header : Codes, data : Datas]
  BY DEF NoOut, Errors, Codes, Datas
<1>2. CallTypes'
  BY <1>1 DEF IInv, CallTypes, Receive, Places
<1>3. /\ pc[r] = "idle" /\ req'[r] = in /\ out'[r] = NoOut
      /\ pc'[r] = IF in.method = "EndorserCall" THEN "endorser" ELSE "start"
      /\ LocksOf(r)' = {}
  BY DEF IInv, CallTypes, Receive, RInv, Locked, LocksOf, nodeVars
<1>4. RInv(r)'
  BY <1>3 DEF RInv, Reached, Locked, Delivered, Endorsed, NoOut
<1>5. \A q \in Requests \ {r} :
         req'[q] = req[q] /\ pc'[q] = pc[q] /\ out'[q] = out[q] /\ wire'[q] = wire[q]
  BY DEF IInv, CallTypes, Receive
<1> QED
  BY <1>2, <1>4, <1>5, LocalInv DEF Receive

\* A message that does not decode is answered by an error at once.
LEMMA UndecodedInv ==
  ASSUME IInv, NEW r \in Requests, NEW in \in Inputs, Undecoded(r, in)
  PROVE  IInv'
<1>1. [err |-> TRUE, header |-> "none", data |-> "none"] \in [err : BOOLEAN, header : Codes, data : Datas]
  BY DEF Codes, Datas
<1>2. CallTypes'
  BY <1>1 DEF IInv, CallTypes, Undecoded, Places
<1>3. /\ pc[r] = "idle" /\ pc'[r] = "replied" /\ req'[r] = in /\ out'[r] = NoOut
      /\ wire'[r].err = TRUE /\ LocksOf(r)' = {}
  BY DEF IInv, CallTypes, Undecoded, RInv, Reached, Locked, LocksOf, nodeVars
<1>4. RInv(r)'
  BY <1>3 DEF RInv, Reached, Locked, Delivered, Endorsed, NoOut
<1>5. \A q \in Requests \ {r} :
         req'[q] = req[q] /\ pc'[q] = pc[q] /\ out'[q] = out[q] /\ wire'[q] = wire[q]
  BY DEF IInv, CallTypes, Undecoded
<1> QED
  BY <1>2, <1>4, <1>5, LocalInv DEF Undecoded

\* A method of RpcServ returns a result that says what was done.
LEMMA ReturnInv ==
  ASSUME IInv, NEW r \in Requests, NEW res \in Results, Return(r, res),
         pc[r] \in {"start", "select", "loop", "endorser"},
         UNCHANGED <<chains, req, steady, wire>>,
         NodeTypes', Once', submitted \subseteq submitted',
         \A q \in Requests \ {r} : LocksOf(q)' = LocksOf(q),
         res.err \in {"param", "notexist", "unauthorized"} => LocksOf(r)' = {},
         \A l \in LocksOf(r)' : req[r].account \/ l[2] = req[r].signed,
         res.err = "nil" => Done(req[r], res.data, submitted', LocksOf(r)')
  PROVE  IInv'
<1> DEFINE o == [err |-> res.err, header |-> "none", data |-> res.data]
<1>1. o \in [err : Errors, header : Codes, data : Datas]
  BY DEF Results, Codes
<1>2. CallTypes'
  BY <1>1 DEF IInv, CallTypes, Return, Places
<1>3. /\ out'[r] = o /\ req'[r] = req[r]
      /\ pc'[r] = IF Endorsed(r) THEN "endorse" ELSE "returned"
  BY DEF IInv, CallTypes, Return
<1>4. Reached(r)'
  BY <1>3 DEF Reached, Endorsed
<1>5. Locked(r)'
  BY <1>3 DEF Locked
<1>6. Delivered(r)'
  BY <1>3 DEF Delivered
<1>7. ASSUME NEW q \in Requests \ {r} PROVE RInv(q)'
  <2>1. req'[q] = req[q] /\ pc'[q] = pc[q] /\ out'[q] = out[q] /\ wire'[q] = wire[q]
    BY <1>7 DEF IInv, CallTypes, Return
  <2> QED
    BY <1>7, <2>1, OthersInv DEF IInv
<1> QED
  BY <1>2, <1>4, <1>5, <1>6, <1>7 DEF IInv, RInv

\* ... and one that has changed nothing at the node
LEMMA ReturnLocalInv ==
  ASSUME IInv, NEW r \in Requests, NEW res \in Results, Return(r, res),
         pc[r] \in {"start", "select", "loop", "endorser"},
         UNCHANGED <<chains, req, steady, wire, nodeVars>>,
         res.err = "nil" => Done(req[r], res.data, submitted, {})
  PROVE  IInv'
<1>1. NodeTypes' /\ Once'
  BY DEF IInv, NodeTypes, Once, nodeVars
<1>2. LocksOf(r)' = {} /\ \A q \in Requests : LocksOf(q)' = LocksOf(q)
  BY DEF IInv, RInv, Locked, LocksOf, nodeVars
<1> QED
  BY <1>1, <1>2, ReturnInv DEF nodeVars

\* Queries change nothing at the node.
LEMMA QueryInv ==
  ASSUME IInv, NEW r \in Requests, Query(r)
  PROVE  IInv'
<1>1. PICK res \in QueryResults(req[r]) : Return(r, res)
  BY DEF Query
<1>2. res \in Results /\ (res.err = "nil" => Done(req[r], res.data, submitted, {}))
  BY QueryAnswers DEF Done
<1> QED
  BY <1>1, <1>2, ReturnLocalInv DEF Query, callVars

\* PostTx answers without an error for a transaction it has just accepted.
LEMMA HandlePostTxInv ==
  ASSUME IInv, NEW r \in Requests, HandlePostTx(r)
  PROVE  IInv'
<1> DEFINE tx == req[r].tx
<1>1. PICK res \in [err : Errors, data : {"full", "none"}] :
         PostTx(req[r].bcname, req[r].valid, tx, res) /\ Return(r, res)
  BY DEF HandlePostTx
<1>2. res \in Results /\ tx \in Txs
  BY RpcAssumption DEF Results, Datas, IInv, CallTypes
<1> DEFINE S == IF tx \in submitted THEN {Fails("duplicate")} ELSE {Full, Fails("chain")}
<1>3. S \subseteq Results /\ \A x \in S : x.err = "nil" => x = Full /\ tx \notin submitted
  BY ResultForms DEF Errors
<1>4. res.err = "nil" => res.data = "full" /\ tx \notin submitted
  <2>1. res \in Guarded(req[r].bcname, req[r].valid, S)
    BY <1>1 DEF PostTx
  <2> QED
    BY <2>1, <1>3, GuardedResults, ResultForms
<1>5. /\ submitted' = IF res.err = "nil" THEN submitted \cup {tx} ELSE submitted
      /\ sending' = IF res.err = "nil" THEN sending \cup {tx} ELSE sending
      /\ UNCHANGED <<sends, locks>>
  BY <1>1 DEF PostTx
<1>6. NodeTypes' /\ Once'
  <2>1. res.err = "nil" => sends[tx] = 0
    BY <1>2, <1>4 DEF IInv, Once, NodeTypes
  <2> QED
    BY <2>1, <1>2, <1>5 DEF IInv, NodeTypes, Once
<1>7. LocksOf(r)' = {} /\ \A q \in Requests : LocksOf(q)' = LocksOf(q)
  BY <1>5 DEF IInv, RInv, Locked, LocksOf, HandlePostTx
<1>8. res.err = "nil" => Done(req[r], res.data, submitted', {})
  BY <1>4, <1>5 DEF Done, HandlePostTx
<1> HIDE DEF tx, S
<1> QED
  BY <1>1, <1>2, <1>5, <1>6, <1>7, <1>8, ReturnInv DEF HandlePostTx, callVars

\* A selection locks only what its check has let pass.
LEMMA SelectUTXOLocks ==
  ASSUME IInv, NEW r \in Requests, NEW need \in Nat, NEW valid,
         NEW res \in [err : Errors, data : {"full", "none"}],
         SelectUTXO(r, req[r], need, valid, res), LocksOf(r) = {}
  PROVE  /\ NodeTypes' /\ Once' /\ submitted' = submitted
         /\ \A q \in Requests \ {r} : LocksOf(q)' = LocksOf(q)
         /\ \A l \in LocksOf(r)' : req[r].account \/ l[2] = req[r].signed
         /\ LocksOf(r)' # {} => res.err \in {"nil", "internal"}
         /\ res.err = "nil" => res.data = "full" /\ (req[r].lock => LocksOf(r)' # {})
<1> DEFINE ok == checkSelectUtxoSign(req[r], need)
           S == IF ok THEN ListToXchain \cup {Fails("chain")} ELSE {Fails("unauthorized")}
           locked == req[r].lock /\ res.err \in {"nil", "internal"}
<1>1. res \in Guarded(req[r].bcname, valid, S)
  BY DEF SelectUTXO
<1>2. /\ locks' = IF locked THEN locks \cup {<<r, need>>} ELSE locks
      /\ UNCHANGED <<submitted, sending, sends>>
  BY DEF SelectUTXO
<1>3. /\ \A x \in S : x.err \in {"nil", "internal"} => ok
      /\ \A x \in S : x.err = "nil" => x = Full
      /\ S \subseteq Results
  BY ResultForms DEF ListToXchain, Errors
<1>4. res.err \in {"nil", "internal"} => ok
  <2>1. res \in {Fails("param"), Fails("notexist")} \/ res \in S
    BY <1>1 DEF Guarded
  <2>2. Fails("param").err = "param" /\ Fails("notexist").err = "notexist"
    BY ResultForms DEF Errors
  <2> QED
    BY <2>1, <2>2, <1>3
<1>5. res.err = "nil" => res.data = "full"
  BY <1>1, <1>3, GuardedResults, ResultForms
<1>6. locked => req[r].account \/ req[r].signed = need
  BY <1>4 DEF checkSelectUtxoSign
<1>7. LocksOf(r)' = IF locked THEN {<<r, need>>} ELSE {}
  BY <1>2 DEF LocksOf
<1>8. \A q \in Requests \ {r} : LocksOf(q)' = LocksOf(q)
  BY <1>2 DEF LocksOf
<1>9. NodeTypes' /\ Once'
  BY <1>2 DEF IInv, NodeTypes, Once
<1>10. \A l \in LocksOf(r)' : req[r].account \/ l[2] = req[r].signed
  <2>1. SUFFICES ASSUME NEW l \in LocksOf(r)' PROVE req[r].account \/ l[2] = req[r].signed
    OBVIOUS
  <2>2. locked /\ l = <<r, need>>
    BY <1>7 DEF locked
  <2> QED
    BY <2>2, <1>6
<1>11. LocksOf(r)' # {} => res.err \in {"nil", "internal"}
  BY <1>7
<1>12. res.err = "nil" => (req[r].lock => LocksOf(r)' # {})
  BY <1>7
<1> HIDE DEF ok, S, locked
<1> QED
  BY <1>2, <1>5, <1>8, <1>9, <1>10, <1>11, <1>12

\* SelectUTXO and SelectUTXOBySize
LEMMA HandleSelectUTXOInv ==
  ASSUME IInv, NEW r \in Requests, HandleSelectUTXO(r)
  PROVE  IInv'
<1> DEFINE need == IF Op(req[r]) = "SelectUTXO" THEN req[r].total ELSE 0
<1>1. PICK res \in [err : Errors, data : {"full", "none"}] :
         SelectUTXO(r, req[r], need, req[r].valid, res) /\ Return(r, res)
  BY DEF HandleSelectUTXO
<1>2. res \in Results /\ need \in Nat /\ LocksOf(r) = {}
  BY RpcAssumption DEF Results, Datas, IInv, CallTypes, RInv, Locked, HandleSelectUTXO
<1> HIDE DEF need
<1>3. /\ NodeTypes' /\ Once' /\ submitted' = submitted
      /\ \A q \in Requests \ {r} : LocksOf(q)' = LocksOf(q)
      /\ \A l \in LocksOf(r)' : req[r].account \/ l[2] = req[r].signed
      /\ LocksOf(r)' # {} => res.err \in {"nil", "internal"}
      /\ res.err = "nil" => res.data = "full" /\ (req[r].lock => LocksOf(r)' # {})
  BY <1>1, <1>2, SelectUTXOLocks
<1>4. res.err = "nil" => Done(req[r], res.data, submitted', LocksOf(r)')
  BY <1>3 DEF Done, HandleSelectUTXO
<1> QED
  BY <1>1, <1>2, <1>3, <1>4, ReturnInv DEF HandleSelectUTXO, callVars

\* A step of r within its call, by which it reaches the place p
LEMMA StepInv ==
  ASSUME IInv, NEW r \in Requests, NEW p \in Places, pc' = [pc EXCEPT ![r] = p],
         UNCHANGED <<chains, nodeVars, req, steady, wire>>,
         out' \in [Requests -> [err : Errors, header : Codes, data : Datas]],
         \A q \in Requests \ {r} : out'[q] = out[q],
         RInv(r)'
  PROVE  IInv'
<1>1. CallTypes'
  BY DEF IInv, CallTypes
<1>2. \A q \in Requests \ {r} :
         req'[q] = req[q] /\ pc'[q] = pc[q] /\ out'[q] = out[q] /\ wire'[q] = wire[q]
  BY DEF IInv, CallTypes
<1> QED
  BY <1>1, <1>2, LocalInv

\* The first chain call of PreExecWithSelectUTXO takes no lock.
LEMMA WithPreExecInv ==
  ASSUME IInv, NEW r \in Requests, WithPreExec(r)
  PROVE  IInv'
<1>1. CASE req[r].bcname = NoName \/ ~req[r].valid
  <2>1. Return(r, Fails("param"))
    BY <1>1 DEF WithPreExec
  <2>2. Fails("param") \in Results /\ Fails("param").err # "nil"
    BY ResultForms DEF Errors
  <2> QED
    BY <2>1, <2>2, ReturnLocalInv DEF WithPreExec, callVars
<1>2. CASE ~(req[r].bcname = NoName \/ ~req[r].valid)
  <2>1. PICK res \in PreExec(req[r].nested, TRUE) :
           IF res.err # "nil" THEN Return(r, res)
           ELSE /\ pc' = [pc EXCEPT ![r] = "select"]
                /\ out' = [out EXCEPT ![r].data = res.data]
    BY <1>2 DEF WithPreExec
  <2>2. InvokeToXchain \cup {Fails("chain")} \subseteq Results
    BY ResultForms DEF InvokeToXchain, Errors
  <2>3. res \in Results
    BY <2>2, GuardedResults DEF PreExec
  <2>4. CASE res.err # "nil"
    BY <2>1, <2>3, <2>4, ReturnLocalInv DEF WithPreExec, callVars
  <2>5. CASE res.err = "nil"
    <3>1. /\ out' = [out EXCEPT ![r].data = res.data] /\ pc' = [pc EXCEPT ![r] = "select"]
          /\ UNCHANGED <<chains, nodeVars, req, steady, wire>>
          /\ pc[r] = "start" /\ Op(req[r]) = "PreExecWithSelectUTXO"
      BY <2>1, <2>5 DEF WithPreExec, callVars
    <3>2. out' \in [Requests -> [err : Errors, header : Codes, data : Datas]]
      BY <3>1, <2>3 DEF IInv, CallTypes, Results
    <3>3. /\ \A q \in Requests \ {r} : out'[q] = out[q]
          /\ out'[r].header = out[r].header /\ pc'[r] = "select"
      BY <3>1 DEF IInv, CallTypes
    <3>4. LocksOf(r)' = {} /\ req'[r] = req[r]
      BY <3>1 DEF IInv, RInv, Locked, LocksOf, nodeVars
    <3>5. RInv(r)'
      BY <3>1, <3>3, <3>4 DEF IInv, RInv, Reached, Locked, Delivered, Endorsed
    <3> QED
      BY <3>1, <3>2, <3>3, <3>5, StepInv DEF Places
  <2> QED
    BY <2>4, <2>5
<1> QED
  BY <1>1, <1>2

\* Its second chain call locks for the amount with the gas.
LEMMA WithSelectUTXOInv ==
  ASSUME IInv, NEW r \in Requests, WithSelectUTXO(r)
  PROVE  IInv'
<1>1. PICK gasUsed \in IF out[r].data = "none" THEN {0} ELSE Gas :
         LET need == req[r].total + gasUsed
         IN  \/ need < 1 /\ Return(r, Result("nil", out[r].data)) /\ UNCHANGED nodeVars
             \/ /\ need >= 1
                /\ \E res \in [err : Errors, data : {"full", "none"}] :
                      /\ SelectUTXO(r, req[r], need, TRUE, res)
                      /\ Return(r, IF res.err = "nil" THEN Result("nil", out[r].data) ELSE res)
  BY DEF WithSelectUTXO
<1> DEFINE need == req[r].total + gasUsed
           kept == Result("nil", out[r].data)
<1>2. need \in Nat
  BY RpcAssumption DEF IInv, CallTypes
<1>3. /\ kept \in Results /\ kept.err = "nil" /\ LocksOf(r) = {}
      /\ pc[r] = "select" /\ UNCHANGED <<chains, req, steady, wire>>
  BY DEF Result, Results, Errors, IInv, CallTypes, RInv, Locked, WithSelectUTXO, callVars
<1>4. \A data, locked : Done(req[r], data, submitted, locked)
  BY DEF IInv, RInv, Reached, Done, WithSelectUTXO
<1>5. CASE Return(r, kept) /\ UNCHANGED nodeVars
  BY <1>3, <1>4, <1>5, ReturnLocalInv
<1>6. CASE \E res \in [err : Errors, data : {"full", "none"}] :
              SelectUTXO(r, req[r], need, TRUE, res) /\ Return(r, IF res.err = "nil" THEN kept ELSE res)
  <2>1. PICK res \in [err : Errors, data : {"full", "none"}] :
           SelectUTXO(r, req[r], need, TRUE, res) /\ Return(r, IF res.err = "nil" THEN kept ELSE res)
    BY <1>6
  <2> DEFINE given == IF res.err = "nil" THEN kept ELSE res
  <2> HIDE DEF need, kept
  <2>2. given \in Results /\ given.err = res.err
    BY <1>3 DEF Results, Datas
  <2>3. /\ NodeTypes' /\ Once' /\ submitted' = submitted
        /\ \A q \in Requests \ {r} : LocksOf(q)' = LocksOf(q)
        /\ \A l \in LocksOf(r)' : req[r].account \/ l[2] = req[r].signed
        /\ LocksOf(r)' # {} => res.err \in {"nil", "internal"}
    BY <1>2, <1>3, <2>1, SelectUTXOLocks
  <2>4. Done(req[r], given.data, submitted', LocksOf(r)')
    BY <1>4, <2>3
  <2>5. Return(r, given)
    BY <2>1
  <2> HIDE DEF given
  <2> QED
    BY <1>3, <2>2, <2>3, <2>4, <2>5, ReturnInv
<1> QED
  BY <1>1, <1>5, <1>6

\* The loops over chains end with a result.
LEMMA LoopsInv ==
  ASSUME IInv, NEW r \in Requests,
         BeginBalances(r) \/ BeginSystemStatus(r) \/ Loop(r) \/ LoopEnds(r)
  PROVE  IInv'
<1>1. CASE BeginBalances(r) /\ ~req[r].valid
  <2>1. Fails("param") \in Results /\ Fails("param").err # "nil"
    BY ResultForms DEF Errors
  <2> QED
    BY <1>1, <2>1, ReturnLocalInv DEF BeginBalances
<1>2. CASE (BeginBalances(r) /\ req[r].valid) \/ BeginSystemStatus(r)
  <2>1. /\ pc' = [pc EXCEPT ![r] = "loop"] /\ pc[r] = "start"
        /\ Op(req[r]) \in Balances \cup {"GetSystemStatus"}
        /\ UNCHANGED <<chains, nodeVars, req, out, steady, wire>>
    BY <1>2 DEF BeginBalances, BeginSystemStatus
  <2>2. pc'[r] = "loop" /\ LocksOf(r)' = {}
    BY <2>1 DEF IInv, CallTypes, RInv, Locked, LocksOf, nodeVars
  <2>3. RInv(r)'
    BY <2>1, <2>2 DEF IInv, RInv, Reached, Locked, Delivered, Endorsed
  <2>4. out' \in [Requests -> [err : Errors, header : Codes, data : Datas]]
    BY <2>1 DEF IInv, CallTypes
  <2> QED
    BY <2>1, <2>3, <2>4, StepInv DEF Places
<1>3. CASE Loop(r)
  <2>1. UNCHANGED <<chains, nodeVars, req, pc, out, steady, wire>>
    BY <1>3 DEF Loop
  <2>2. CallTypes'
    BY <2>1 DEF IInv, CallTypes
  <2>3. RInv(r)'
    BY <2>1, OthersInv DEF IInv, LocksOf, nodeVars
  <2> QED
    BY <2>1, <2>2, <2>3, LocalInv
<1>4. CASE LoopEnds(r)
  <2>1. Op(req[r]) \in Balances \cup {"GetSystemStatus"}
    BY <1>4 DEF IInv, RInv, Reached, LoopEnds
  <2>2. Done(req[r], Full.data, submitted, {})
    BY <2>1, ResultForms DEF Done, Balances
  <2> QED
    BY <1>4, <2>2, ResultForms, ReturnLocalInv DEF LoopEnds, callVars
<1> QED
  BY <1>1, <1>2, <1>3, <1>4

\* The endorser refuses, signs without a fee, or calls a method.
LEMMA EndorserBeginsInv ==
  ASSUME IInv, NEW r \in Requests, EndorserBegins(r)
  PROVE  IInv'
<1>1. /\ pc[r] = "endorser" /\ Endorsed(r) /\ UNCHANGED <<chains, nodeVars, req, steady, wire>>
      /\ LocksOf(r)' = {} /\ req'[r] = req[r]
  BY DEF EndorserBegins, callVars, IInv, RInv, Reached, Locked, LocksOf, nodeVars
<1>2. CASE Endorse(r, "other", "SERVICE_REFUSED_ERROR", "none")
  <2> DEFINE o == [err |-> "other", header |-> "SERVICE_REFUSED_ERROR", data |-> "none"]
  <2>1. o \in [err : Errors, header : Codes, data : Datas]
    BY DEF Errors, Codes, Datas
  <2>2. out' = [out EXCEPT ![r] = o] /\ pc' = [pc EXCEPT ![r] = "returned"]
    BY <1>2 DEF Endorse
  <2>3. out'[r].err = "other" /\ pc'[r] = "returned"
    BY <2>2 DEF IInv, CallTypes
  <2>4. RInv(r)'
    BY <1>1, <2>3 DEF RInv, Reached, Locked, Delivered, Endorsed
  <2> HIDE DEF o
  <2>5. /\ out' \in [Requests -> [err : Errors, header : Codes, data : Datas]]
        /\ \A q \in Requests \ {r} : out'[q] = out[q]
    BY <2>1, <2>2 DEF IInv, CallTypes
  <2> QED
    BY <1>1, <2>2, <2>4, <2>5, StepInv DEF Places
<1>3. CASE req[r].name = "ComplianceCheck" /\ ~req[r].fee /\ Return(r, Full)
  <2>1. Op(req[r]) = "PostTx"
    BY <1>1, <1>3 DEF Op, Endorsed
  <2>2. Done(req[r], Full.data, submitted, {})
    BY <1>1, <1>3, <2>1, ResultForms DEF Done, Endorsed
  <2> QED
    BY <1>1, <1>3, <2>2, ResultForms, ReturnLocalInv
<1>4. CASE \E p \in {"start", "panic"} : pc' = [pc EXCEPT ![r] = p] /\ UNCHANGED out
  <2>1. PICK p \in {"start", "panic"} : pc' = [pc EXCEPT ![r] = p] /\ UNCHANGED out
    BY <1>4
  <2>2. pc'[r] = p
    BY <2>1 DEF IInv, CallTypes
  <2>3. RInv(r)'
    BY <1>1, <2>1, <2>2 DEF RInv, Reached, Locked, Delivered, Endorsed
  <2>4. out' \in [Requests -> [err : Errors, header : Codes, data : Datas]]
    BY <2>1 DEF IInv, CallTypes
  <2> QED
    BY <1>1, <2>1, <2>3, <2>4, StepInv DEF Places
<1> QED
  BY <1>2, <1>3, <1>4 DEF EndorserBegins

\* The endorser keeps the error of the method; it may add one of its own.
LEMMA EndorserEndsInv ==
  ASSUME IInv, NEW r \in Requests, EndorserEnds(r)
  PROVE  IInv'
<1>1. /\ pc[r] = "endorse" /\ Endorsed(r) /\ UNCHANGED <<chains, nodeVars, req, steady, wire>>
      /\ LocksOf(r)' = LocksOf(r) /\ req'[r] = req[r]
  BY DEF EndorserEnds, callVars, IInv, RInv, Reached, LocksOf, nodeVars
<1>2. out[r] \in [err : Errors, header : Codes, data : Datas]
  BY DEF IInv, CallTypes
<1>3. PICK e \in Errors, header \in Codes, data \in Datas :
         /\ Endorse(r, e, header, data)
         /\ e = out[r].err \/ e = "other"
         /\ e = "nil" => data = out[r].data
  <2>1. {"other", "nil"} \subseteq Errors /\ {"SUCCESS", "SERVICE_REFUSED_ERROR"} \subseteq Codes
        /\ "none" \in Datas
    BY DEF Errors, Codes, Datas
  <2>2. \/ out[r].err # "nil" /\ Endorse(r, out[r].err, "SUCCESS", "none")
        \/ out[r].err = "nil" /\ Endorse(r, "nil", "SUCCESS", out[r].data)
        \/ Endorse(r, "other", "SERVICE_REFUSED_ERROR", "none")
        \/ Endorse(r, "other", "SUCCESS", "none")
    BY DEF EndorserEnds
  <2> QED
    BY <1>2, <2>1, <2>2
<1> DEFINE o == [err |-> e, header |-> header, data |-> data]
<1>4. out' = [out EXCEPT ![r] = o] /\ pc' = [pc EXCEPT ![r] = "returned"]
  BY <1>3 DEF Endorse
<1>5. out'[r] = o /\ pc'[r] = "returned"
  BY <1>4 DEF IInv, CallTypes
<1>6. /\ out' \in [Requests -> [err : Errors, header : Codes, data : Datas]]
      /\ \A q \in Requests \ {r} : out'[q] = out[q]
  BY <1>4 DEF IInv, CallTypes
<1>7. Reached(r)'
  BY <1>1, <1>5 DEF Reached, Endorsed
<1>8. Locked(r)'
  BY <1>1, <1>3, <1>5 DEF IInv, RInv, Locked
<1>9. Delivered(r)'
  BY <1>1, <1>3, <1>5 DEF IInv, RInv, Delivered, nodeVars
<1> QED
  BY <1>1, <1>4, <1>6, <1>7, <1>8, <1>9, StepInv DEF RInv, Places

\* The interceptor answers: an error as an error, a response as it is.
LEMMA ReplyInv ==
  ASSUME IInv, NEW r \in Requests, Intercept(r) \/ Recover(r)
  PROVE  IInv'
<1> DEFINE Wires == [err : BOOLEAN, header : Codes, data : Datas]
           bad == [err |-> TRUE, header |-> "none", data |-> "none"]
           good == [err |-> FALSE, header |-> ReplyHeader(out[r]), data |-> out[r].data]
<1>1. /\ pc' = [pc EXCEPT ![r] = "replied"]
      /\ UNCHANGED <<chains, nodeVars, req, out, steady>>
      /\ \/ wire' = [wire EXCEPT ![r] = bad]
         \/ wire' = [wire EXCEPT ![r] = good] /\ pc[r] = "returned" /\ out[r].err = "nil"
  BY DEF Intercept, Recover, callVars
<1>2. bad \in Wires /\ good \in Wires
  <2>1. out[r] \in [err : Errors, header : Codes, data : Datas]
    BY DEF IInv, CallTypes
  <2>2. ReplyHeader(out[r]) \in Codes
    BY <2>1 DEF ReplyHeader, convertErr, Codes
  <2> QED
    BY <2>1, <2>2 DEF Codes, Datas
<1>3. CallTypes'
  <2>1. wire' \in [Requests -> Wires]
    <3> HIDE DEF bad, good
    <3> QED
      BY <1>1, <1>2 DEF IInv, CallTypes
  <2> QED
    BY <1>1, <2>1 DEF IInv, CallTypes, Places
<1>4. /\ pc'[r] = "replied" /\ out'[r] = out[r] /\ req'[r] = req[r] /\ LocksOf(r)' = LocksOf(r)
      /\ \/ wire'[r] = bad
         \/ wire'[r] = good /\ pc[r] = "returned" /\ out[r].err = "nil"
  BY <1>1 DEF IInv, CallTypes, LocksOf, nodeVars
<1>5. Reached(r)' /\ Locked(r)'
  BY <1>4 DEF IInv, RInv, Reached, Locked, Endorsed
<1>6. Delivered(r)'
  BY <1>1, <1>4 DEF IInv, RInv, Delivered, nodeVars
<1>7. \A q \in Requests \ {r} :
         req'[q] = req[q] /\ pc'[q] = pc[q] /\ out'[q] = out[q] /\ wire'[q] = wire[q]
  BY <1>1 DEF IInv, CallTypes
<1> QED
  BY <1>1, <1>3, <1>5, <1>6, <1>7, LocalInv DEF RInv

\* A panic leaves what was done.
LEMMA PanicsInv ==
  ASSUME IInv, NEW r \in Requests, Panics(r)
  PROVE  IInv'
<1>1. pc' = [pc EXCEPT ![r] = "panic"] /\ UNCHANGED <<chains, nodeVars, req, out, steady, wire>>
  BY DEF Panics, callVars
<1>2. pc'[r] = "panic" /\ LocksOf(r)' = LocksOf(r)
  BY <1>1 DEF IInv, CallTypes, LocksOf, nodeVars
<1>3. RInv(r)'
  BY <1>1, <1>2 DEF IInv, RInv, Reached, Locked, Delivered, Endorsed
<1>4. out' \in [Requests -> [err : Errors, header : Codes, data : Datas]]
  BY <1>1 DEF IInv, CallTypes
<1> QED
  BY <1>1, <1>3, <1>4, StepInv DEF Places

\* The locks of a request that is over belong to nobody.
LEMMA AnsweredInv ==
  ASSUME IInv, NEW r \in Requests, Answered(r)
  PROVE  IInv'
<1>1. NoOut \in [err : Errors, header : Codes, data : Datas]
      /\ NoReply \in [err : BOOLEAN, header : Codes, data : Datas] /\ NoRequest \in Inputs
  BY RpcAssumption DEF NoOut, NoReply, NoRequest, Errors, Codes, Datas
<1>2. CallTypes'
  BY <1>1 DEF IInv, CallTypes, Answered, Places
<1>3. NodeTypes' /\ Once'
  BY DEF IInv, NodeTypes, Once, Answered
<1>4. /\ pc'[r] = "idle" /\ out'[r] = NoOut
      /\ LocksOf(r)' = {} /\ \A q \in Requests \ {r} : LocksOf(q)' = LocksOf(q)
  BY DEF IInv, CallTypes, Answered, LocksOf
<1>5. RInv(r)'
  BY <1>4 DEF RInv, Reached, Locked, Delivered, NoOut
<1>6. ASSUME NEW q \in Requests \ {r} PROVE RInv(q)'
  <2>1. req'[q] = req[q] /\ pc'[q] = pc[q] /\ out'[q] = out[q] /\ wire'[q] = wire[q]
        /\ submitted' = submitted
    BY <1>6 DEF IInv, CallTypes, Answered
  <2> QED
    BY <1>4, <1>6, <2>1, OthersInv DEF IInv
<1> QED
  BY <1>2, <1>3, <1>5, <1>6 DEF IInv

\* A broadcast uses up what waits for it.
LEMMA SendMessageInv ==
  ASSUME IInv, NEW tx \in Txs, SendMessage(tx)
  PROVE  IInv'
<1>1. CallTypes'
  BY DEF IInv, CallTypes, SendMessage, callVars
<1>2. NodeTypes'
  BY DEF IInv, NodeTypes, SendMessage
<1>3. Once'
  BY DEF IInv, NodeTypes, Once, SendMessage
<1>4. ASSUME NEW q \in Requests PROVE RInv(q)'
  BY OthersInv DEF IInv, LocksOf, SendMessage, callVars
<1> QED
  BY <1>1, <1>2, <1>3, <1>4 DEF IInv

\* Chains that come and go change no call.
LEMMA ChainsInv ==
  ASSUME IInv, NEW c \in Chains, LoadChain(c) \/ StopChain(c)
  PROVE  IInv'
<1>1. UNCHANGED <<nodeVars, req, pc, out, wire>>
  BY DEF LoadChain, StopChain, callVars
<1>2. chains' \subseteq Chains /\ steady' \in [Requests -> SUBSET Chains]
  BY DEF IInv, CallTypes, LoadChain, StopChain, callVars
<1>3. CallTypes'
  BY <1>1, <1>2 DEF IInv, CallTypes
<1>4. NodeTypes' /\ Once'
  BY <1>1 DEF IInv, NodeTypes, Once, nodeVars
<1>5. ASSUME NEW q \in Requests PROVE RInv(q)'
  BY <1>1, OthersInv DEF IInv, LocksOf, nodeVars
<1> QED
  BY <1>3, <1>4, <1>5 DEF IInv

\* Every step keeps the invariant.
LEMMA NextInv == ASSUME IInv, [Next]_vars PROVE IInv'
<1>1. ASSUME NEW r \in Requests, Handler(r) PROVE IInv'
  BY <1>1, QueryInv, HandlePostTxInv, HandleSelectUTXOInv, WithPreExecInv, WithSelectUTXOInv,
     LoopsInv, EndorserBeginsInv, EndorserEndsInv DEF Handler
<1>2. CASE UNCHANGED vars
  <2>1. NodeTypes' /\ Once' /\ CallTypes'
    BY <1>2 DEF IInv, NodeTypes, Once, CallTypes, vars
  <2>2. ASSUME NEW q \in Requests PROVE RInv(q)'
    BY <1>2, OthersInv DEF IInv, LocksOf, vars
  <2> QED
    BY <2>1, <2>2 DEF IInv
<1> QED
  BY <1>1, <1>2, ReceiveInv, UndecodedInv, ReplyInv, PanicsInv, AnsweredInv, SendMessageInv,
     ChainsInv DEF Next

\* The inductive invariant holds in every reachable state.
LEMMA Inductive == Spec => []IInv
<1>1. Init => IInv
  BY InitInv
<1>2. IInv /\ [Next]_vars => IInv'
  BY NextInv
<1> QED
  BY <1>1, <1>2, PTL DEF Spec

---------------------------------------------------------------------------
(* Theorems.                                                               *)

\* Types, and that only the endorser sets a header of its own.
THEOREM TypesHold == Spec => []TypeOK
<1>1. IInv => TypeOK
  BY DEF IInv, NodeTypes, CallTypes, RInv, Reached, TypeOK, Places, Datas
<1> QED
  BY <1>1, Inductive, PTL

\* A client that sees success has what it asked for: whatever chains answer, and
\* although the endorser's failures carry a header that says SUCCESS.
THEOREM SuccessIsTrue == Spec => []NoFalseSuccess
<1>1. IInv => NoFalseSuccess
  <2>1. SUFFICES ASSUME IInv, NEW r \in Requests, Success(r)
                 PROVE  /\ Op(req[r]) \notin {"GetBlockChainStatus", "PreExec", "PreExecWithSelectUTXO"} =>
                              wire[r].data # "none"
                        /\ Op(req[r]) = "PostTx" /\ (Endorsed(r) => req[r].fee) => req[r].tx \in submitted
                        /\ Op(req[r]) \in {"SelectUTXO", "SelectUTXOBySize"} /\ req[r].lock =>
                              \E l \in locks : l[1] = r
    BY DEF NoFalseSuccess
  <2>2. out[r].err = "nil" /\ wire[r].data = out[r].data /\ pc[r] = "replied" /\ ~wire[r].err
    BY <2>1 DEF IInv, RInv, Delivered, Success
  <2>3. Done(req[r], out[r].data, submitted, LocksOf(r))
    BY <2>1, <2>2 DEF IInv, RInv, Delivered
  <2> QED
    BY <2>2, <2>3 DEF Done, LocksOf, Endorsed
<1> QED
  BY <1>1, Inductive, PTL

\* Outputs are locked only by a request that passed its checks, for the amount
\* the owner signed.
THEOREM LocksAreSigned == Spec => []LockedAsSigned
<1>1. IInv => LockedAsSigned
  BY DEF IInv, RInv, Locked, LocksOf, LockedAsSigned
<1> QED
  BY <1>1, Inductive, PTL

\* No transaction is broadcast twice, and none that was not accepted.
THEOREM BroadcastsAreSingle == Spec => []BroadcastOnce
<1>1. IInv => BroadcastOnce
  BY DEF IInv, NodeTypes, Once, BroadcastOnce
<1> QED
  BY <1>1, Inductive, PTL

\* An error of grpc is an error to every command and behind the gateway.
LEMMA ErrorViews ==
  ASSUME NEW r \in Requests, wire[r].err, NEW v \in Views(r)
  PROVE  v.shown = "error"
<1>1. Failure.shown = "error" /\ queryContracts(Failure).shown = "error"
  BY DEF Failure, View, queryContracts
<1>2. \A view : Invoke(wire[r], view) = Failure /\ Checked(wire[r], view) = Failure
  BY DEF Invoke, Checked
<1>3. \A status : GenPreExeRes(wire[r], status) = Failure
  BY <1>2 DEF GenPreExeRes
<1>4. \A method, names, bcs : \A x \in CommandViews(method, names, wire[r], bcs) :
         x = Failure \/ x = queryContracts(Failure)
  BY <1>2, <1>3 DEF CommandViews, queryBlock, queryBlockByHeight, queryTx, queryACL, queryAccount,
     queryBalance, queryContractStatData, queryUtxoRecords, getStatus, getNetURL, queryCandidates,
     queryCheckResult, queryNominateRecords, queryNomineeRecord, queryConsensusStatus,
     queryVoteRecords, queryVotedRecords, queryAccountContracts, queryAddressContracts,
     printXchainStatus, contractQuery, proposalQuery, governTokenQuery
<1>5. GatewayReply(wire[r]) = Failure
  BY <1>2 DEF GatewayReply
<1>6. v \in CommandViews(req[r].method, req[r].names, wire[r], list[r]) \/ v = GatewayReply(wire[r])
  BY DEF Views
<1> QED
  BY <1>1, <1>4, <1>5, <1>6

\* A call that failed in its handler is shown as an error, also by the commands
\* that never look at the header of the reply.
THEOREM FailuresAreShown == Spec => []FailureShown
<1>1. IInv => FailureShown
  <2>1. SUFFICES ASSUME IInv, NEW r \in Requests, pc[r] = "replied", out[r].err # "nil", NEW v \in Views(r)
                 PROVE  v.shown = "error"
    BY DEF FailureShown
  <2>2. wire[r].err
    BY <2>1 DEF IInv, RInv, Delivered
  <2> QED
    BY <2>1, <2>2, ErrorViews
<1> QED
  BY <1>1, Inductive, PTL

---------------------------------------------------------------------------
(* The loops over chains.                                                  *)

Names == Chains \cup {NoName}
Entries == [name : Names, code : Codes, data : Datas]
LoopOps == Balances \cup {"GetSystemStatus"}

\* The order in which a loop looks at chains: the one of the request, or one of
\* the engine's chains, among them those that are loaded all through the call
Plans(in, still) ==
    IF Op(in) \in Balances THEN {in.names}
    ELSE UNION {Orders(S) : S \in {T \in SUBSET Chains : still \subseteq T}}

\* What an entry says of the chain it stands for
EntryOf(in, e, c, still) ==
    IF Op(in) \in Balances
    THEN e.name = c /\ (e.code = "BLOCKCHAIN_NOTEXIST" => c \notin still)
    ELSE e.name = c \/ (e.name = NoName /\ e.data # "full")

\* The entries stand for the chains looked at so far; the others are still to do.
Follows(in, s, l, t, still) ==
    /\ Len(s) = Len(l) + Len(t)
    /\ \A i \in 1..Len(t) : t[i] = s[Len(l) + i]
    /\ \A i \in 1..Len(l) : EntryOf(in, l[i], s[i], still)
Visiting(in, l, t, still) == \E s \in Plans(in, still) : Follows(in, s, l, t, still)

LoopTypes == list \in [Requests -> Seq(Entries)] /\ todo \in [Requests -> Seq(Names)]

\* The loop's place, and what is left of it when it has returned
LInv(r) ==
    /\ steady[r] \subseteq chains
    /\ pc[r] \in {"endorser", "start"} => list[r] = <<>>
    /\ pc[r] = "loop" => Visiting(req[r], list[r], todo[r], steady[r])
    /\ pc[r] \in {"returned", "replied"} /\ Op(req[r]) \in LoopOps /\ out[r].err = "nil"
          /\ (pc[r] = "replied" => ~wire[r].err) =>
          out[r].data = "full" /\ Visiting(req[r], list[r], <<>>, steady[r])
    /\ pc[r] = "replied" /\ ~wire[r].err => wire[r].header # "none"

LoopInv == LoopTypes /\ \A r \in Requests : LInv(r)

\* A chain that is stopped meanwhile only makes the claim weaker.
LEMMA VisitingStops ==
  ASSUME NEW in, NEW l, NEW t, NEW still, NEW less, less \subseteq still,
         Visiting(in, l, t, still)
  PROVE  Visiting(in, l, t, less)
<1>1. PICK s \in Plans(in, still) : Follows(in, s, l, t, still)
  BY DEF Visiting
<1>2. s \in Plans(in, less)
  BY DEF Plans
<1>3. Follows(in, s, l, t, less)
  BY <1>1 DEF Follows, EntryOf
<1> QED
  BY <1>2, <1>3 DEF Visiting

\* A plan is a sequence of names.
LEMMA PlanIsSeq ==
  ASSUME NEW in \in Inputs, NEW still, NEW s \in Plans(in, still)
  PROVE  s \in Seq(Names)
<1>1. CASE Op(in) \in Balances
  BY <1>1, RpcAssumption DEF Plans, Names
<1>2. CASE Op(in) \notin Balances
  <2>1. PICK S \in SUBSET Chains : s \in Orders(S)
    BY <1>2 DEF Plans
  <2>2. Cardinality(S) \in Nat
    BY RpcAssumption, FS_Subset, FS_CardinalityType
  <2>3. s \in [1..Cardinality(S) -> Names]
    BY <2>1 DEF Orders, Names
  <2> QED
    BY <2>2, <2>3
<1> QED
  BY <1>1, <1>2

\* The engine's list of its chains leaves none out.
LEMMA OrderIsOnto ==
  ASSUME NEW S \in SUBSET Chains, NEW s \in Orders(S), NEW c \in S
  PROVE  /\ Cardinality(S) \in Nat /\ s \in [1..Cardinality(S) -> S]
         /\ \E i \in 1..Cardinality(S) : s[i] = c
<1> DEFINE n == Cardinality(S)
<1>1. IsFiniteSet(S) /\ n \in Nat
  BY RpcAssumption, FS_Subset, FS_CardinalityType
<1>2. s \in [1..n -> S] /\ \A i, j \in 1..n : s[i] = s[j] => i = j
  BY DEF Orders
<1>3. IsFiniteSet(S \ {c}) /\ Cardinality(S \ {c}) = n - 1
  BY <1>1, FS_RemoveElement
<1>4. IsFiniteSet(1..n) /\ Cardinality(1..n) = n
  BY <1>1, FS_Interval
<1>5. ASSUME \A i \in 1..n : s[i] # c PROVE FALSE
  <2>1. s \in [1..n -> S \ {c}]
    BY <1>2, <1>5
  <2>2. Cardinality(S \ {c}) < Cardinality(1..n)
    BY <1>1, <1>3, <1>4
  <2>3. \E x, y \in 1..n : x # y /\ s[x] = s[y]
    <3> DEFINE D == 1..n
               R == S \ {c}
    <3>1. IsFiniteSet(D) /\ IsFiniteSet(R) /\ Cardinality(R) < Cardinality(D) /\ s \in [D -> R]
      BY <1>3, <1>4, <2>1, <2>2
    <3> HIDE DEF D, R
    <3>2. \E x, y \in D : x # y /\ s[x] = s[y]
      BY <3>1, FS_PigeonHole
    <3> QED
      BY <3>2 DEF D
  <2> QED
    BY <2>3, <1>2
<1> QED
  BY <1>1, <1>2, <1>5

\* The loop before its first chain
LEMMA LoopStarts ==
  ASSUME NEW in \in Inputs, NEW still, NEW s \in Plans(in, still)
  PROVE  Visiting(in, <<>>, s, still)
<1>1. s \in Seq(Names)
  BY PlanIsSeq
<1>2. Follows(in, s, <<>>, s, still)
  BY <1>1 DEF Follows
<1> QED
  BY <1>2 DEF Visiting

\* The entry for the next chain
LEMMA LoopGoesOn ==
  ASSUME NEW in \in Inputs, NEW still, NEW l \in Seq(Entries), NEW t \in Seq(Names), t # <<>>,
         Visiting(in, l, t, still), NEW e \in Entries, EntryOf(in, e, Head(t), still)
  PROVE  Visiting(in, Append(l, e), Tail(t), still)
<1>1. PICK s \in Plans(in, still) : Follows(in, s, l, t, still)
  BY DEF Visiting
<1> DEFINE m == Append(l, e)
           u == Tail(t)
<1>2. /\ Len(m) = Len(l) + 1 /\ Len(l) \in Nat /\ m[Len(l) + 1] = e
      /\ \A i \in 1..Len(l) : m[i] = l[i]
  OBVIOUS
<1>3. /\ Len(u) = Len(t) - 1 /\ Len(t) \in Nat /\ Len(t) > 0 /\ Head(t) = t[1]
      /\ \A i \in 1..Len(u) : u[i] = t[i + 1]
  OBVIOUS
<1> HIDE DEF m, u
<1>4. Len(s) = Len(m) + Len(u)
  BY <1>1, <1>2, <1>3 DEF Follows
<1>5. \A i \in 1..Len(u) : u[i] = s[Len(m) + i]
  <2>1. SUFFICES ASSUME NEW i \in 1..Len(u) PROVE u[i] = s[Len(m) + i]
    OBVIOUS
  <2>2. u[i] = t[i + 1] /\ i + 1 \in 1..Len(t) /\ Len(l) + (i + 1) = Len(m) + i
    BY <1>2, <1>3
  <2> QED
    BY <2>2, <1>1 DEF Follows
<1>6. \A i \in 1..Len(m) : EntryOf(in, m[i], s[i], still)
  <2>1. t[1] = s[Len(l) + 1]
    BY <1>1, <1>3 DEF Follows
  <2>2. EntryOf(in, m[Len(l) + 1], s[Len(l) + 1], still)
    BY <2>1, <1>2, <1>3
  <2>3. \A i \in 1..Len(l) : EntryOf(in, m[i], s[i], still)
    BY <1>1, <1>2 DEF Follows
  <2>4. \A i \in 1..Len(m) : i \in 1..Len(l) \/ i = Len(l) + 1
    BY <1>2
  <2> QED
    BY <2>2, <2>3, <2>4
<1> QED
  BY <1>1, <1>4, <1>5, <1>6 DEF Visiting, Follows, m, u

\* A call of the endorser is no loop, and neither is one that QueryResults has
\* an answer for.
LEMMA NoLoops ==
  /\ \A in : in.method = "EndorserCall" => Op(in) \notin LoopOps
  /\ \A in : QueryResults(in) # {} => Op(in) \notin LoopOps
<1>1. \A in : in.method = "EndorserCall" => Op(in) \notin LoopOps
  BY DEF Op, LoopOps, Balances
<1>2. \A in : QueryResults(in) # {} => Op(in) \notin LoopOps
  BY DEF QueryResults, LoopOps, Balances
<1> QED
  BY <1>1, <1>2

\* What does not touch q leaves its loop as it is; a chain may stop.
LEMMA OthersLoop ==
  ASSUME NEW q \in Requests, LInv(q),
         req'[q] = req[q], pc'[q] = pc[q], out'[q] = out[q], wire'[q] = wire[q],
         list'[q] = list[q], todo'[q] = todo[q],
         steady'[q] \subseteq steady[q], steady'[q] \subseteq chains'
  PROVE  LInv(q)'
<1>1. pc'[q] = "loop" => Visiting(req'[q], list'[q], todo'[q], steady'[q])
  BY VisitingStops DEF LInv
<1>2. Visiting(req[q], list[q], <<>>, steady[q]) => Visiting(req'[q], list'[q], <<>>, steady'[q])
  BY VisitingStops
<1> QED
  BY <1>1, <1>2 DEF LInv

\* A step of r that leaves the chains alone
LEMMA LoopLocal ==
  ASSUME LoopInv, NEW r \in Requests, UNCHANGED chains, LoopTypes', LInv(r)',
         \A q \in Requests \ {r} :
            /\ req'[q] = req[q] /\ pc'[q] = pc[q] /\ out'[q] = out[q] /\ wire'[q] = wire[q]
            /\ list'[q] = list[q] /\ todo'[q] = todo[q] /\ steady'[q] = steady[q]
  PROVE  LoopInv'
<1>1. ASSUME NEW q \in Requests \ {r} PROVE LInv(q)'
  <2>1. LInv(q) /\ q \in Requests
    BY <1>1 DEF LoopInv
  <2>2. steady'[q] \subseteq steady[q] /\ steady'[q] \subseteq chains'
    BY <1>1, <2>1 DEF LInv
  <2> QED
    BY <1>1, <2>1, <2>2, OthersLoop
<1> QED
  BY <1>1 DEF LoopInv

\* A step of r within its call that is none of the loop
LEMMA LoopQuiet ==
  ASSUME LoopInv, IInv, NEW r \in Requests, UNCHANGED <<chains, callVars, wire>>,
         \A q \in Requests \ {r} : pc'[q] = pc[q] /\ out'[q] = out[q],
         \/ pc'[r] \in {"endorse", "select", "panic"}
         \/ pc'[r] = "returned" /\ (Op(req[r]) \notin LoopOps \/ out'[r].err # "nil")
         \/ pc'[r] = "start" /\ pc[r] = "endorser"
  PROVE  LoopInv'
<1>1. LoopTypes'
  BY DEF LoopInv, LoopTypes, callVars
<1>2. LInv(r)'
  BY DEF LoopInv, LInv, callVars
<1> QED
  BY <1>1, <1>2, LoopLocal DEF callVars

\* Return writes the result and the place of r only.
LEMMA ReturnWrites ==
  ASSUME IInv, NEW r \in Requests, NEW res, Return(r, res)
  PROVE  /\ \A q \in Requests \ {r} : pc'[q] = pc[q] /\ out'[q] = out[q]
         /\ pc'[r] = IF Endorsed(r) THEN "endorse" ELSE "returned"
         /\ out'[r].err = res.err /\ out'[r].data = res.data
  BY DEF IInv, CallTypes, Return

\* The handlers of one chain call, and of two
LEMMA HandlersLoop ==
  ASSUME LoopInv, IInv, NEW r \in Requests,
         Query(r) \/ HandlePostTx(r) \/ HandleSelectUTXO(r) \/ WithPreExec(r) \/ WithSelectUTXO(r)
  PROVE  LoopInv'
<1>1. UNCHANGED <<chains, callVars, wire>> /\ Op(req[r]) \notin LoopOps
  <2>1. CASE Query(r)
    BY <2>1, NoLoops DEF Query
  <2>2. CASE HandlePostTx(r) \/ HandleSelectUTXO(r) \/ WithPreExec(r)
    BY <2>2 DEF HandlePostTx, HandleSelectUTXO, WithPreExec, LoopOps, Balances
  <2>3. CASE WithSelectUTXO(r)
    BY <2>3 DEF WithSelectUTXO, IInv, RInv, Reached, LoopOps, Balances
  <2> QED
    BY <2>1, <2>2, <2>3
<1>2. \/ \E res : Return(r, res)
      \/ /\ pc' = [pc EXCEPT ![r] = "select"]
         /\ \E d : out' = [out EXCEPT ![r].data = d]
  BY DEF Query, HandlePostTx, HandleSelectUTXO, WithPreExec, WithSelectUTXO
<1>3. CASE \E res : Return(r, res)
  BY <1>1, <1>3, ReturnWrites, LoopQuiet
<1>4. CASE pc' = [pc EXCEPT ![r] = "select"] /\ \E d : out' = [out EXCEPT ![r].data = d]
  <2>1. pc'[r] = "select" /\ \A q \in Requests \ {r} : pc'[q] = pc[q] /\ out'[q] = out[q]
    BY <1>4 DEF IInv, CallTypes
  <2> QED
    BY <1>1, <2>1, LoopQuiet
<1> QED
  BY <1>2, <1>3, <1>4

\* The endorser, and a panic
LEMMA EndorserLoop ==
  ASSUME LoopInv, IInv, NEW r \in Requests, EndorserBegins(r) \/ EndorserEnds(r) \/ Panics(r)
  PROVE  LoopInv'
<1>1. UNCHANGED <<chains, callVars, wire>>
  BY DEF EndorserBegins, EndorserEnds, Panics
<1>2. CASE Panics(r)
  <2>1. pc'[r] = "panic" /\ \A q \in Requests \ {r} : pc'[q] = pc[q] /\ out'[q] = out[q]
    BY <1>2 DEF IInv, CallTypes, Panics
  <2> QED
    BY <1>1, <2>1, LoopQuiet
<1>3. CASE EndorserBegins(r) \/ EndorserEnds(r)
  <2>1. pc[r] \in {"endorser", "endorse"} /\ Op(req[r]) \notin LoopOps
    BY <1>3, NoLoops DEF IInv, RInv, Reached, Endorsed, EndorserBegins, EndorserEnds
  <2>2. \/ \E res : Return(r, res)
        \/ \E e, header, data : Endorse(r, e, header, data)
        \/ /\ pc[r] = "endorser" /\ UNCHANGED out
           /\ \E p \in {"start", "panic"} : pc' = [pc EXCEPT ![r] = p]
    BY <1>3 DEF EndorserBegins, EndorserEnds
  <2>3. CASE \E res : Return(r, res)
    BY <1>1, <2>1, <2>3, ReturnWrites, LoopQuiet
  <2>4. CASE \E e, header, data : Endorse(r, e, header, data)
    <3>1. pc'[r] = "returned" /\ \A q \in Requests \ {r} : pc'[q] = pc[q] /\ out'[q] = out[q]
      BY <2>4 DEF IInv, CallTypes, Endorse
    <3> QED
      BY <1>1, <2>1, <3>1, LoopQuiet
  <2>5. CASE pc[r] = "endorser" /\ UNCHANGED out /\ \E p \in {"start", "panic"} : pc' = [pc EXCEPT ![r] = p]
    <3>1. pc'[r] \in {"start", "panic"} /\ \A q \in Requests \ {r} : pc'[q] = pc[q] /\ out'[q] = out[q]
      BY <2>5 DEF IInv, CallTypes
    <3> QED
      BY <1>1, <2>5, <3>1, LoopQuiet
  <2> QED
    BY <2>2, <2>3, <2>4, <2>5
<1> QED
  BY <1>2, <1>3

\* A request arrives, or does not decode, or is over.
LEMMA CallLoop ==
  ASSUME LoopInv, IInv, NEW r \in Requests,
         (\E in \in Inputs : Receive(r, in) \/ Undecoded(r, in)) \/ Answered(r)
  PROVE  LoopInv'
<1>1. <<>> \in Seq(Entries) /\ <<>> \in Seq(Names)
  OBVIOUS
<1>2. LoopTypes'
  BY <1>1 DEF LoopInv, LoopTypes, Receive, Undecoded, Answered
<1>3. LInv(r)'
  <2>1. CASE \E in \in Inputs : Receive(r, in)
    BY <2>1 DEF Receive, LoopInv, LInv, LoopTypes, IInv, CallTypes
  <2>2. CASE \E in \in Inputs : Undecoded(r, in)
    BY <2>2 DEF Undecoded, LoopInv, LInv, IInv, CallTypes
  <2>3. CASE Answered(r)
    BY <2>3 DEF Answered, LInv, IInv, CallTypes
  <2> QED
    BY <2>1, <2>2, <2>3
<1>4. \A q \in Requests \ {r} :
         /\ req'[q] = req[q] /\ pc'[q] = pc[q] /\ out'[q] = out[q] /\ wire'[q] = wire[q]
         /\ list'[q] = list[q] /\ todo'[q] = todo[q] /\ steady'[q] = steady[q]
  BY DEF LoopInv, LoopTypes, IInv, CallTypes, Receive, Undecoded, Answered
<1>5. UNCHANGED chains
  BY DEF Receive, Undecoded, Answered
<1> QED
  BY <1>2, <1>3, <1>4, <1>5, LoopLocal

\* The loop starts, with the chains of the request or those of the engine.
LEMMA BeginLoop ==
  ASSUME LoopInv, IInv, NEW r \in Requests, BeginBalances(r) \/ BeginSystemStatus(r)
  PROVE  LoopInv'
<1>1. CASE BeginBalances(r) /\ ~req[r].valid
  <2>1. Return(r, Fails("param")) /\ UNCHANGED <<chains, callVars, wire>> /\ Fails("param").err # "nil"
    BY <1>1, ResultForms DEF BeginBalances, callVars, Errors
  <2> QED
    BY <2>1, ReturnWrites, LoopQuiet
<1>2. CASE (BeginBalances(r) /\ req[r].valid) \/ BeginSystemStatus(r)
  <2>1. req[r] \in Inputs /\ list[r] = <<>> /\ steady[r] \subseteq chains /\ chains \subseteq Chains
    BY <1>2 DEF BeginBalances, BeginSystemStatus, LoopInv, LInv, IInv, CallTypes
  <2>2. PICK s \in Plans(req[r], steady[r]) : todo' = [todo EXCEPT ![r] = s]
    <3>1. CASE BeginBalances(r) /\ req[r].valid
      BY <3>1 DEF BeginBalances, Plans
    <3>2. CASE BeginSystemStatus(r)
      <4>1. PICK s \in Orders(chains) : todo' = [todo EXCEPT ![r] = s]
        BY <3>2 DEF BeginSystemStatus
      <4>2. Op(req[r]) \notin Balances
        BY <3>2 DEF BeginSystemStatus, Balances
      <4>3. s \in Plans(req[r], steady[r])
        BY <2>1, <4>1, <4>2 DEF Plans
      <4> QED
        BY <4>1, <4>3
    <3> QED
      BY <1>2, <3>1, <3>2
  <2>3. s \in Seq(Names) /\ Visiting(req[r], <<>>, s, steady[r])
    BY <2>1, PlanIsSeq, LoopStarts
  <2>4. UNCHANGED <<chains, nodeVars, req, out, list, steady, wire>> /\ pc' = [pc EXCEPT ![r] = "loop"]
    BY <1>2 DEF BeginBalances, BeginSystemStatus
  <2>5. LoopTypes'
    BY <2>2, <2>3, <2>4 DEF LoopInv, LoopTypes
  <2>6. /\ pc'[r] = "loop" /\ todo'[r] = s
        /\ \A q \in Requests \ {r} : pc'[q] = pc[q] /\ todo'[q] = todo[q]
    BY <2>2, <2>4 DEF LoopInv, LoopTypes, IInv, CallTypes
  <2>7. LInv(r)'
    BY <2>1, <2>3, <2>4, <2>6 DEF LInv
  <2> QED
    BY <2>4, <2>5, <2>6, <2>7, LoopLocal
<1> QED
  BY <1>1, <1>2

\* Each turn of the loop adds the entry of its chain.
LEMMA TurnLoop ==
  ASSUME LoopInv, IInv, NEW r \in Requests, Loop(r)
  PROVE  LoopInv'
<1> DEFINE c == Head(todo[r])
<1>1. PICK e \in IF Op(req[r]) \in Balances THEN BalanceEntries(req[r], c) ELSE StatusEntries(c) :
         list' = [list EXCEPT ![r] = Append(@, e)]
  BY DEF Loop
<1>2. /\ pc[r] = "loop" /\ todo[r] # <<>> /\ todo' = [todo EXCEPT ![r] = Tail(@)]
      /\ UNCHANGED <<chains, nodeVars, req, pc, out, steady, wire>>
  BY DEF Loop
<1>3. /\ req[r] \in Inputs /\ list[r] \in Seq(Entries) /\ todo[r] \in Seq(Names)
      /\ steady[r] \subseteq chains /\ Visiting(req[r], list[r], todo[r], steady[r])
  BY <1>2 DEF LoopInv, LoopTypes, LInv, IInv, CallTypes
<1>4. c \in Names
  BY <1>2, <1>3
<1> HIDE DEF c
<1>5. e \in Entries /\ EntryOf(req[r], e, c, steady[r])
  <2>1. CASE Op(req[r]) \in Balances
    <3>1. \/ e = Entry(c, "BLOCKCHAIN_NOTEXIST", "none") /\ c \notin chains
          \/ e \in {Entry(c, "SUCCESS", "full"), Entry(c, "UNKNOW_ERROR", "none"), Entry(c, "SUCCESS", "none")}
      BY <1>1, <2>1 DEF BalanceEntries
    <3> QED
      BY <1>3, <1>4, <2>1, <3>1 DEF Entry, Entries, EntryOf, Codes, Datas
  <2>2. CASE Op(req[r]) \notin Balances
    <3>1. e \in {Entry(c, "none", "full"), Entry(NoName, "none", "none")}
      BY <1>1, <2>2 DEF StatusEntries
    <3> QED
      BY <1>4, <2>2, <3>1 DEF Entry, Entries, EntryOf, Codes, Datas, Names
  <2> QED
    BY <2>1, <2>2
<1>6. /\ Append(list[r], e) \in Seq(Entries) /\ Tail(todo[r]) \in Seq(Names)
      /\ Visiting(req[r], Append(list[r], e), Tail(todo[r]), steady[r])
  <2>1. Append(list[r], e) \in Seq(Entries) /\ Tail(todo[r]) \in Seq(Names)
    BY <1>2, <1>3, <1>5
  <2>2. EntryOf(req[r], e, Head(todo[r]), steady[r])
    BY <1>5 DEF c
  <2> QED
    BY <1>2, <1>3, <1>5, <2>1, <2>2, LoopGoesOn
<1>7. LoopTypes'
  BY <1>1, <1>2, <1>6 DEF LoopInv, LoopTypes
<1>8. /\ list'[r] = Append(list[r], e) /\ todo'[r] = Tail(todo[r])
      /\ \A q \in Requests \ {r} : list'[q] = list[q] /\ todo'[q] = todo[q]
  BY <1>1, <1>2 DEF LoopInv, LoopTypes
<1>9. LInv(r)'
  BY <1>2, <1>3, <1>6, <1>8 DEF LInv
<1> QED
  BY <1>2, <1>7, <1>8, <1>9, LoopLocal

\* It ends when no chain is left, and not before.
LEMMA EndLoop ==
  ASSUME LoopInv, IInv, NEW r \in Requests, LoopEnds(r)
  PROVE  LoopInv'
<1>1. /\ pc[r] = "loop" /\ todo[r] = <<>> /\ Return(r, Full) /\ UNCHANGED <<chains, nodeVars, callVars, wire>>
  BY DEF LoopEnds
<1>2. /\ \A q \in Requests \ {r} : pc'[q] = pc[q] /\ out'[q] = out[q]
      /\ pc'[r] \in {"endorse", "returned"} /\ out'[r].data = "full"
  BY <1>1, ReturnWrites, ResultForms
<1>3. LoopTypes'
  BY <1>1 DEF LoopInv, LoopTypes, callVars
<1>4. LInv(r)'
  BY <1>1, <1>2 DEF LoopInv, LInv, callVars
<1> QED
  BY <1>1, <1>2, <1>3, <1>4, LoopLocal DEF callVars

\* The reply has a header, and the list as it is.
LEMMA ReplyLoop ==
  ASSUME LoopInv, IInv, NEW r \in Requests, Intercept(r) \/ Recover(r)
  PROVE  LoopInv'
<1> DEFINE bad == [err |-> TRUE, header |-> "none", data |-> "none"]
           good == [err |-> FALSE, header |-> ReplyHeader(out[r]), data |-> out[r].data]
<1>1. /\ pc' = [pc EXCEPT ![r] = "replied"] /\ UNCHANGED <<chains, nodeVars, callVars, out>>
      /\ \/ wire' = [wire EXCEPT ![r] = bad]
         \/ wire' = [wire EXCEPT ![r] = good] /\ pc[r] = "returned" /\ out[r].err = "nil"
  BY DEF Intercept, Recover
<1>2. good.header # "none" \/ out[r].err # "nil"
  BY DEF ReplyHeader, convertErr
<1>3. /\ pc'[r] = "replied"
      /\ wire'[r].err \/ (~wire'[r].err /\ wire'[r].header # "none" /\ pc[r] = "returned" /\ out[r].err = "nil")
      /\ \A q \in Requests \ {r} : pc'[q] = pc[q] /\ wire'[q] = wire[q]
  BY <1>1, <1>2 DEF IInv, CallTypes
<1>4. LoopTypes'
  BY <1>1 DEF LoopInv, LoopTypes, callVars
<1>5. LInv(r)'
  BY <1>1, <1>3 DEF LoopInv, LInv, callVars
<1> QED
  BY <1>1, <1>3, <1>4, <1>5, LoopLocal DEF callVars

\* Broadcasts, and chains that come and go
LEMMA WorldLoop ==
  ASSUME LoopInv, IInv,
         \/ \E tx \in Txs : SendMessage(tx)
         \/ \E c \in Chains : LoadChain(c) \/ StopChain(c)
         \/ UNCHANGED vars
  PROVE  LoopInv'
<1>1. UNCHANGED <<req, todo, list, pc, out, wire>>
  BY DEF SendMessage, LoadChain, StopChain, callVars, vars
<1>2. ASSUME NEW q \in Requests PROVE steady'[q] \subseteq steady[q] /\ steady'[q] \subseteq chains'
  BY <1>2 DEF LoopInv, LInv, SendMessage, LoadChain, StopChain, callVars, vars
<1>3. ASSUME NEW q \in Requests PROVE LInv(q)'
  BY <1>1, <1>2, <1>3, OthersLoop DEF LoopInv
<1> QED
  BY <1>1, <1>3 DEF LoopInv, LoopTypes

\* The invariant of the loops holds in every reachable state.
LEMMA LoopInductive == Spec => []LoopInv
<1>1. Init => LoopInv
  BY DEF Init, LoopInv, LoopTypes, LInv
<1>2. LoopInv /\ IInv /\ [Next]_vars => LoopInv'
  <2>1. SUFFICES ASSUME LoopInv, IInv, [Next]_vars PROVE LoopInv'
    OBVIOUS
  <2>2. ASSUME NEW r \in Requests, Handler(r) PROVE LoopInv'
    BY <2>1, <2>2, HandlersLoop, BeginLoop, TurnLoop, EndLoop, EndorserLoop DEF Handler
  <2> QED
    BY <2>1, <2>2, CallLoop, ReplyLoop, EndorserLoop, WorldLoop DEF Next
<1> QED
  BY <1>1, <1>2, Inductive, PTL DEF Spec

---------------------------------------------------------------------------
(* What the loops and their readers show.                                 *)

\* A finished loop over the engine's chains: the chains without an entry are no
\* more than the entries without a name.
LEMMA StatusCounts ==
  ASSUME NEW in \in Inputs, Op(in) = "GetSystemStatus", NEW l \in Seq(Entries),
         NEW still \in SUBSET Chains, Visiting(in, l, <<>>, still)
  PROVE  Cardinality(still \ {l[i].name : i \in DOMAIN l})
            <= Cardinality({i \in DOMAIN l : l[i].name = NoName})
<1> DEFINE missing == still \ {l[i].name : i \in DOMAIN l}
           blank == {i \in DOMAIN l : l[i].name = NoName}
<1>1. PICK s \in Plans(in, still) : Follows(in, s, l, <<>>, still)
  BY DEF Visiting
<1>2. Op(in) \notin Balances
  BY DEF Balances
<1>3. PICK S \in SUBSET Chains : still \subseteq S /\ s \in Orders(S)
  BY <1>2 DEF Plans
<1>4. s \in Seq(Names) /\ Len(s) = Len(l) /\ DOMAIN l = 1..Len(l) /\ DOMAIN s = 1..Len(l) /\ Len(l) \in Nat
  BY <1>1, PlanIsSeq DEF Follows
<1>5. \A c \in missing : \E i \in blank : s[i] = c
  <2>1. SUFFICES ASSUME NEW c \in missing PROVE \E i \in blank : s[i] = c
    OBVIOUS
  <2>2. PICK i \in 1..Cardinality(S) : s[i] = c
    BY <1>3, OrderIsOnto
  <2>3. i \in 1..Len(l)
    BY <1>3, <1>4, <2>2 DEF Orders
  <2>4. l[i].name = c \/ l[i].name = NoName
    BY <1>1, <1>2, <2>2, <2>3 DEF Follows, EntryOf
  <2>5. l[i].name # c
    BY <1>4, <2>3
  <2> QED
    BY <1>4, <2>2, <2>3, <2>4, <2>5
<1> DEFINE f == [c \in missing |-> CHOOSE i \in blank : s[i] = c]
<1>6. \A c \in missing : f[c] \in blank /\ s[f[c]] = c
  <2>1. SUFFICES ASSUME NEW c \in missing PROVE f[c] \in blank /\ s[f[c]] = c
    OBVIOUS
  <2>2. f[c] = CHOOSE i \in blank : s[i] = c
    BY DEF f
  <2> QED
    BY <1>5, <2>2
<1>7. f \in Injection(missing, blank)
  <2>1. f \in [missing -> blank]
    BY <1>6
  <2>2. \A a, b \in missing : f[a] = f[b] => a = b
    BY <1>6
  <2> HIDE DEF f, missing, blank
  <2> QED
    BY <2>1, <2>2 DEF Injection, IsInjective
<1>8. IsFiniteSet(blank)
  <2>1. IsFiniteSet(1..Len(l))
    BY <1>4, FS_Interval
  <2>2. blank \in SUBSET (1..Len(l))
    BY <1>4
  <2> HIDE DEF blank
  <2> QED
    BY <2>1, <2>2, FS_Subset
<1> HIDE DEF f, missing, blank
<1>9. Cardinality(missing) <= Cardinality(blank)
  BY <1>7, <1>8, FS_Injection
<1> QED
  BY <1>9 DEF missing, blank

\* A finished loop that has an entry with the status of as many chains as there
\* can be has one for each.
LEMMA StatusOfAll ==
  ASSUME NEW in \in Inputs, Op(in) = "GetSystemStatus", NEW l \in Seq(Entries),
         NEW still \in SUBSET Chains, Visiting(in, l, <<>>, still),
         ~(Len(l) < Cardinality(Chains)), \A i \in DOMAIN l : l[i].data = "full",
         NEW c \in Chains
  PROVE  \E i \in DOMAIN l : l[i].name = c
<1>1. PICK s \in Plans(in, still) : Follows(in, s, l, <<>>, still)
  BY DEF Visiting
<1>2. Op(in) \notin Balances
  BY DEF Balances
<1>3. PICK S \in SUBSET Chains : s \in Orders(S)
  BY <1>2 DEF Plans
<1>4. s \in Seq(Names) /\ Len(s) = Len(l) /\ DOMAIN l = 1..Len(l) /\ DOMAIN s = 1..Len(l) /\ Len(l) \in Nat
  BY <1>1, PlanIsSeq DEF Follows
<1>5. IsFiniteSet(S) /\ Cardinality(S) \in Nat /\ Cardinality(Chains) \in Nat
      /\ Cardinality(S) <= Cardinality(Chains) /\ (Cardinality(S) = Cardinality(Chains) => S = Chains)
  BY RpcAssumption, FS_Subset, FS_CardinalityType
<1>6. 1..Cardinality(S) = 1..Len(l)
  BY <1>3, <1>4 DEF Orders
<1>7. Cardinality(S) = Len(l)
  BY <1>4, <1>5, <1>6
<1>8. c \in S
  BY <1>4, <1>5, <1>7
<1>9. PICK i \in 1..Cardinality(S) : s[i] = c
  BY <1>3, <1>8, OrderIsOnto
<1>10. EntryOf(in, l[i], s[i], still)
  BY <1>1, <1>6, <1>9 DEF Follows
<1> QED
  BY <1>2, <1>4, <1>6, <1>9, <1>10 DEF EntryOf

\* The loops look at every chain asked for, in order; a chain is said not to
\* exist only if it was not loaded all through the call.
THEOREM LoopsAreComplete == Spec => []LoopsComplete
<1>1. IInv /\ LoopInv => LoopsComplete
  <2>1. SUFFICES ASSUME IInv, LoopInv, NEW r \in Requests, pc[r] = "returned", out[r].err = "nil"
                 PROVE  /\ Op(req[r]) \in Balances =>
                             /\ [i \in DOMAIN list[r] |-> list[r][i].name] = req[r].names
                             /\ \A i \in DOMAIN list[r] :
                                   list[r][i].code = "BLOCKCHAIN_NOTEXIST" => list[r][i].name \notin steady[r]
                        /\ Op(req[r]) = "GetSystemStatus" =>
                             Cardinality(steady[r] \ {list[r][i].name : i \in DOMAIN list[r]})
                                <= Cardinality({i \in DOMAIN list[r] : list[r][i].name = NoName})
    BY DEF LoopsComplete
  <2>2. req[r] \in Inputs /\ list[r] \in Seq(Entries) /\ steady[r] \in SUBSET Chains
    BY <2>1 DEF IInv, CallTypes, LoopInv, LoopTypes
  <2>3. Op(req[r]) \in LoopOps => Visiting(req[r], list[r], <<>>, steady[r])
    BY <2>1 DEF LoopInv, LInv
  <2>4. ASSUME Op(req[r]) \in Balances
        PROVE  /\ [i \in DOMAIN list[r] |-> list[r][i].name] = req[r].names
               /\ \A i \in DOMAIN list[r] :
                     list[r][i].code = "BLOCKCHAIN_NOTEXIST" => list[r][i].name \notin steady[r]
    <3> DEFINE n == req[r].names
               l == list[r]
    <3>1. Follows(req[r], n, l, <<>>, steady[r])
      BY <2>3, <2>4 DEF Visiting, Plans, LoopOps
    <3>2. n \in Seq(Names)
      BY <2>2, RpcAssumption DEF Names
    <3>3. Len(n) = Len(l) /\ DOMAIN l = 1..Len(l) /\ DOMAIN n = 1..Len(l)
      BY <2>2, <3>1, <3>2 DEF Follows
    <3>4. \A i \in 1..Len(l) : l[i].name = n[i] /\ (l[i].code = "BLOCKCHAIN_NOTEXIST" => n[i] \notin steady[r])
      BY <2>4, <3>1 DEF Follows, EntryOf
    <3>5. n = [i \in DOMAIN n |-> n[i]]
      BY <3>2
    <3> HIDE DEF n, l
    <3>6. [i \in DOMAIN l |-> l[i].name] = n
      BY <3>3, <3>4, <3>5
    <3> QED
      BY <3>3, <3>4, <3>6 DEF n, l
  <2>5. Op(req[r]) = "GetSystemStatus" =>
           Cardinality(steady[r] \ {list[r][i].name : i \in DOMAIN list[r]})
              <= Cardinality({i \in DOMAIN list[r] : list[r][i].name = NoName})
    BY <2>2, <2>3, StatusCounts DEF LoopOps
  <2> QED
    BY <2>4, <2>5
<1> QED
  BY <1>1, Inductive, LoopInductive, PTL

\* The view of a reply that is read without its list
LEMMA PlainViews ==
  ASSUME NEW w, ~w.err, w.header # "none", w.data \in Datas
  PROVE  /\ Shown(w.data).shown \in {"result", "nothing"}
         /\ Shown(w.data).shown = "result" <=> w.data = "full"
         /\ Failure.shown = "error"
         /\ \A view : Invoke(w, view) = view /\ Checked(w, view) \in {Failure, view}
         /\ \A view : queryContracts(view) = view \/ queryContracts(view).shown = "error"
<1>1. \A view : Invoke(w, view) = view /\ Checked(w, view) \in {Failure, view}
  BY DEF Invoke, Checked
<1>2. \A view : queryContracts(view) = view \/ queryContracts(view).shown = "error"
  BY DEF queryContracts, View
<1> QED
  BY <1>1, <1>2 DEF Shown, View, Failure, Datas

\* What a command makes of a reply without an error: an error, or whether the
\* reply holds the result; two look into its list, one panics on a response that
\* is lost and two on a block without SignInfos.
ViewForm(method, names, w, bcs, v) ==
    \/ v.shown = "error"
    \/ v = Shown(w.data)
    \/ method = "PreExec" /\ w.data = "none" /\ v = Panic
    \/ method \in {"GetBlock", "GetBlockByHeight"} /\ w.data = "full" /\ v = Panic
    \/ /\ method \in {"GetBalance", "GetFrozenBalance"} /\ Len(names) = 1
       /\ v = IF bcs = <<>> THEN Panic ELSE Shown(bcs[1].data)
    \/ /\ method = "GetSystemStatus"
       /\ \E c \in Chains, flag \in StatusFlags, fresh \in SUBSET Chains :
             v = extractSpecificInfo(w.data, FromSystemStatusPB(bcs, c), flag, fresh)

\* Every command does that.
LEMMA ViewForms ==
  ASSUME NEW method, NEW names, NEW w, ~w.err, w.header # "none", w.data \in Datas, NEW bcs,
         NEW v \in CommandViews(method, names, w, bcs)
  PROVE  ViewForm(method, names, w, bcs, v)
<1> DEFINE Plain(x) == x.shown = "error" \/ x = Shown(w.data)
<1>1. \A view : Invoke(w, view) = view /\ Checked(w, view) \in {Failure, view}
  BY PlainViews
<1>2. Failure.shown = "error"
  BY DEF Failure, View
<1>3. \A written : Plain(queryTx(w, written))
  BY <1>1, <1>2 DEF queryTx, FromPBTx
<1>4. Plain(queryACL(w)) /\ Plain(queryAccount(w)) /\ Plain(queryContractStatData(w))
  BY <1>1, <1>2 DEF queryACL, queryAccount, queryContractStatData
<1>5. /\ Plain(queryUtxoRecords(w)) /\ Plain(getStatus(w)) /\ Plain(getNetURL(w))
      /\ Plain(queryCandidates(w)) /\ Plain(queryCheckResult(w)) /\ Plain(queryNominateRecords(w))
      /\ Plain(queryNomineeRecord(w)) /\ Plain(queryConsensusStatus(w)) /\ Plain(queryVoteRecords(w))
      /\ Plain(queryVotedRecords(w))
  BY <1>1, <1>2 DEF queryUtxoRecords, getStatus, getNetURL, queryCandidates, queryCheckResult,
     queryNominateRecords, queryNomineeRecord, queryConsensusStatus, queryVoteRecords, queryVotedRecords
<1>6. /\ Plain(queryContracts(queryAccountContracts(w)))
      /\ Plain(queryContracts(queryAddressContracts(w)))
  BY <1>1, PlainViews DEF queryAccountContracts, queryAddressContracts
<1>7. \A status : Plain(GenPreExeRes(w, status)) \/ (w.data = "none" /\ GenPreExeRes(w, status) = Panic)
  BY <1>1, <1>2 DEF GenPreExeRes
<1>8. queryBalance(w, bcs) \in {Failure, IF bcs = <<>> THEN Panic ELSE Shown(bcs[1].data)}
  BY <1>1 DEF queryBalance
<1>9. \A c, flag, fresh : printXchainStatus(w, bcs, c, flag, fresh)
                             \in {Failure, extractSpecificInfo(w.data, FromSystemStatusPB(bcs, c), flag, fresh)}
  BY <1>1 DEF printXchainStatus
<1>11. \A signed : /\ Plain(queryBlock(w, signed)) \/ (w.data = "full" /\ queryBlock(w, signed) = Panic)
                   /\ Plain(queryBlockByHeight(w, signed))
                         \/ (w.data = "full" /\ queryBlockByHeight(w, signed) = Panic)
  BY <1>1, <1>2 DEF queryBlock, queryBlockByHeight, FromInternalBlockPB
<1> HIDE DEF Plain
<1>10. \/ Plain(v)
       \/ method \in {"GetBlock", "GetBlockByHeight"} /\ w.data = "full" /\ v = Panic
       \/ method = "PreExec" /\ \E status : v = GenPreExeRes(w, status)
       \/ method \in {"GetBalance", "GetFrozenBalance"} /\ Len(names) = 1 /\ v = queryBalance(w, bcs)
       \/ /\ method = "GetSystemStatus"
          /\ \E c \in Chains, flag \in StatusFlags, fresh \in SUBSET Chains :
                v = printXchainStatus(w, bcs, c, flag, fresh)
  BY <1>3, <1>4, <1>5, <1>6, <1>11 DEF CommandViews, contractQuery, proposalQuery, governTokenQuery
<1> QED
  BY <1>2, <1>7, <1>8, <1>9, <1>10 DEF Plain, ViewForm

\* With the status of every chain, whichever was asked for is shown.
LEMMA StatusShown ==
  ASSUME NEW in \in Inputs, Op(in) = "GetSystemStatus", NEW l \in Seq(Entries),
         NEW still \in SUBSET Chains, Visiting(in, l, <<>>, still),
         ~(Len(l) < Cardinality(Chains)), \A i \in DOMAIN l : l[i].data = "full",
         NEW c \in Chains, NEW flag, NEW fresh
  PROVE  extractSpecificInfo("full", FromSystemStatusPB(l, c), flag, fresh).shown # "nothing"
<1> DEFINE entries == FromSystemStatusPB(l, c)
<1>1. PICK i \in DOMAIN l : l[i].name = c
  BY StatusOfAll
<1>2. l[i] \in entries /\ \A e \in entries : e.data = "full"
  BY <1>1 DEF FromSystemStatusPB
<1> HIDE DEF entries
<1>3. extractSpecificInfo("full", entries, flag, fresh) \in {View(TRUE, "unprintable"), Shown("full")}
  BY <1>2 DEF extractSpecificInfo
<1> QED
  BY <1>3 DEF View, Shown, entries

\* A list of one entry has a first one.
LEMMA OneEntry ==
  ASSUME NEW S, NEW l \in Seq(S), Len(l) = 1
  PROVE  l # <<>> /\ 1 \in DOMAIN l
<1>1. Len(<<>>) = 0
  OBVIOUS
<1>2. l # <<>>
  BY <1>1
<1>3. DOMAIN l = 1..1
  OBVIOUS
<1>4. 1 \in 1..1
  OBVIOUS
<1> QED
  BY <1>2, <1>3, <1>4

\* Without a failure nobody is misled by what is shown, and no command panics but
\* on a contract response that is lost or a block without SignInfos.
THEOREM ViewsAreTruthful == Spec => []ViewTruthful
<1>1. IInv /\ LoopInv => ViewTruthful
  <2>1. SUFFICES ASSUME IInv, LoopInv, NEW r \in Requests, pc[r] = "replied", NEW v \in Views(r)
                 PROVE  /\ v.shown = "result" => wire[r].data = "full"
                        /\ v.shown = "nothing" =>
                              \/ wire[r].data = "empty"
                              \/ req[r].method = "GetSystemStatus" /\ Len(list[r]) < Cardinality(Chains)
                              \/ \E i \in DOMAIN list[r] : list[r][i].data # "full"
                              \/ Op(req[r]) \in {"GetBlockChainStatus", "PreExec", "PreExecWithSelectUTXO"}
                        /\ v.shown = "unprintable" => req[r].method = "GetSystemStatus"
                        /\ v.shown = "panic" =>
                              \/ req[r].method = "PreExec" /\ wire[r].data = "none"
                              \/ req[r].method \in {"GetBlock", "GetBlockByHeight"} /\ wire[r].data = "full"
    BY DEF ViewTruthful
  <2>2. CASE wire[r].err
    BY <2>1, <2>2, ErrorViews
  <2>3. CASE ~wire[r].err
    <3> DEFINE w == wire[r]
               l == list[r]
               in == req[r]
    <3>1. w.data \in Datas /\ in \in Inputs /\ l \in Seq(Entries) /\ steady[r] \in SUBSET Chains
      BY <2>1 DEF IInv, CallTypes, LoopInv, LoopTypes
    <3>2. ~w.err /\ w.header # "none" /\ out[r].err = "nil" /\ w.data = out[r].data
      BY <2>1, <2>3 DEF LoopInv, LInv, IInv, RInv, Delivered
    <3>3. w.data = "none" => Op(in) \in {"GetBlockChainStatus", "PreExec", "PreExecWithSelectUTXO"}
      BY <2>1, <2>3, <3>2 DEF IInv, RInv, Delivered, Done
    <3>4. Op(in) \in LoopOps => w.data = "full" /\ Visiting(in, l, <<>>, steady[r])
      BY <2>1, <2>3, <3>2 DEF LoopInv, LInv
    <3>5. in.method \in LoopOps => Op(in) = in.method
      BY DEF Op, LoopOps, Balances
    <3>6. /\ Shown(w.data).shown \in {"result", "nothing"}
          /\ Shown(w.data).shown = "result" <=> w.data = "full"
      BY <3>1, <3>2, PlainViews
    <3>7. Panic.shown = "panic"
      BY DEF Panic, View
    <3>8. ViewForm(in.method, in.names, w, l, v)
      <4>1. CASE v \in CommandViews(in.method, in.names, w, l)
        <5> HIDE DEF w, l, in
        <5> QED
          BY <3>1, <3>2, <4>1, ViewForms
      <4>2. CASE v = GatewayReply(w)
        BY <3>2, <4>2 DEF GatewayReply, Invoke, View, ViewForm
      <4> QED
        BY <2>1, <4>1, <4>2 DEF Views
    <3> HIDE DEF w, l, in
    <3>9. CASE v.shown = "error" \/ v = Shown(w.data)
      BY <3>1, <3>3, <3>6, <3>9 DEF w, l, in, Datas
    <3>10. CASE \/ in.method = "PreExec" /\ w.data = "none" /\ v = Panic
                \/ in.method \in {"GetBlock", "GetBlockByHeight"} /\ w.data = "full" /\ v = Panic
      BY <3>7, <3>10 DEF w, l, in
    <3>11. CASE /\ in.method \in {"GetBalance", "GetFrozenBalance"} /\ Len(in.names) = 1
                /\ v = IF l = <<>> THEN Panic ELSE Shown(l[1].data)
      <4>1. Op(in) \in Balances /\ Op(in) \in LoopOps
        BY <3>5, <3>11 DEF LoopOps, Balances
      <4>2. Follows(in, in.names, l, <<>>, steady[r])
        BY <3>4, <4>1 DEF Visiting, Plans
      <4>3. Len(l) = 1
        BY <3>1, <3>11, <4>2 DEF Follows
      <4>4. l # <<>> /\ 1 \in DOMAIN l
        BY <3>1, <4>3, OneEntry
      <4>5. v = Shown(l[1].data)
        BY <3>11, <4>4
      <4>6. v.shown \in {"result", "nothing"} /\ (v.shown = "nothing" => l[1].data # "full")
        BY <4>5 DEF Shown, View
      <4> QED
        BY <3>4, <4>1, <4>4, <4>6 DEF w, l, in
    <3>12. CASE /\ in.method = "GetSystemStatus"
                /\ \E c \in Chains, flag \in StatusFlags, fresh \in SUBSET Chains :
                      v = extractSpecificInfo(w.data, FromSystemStatusPB(l, c), flag, fresh)
      <4>1. PICK c \in Chains, flag \in StatusFlags, fresh \in SUBSET Chains :
               v = extractSpecificInfo(w.data, FromSystemStatusPB(l, c), flag, fresh)
        BY <3>12
      <4>2. Op(in) = "GetSystemStatus" /\ w.data = "full" /\ Visiting(in, l, <<>>, steady[r])
        BY <3>4, <3>5, <3>12 DEF LoopOps
      <4>3. v.shown = "nothing" =>
               Len(l) < Cardinality(Chains) \/ \E i \in DOMAIN l : l[i].data # "full"
        BY <3>1, <4>1, <4>2, StatusShown
      <4>4. v.shown \in {"unprintable", "result", "nothing"}
        BY <4>1 DEF extractSpecificInfo, Shown, View
      <4> QED
        BY <3>12, <4>2, <4>3, <4>4 DEF w, l, in
    <3> QED
      BY <3>8, <3>9, <3>10, <3>11, <3>12 DEF ViewForm
  <2> QED
    BY <2>2, <2>3
<1> QED
  BY <1>1, Inductive, LoopInductive, PTL

=============================================================================
