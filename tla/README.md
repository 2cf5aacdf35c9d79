# A TLA+ model of xuperchain

xuperchain is the node (`xchain`) and the command line client (`xchain-cli`)
around the kernel *xupercore*, which holds ledger, state, consensus and network
and is not part of this repository. What this repository adds is: the process
that runs engine and servers, the grpc api with its event stream and endorser,
the tools that work on a stopped node's data, and a client that assembles
transactions out of what several nodes and an endorser tell it. These are
modelled here. xupercore is modelled only as far as this code uses it, and those
definitions are marked *external* in `PROJECT.json`.

## 1. Inventory

| Component | State | Operations | Hard behaviour | What makes it correct |
|---|---|---|---|---|
| Event service `service/rpc/event_service.go` | `connCounter`: subscriptions per host, under a mutex | `Subscribe` = `connPermit`, router subscription, send loop, deferred `releaseConn` | any number of streams at once; early returns; a broken stream is noticed only when a block is sent | the counter is exact, the limit is kept, no slot leaks, a gone client's slot comes back |
| Node lifecycle `cmd/xchain/cmd/startup.go`, `service/manage.go`, `service/rpc/manage.go`, `service/gateway/gateway.go` | WaitGroup, channels of engine and servers, `servHD`/`server` handles, `exitOnce` | start, supervise, `Exit` of each server, graceful stop, metrics listener | signals, failures and the engine's end in any order, handles written by another goroutine, a `Once` that can be used up | main returns after all tasks, and does return |
| Transaction assembly `cmd/client/cmd/comm_trans.go`, `cli.go`, `transfer.go` | fields of `CommTrans` | amounts, fees, change, refusals | decimal strings, `big.Int`, `int64`; `Bytes()` loses the sign | inputs and outputs balance, the gas is covered |
| Client commands `comm_trans.go`, `cli.go`, `utxo_merge.go`, `utxo_split.go`, contract, governance, consensus and account commands, `config.go` | one process each; flags and configuration | several calls: pre-execution, selection (locked or not), endorsement, post | two clients given the same outputs, expired locks, lost replies, fee paid before the transaction | charged exactly; refused only after losing a race; printed instead of posted when asked so |
| Endorser service `service/rpc/endorser_service.go` | none | `ComplianceCheck` (post the fee, then sign), `PreExecWithFee`, `CrossQueryPreExec`, `TxQuery` | fails between the two parts; its header says SUCCESS on failures | signs only what was paid for; no false success |
| Endorser proxy, same file | `clientCache`, mutex | `getClient` (double-checked), `EndorserCall` | concurrent cache misses, failed dials | one connection per host, mutex always released |
| RPC api `service/rpc/rpc.go`, `api.go`, `models/chain_handle.go`, `service/common/convert.go` | none; goroutines that broadcast | interceptor, 30 handlers | chains are stopped between two looks; panics; conversions that fail; the endorser calls the handlers past the interceptor | success means success; locks as signed; broadcast once |
| pruneledger `cmd/xchain/cmd/pruneledger.go` | ledger and state of a stopped node | walk, fork, meta data, branches | killed between walk and batch, run again with another target | trunk and the state's path stay complete |
| Multisig `cmd/client/cmd/multisig_*.go` | files: transaction, `.ext`, signatures | gen, sign, get, send, check | several parties, any order, files replaced | refused only for a cause outside |
| Accounts and keys `account_newkeys.go`, `account_restore.go`, `account_decrypt.go`, `ak.go` | directories of key files | make an account (stat, mkdir, four writes, clean-up); list, read and sign | two commands at one directory, a kill between two writes, the same directory read twice by one command | accounts do not mix, keys are not destroyed, what signs is what is required |
| Query commands `status.go`, `block.go`, `tx_query.go`, `acl_query.go`, `tdpos_*.go`, ... and the gateway's routes `service/pb/xchain.pb.gw.go` | none | one call and its display | replies without header, entries that failed, half of a reply lost, an empty HTTP body | a failure is shown as one, a result only when there is one |
| offlinequery, createchains `cmd/xchain/cmd/` | ledger and state of a stopped node | queries; make a chain | run after a prune that was killed | answers agree with each other |
| Node configuration, formatting, message types | | | | not modelled, see section 8 |

How they interact: the supervisor (`startup.go`) owns engine and servers; grpc
calls enter through the interceptor into `RpcServ`, which asks the engine for a
chain by name on every call (`NewChainHandle`) and keeps nothing itself;
`EventService` and the two endorsers are served by the same grpc server (so a
graceful stop waits for their calls). `DefaultXEndorser` calls `RpcServ`
directly, `ProxyXEndorser` forwards to another host. The client talks to a node
and to an endorser; clients only meet in the node's table of outputs and locks.
The multisig parties meet in files.

The hazards, each at its line and with the properties that cover it, are in
`PROJECT.json`.

## 2. Modules

```
ConnLimiter            abstract: a counting semaphore per host
  EventService         implements it            EventServiceProofs
Lifecycle                                       LifecycleProofs
TxAssembly             pure amounts
  Commands             command lines to jobs
  TxFlow               clients, node, endorser  TxFlowProofs      MCTxFlow
UtxoSplit              the loop of utxo split   TxFlowProofs      MCUtxoSplit
EndorserProxy                                   EndorserProxyProofs
RpcApi                 the grpc api
  ClientView           commands and gateway     RpcApiProofs      MCRpcApi
PruneLedger            with the offline queries PruneLedgerProofs
KeyFiles                                        KeyFilesProofs    MCKeyFiles
Multisig                                        MultisigProofs    MCMultisig
```

Definitions carry the names of the functions they model. Those called
`...Unchecked`, `...Forgets...`, and so on, under a comment `Mutant:` are not part of
a specification: they are plausible bugs, one for every property, under which
that property must fail.

**EventService.** One process per `Subscribe` call. `connPermit` and `releaseConn`
are atomic (mutex); everything between is a step of its own: `RouterSubscribe`,
`IterNext`/`IterEnd`, `SendOK`/`SendError`, `Return` with the deferred release.
`remoteIP` is the local variable of the call. `ClientGone` and `NewBlock` are the
environment.

**Lifecycle.** `proc` is main, `eng` and `servRun` the two tasks under the
WaitGroup, `pc[s]` the goroutine of each server, `handle[s]` the `servHD` /
`t.server` written by it, `once[s]` the `exitOnce`, `exits[s]` the pending calls of
`Exit`. `Stop` of a server whose handle is not yet set does nothing, but uses up
the Once; a racing read of the gateway's handle may return either value. The
metrics listener's panic ends the process. `subs` are the event subscriptions
among the calls in flight: `GracefulStop` waits for them, and nothing but a new
block ends one (`EventService` has their inside).

**TxAssembly** has no state: decimal strings are `Num(v)`, `Empty` or
`NotANumber`; `int64` is a ring of size `2 * Int64Half`; `Bytes` is the absolute
value. Operators give, for a command and a selection, the error or the
transaction (inputs, payment, fee, service fee, change).

**Commands** has no state either: for every command that makes a transaction, what
its flags, files and configuration come to: a refusal before the first call, or the
job of a client of TxFlow. It keeps which commands hand on `RootOptions` (without
which there is no compliance check) and which call the node first (`QueryACL`,
`GetSystemStatus`). The files of `--keys` are there together or not at all. A job that
is not `named` misses a file that the command only looks for after other calls (the
address list of `--isMulti` or of `xpoa`, the contract file): it fails there, not at the start.

**TxFlow.** Each client runs one job (invoke with or without compliance check,
query, file for the multisig commands, transfer, merge, split); a step is one call
with the local work up to the next. The node has the payer's outputs, their locks and the accepted
transactions; the endorser's handler runs on after its client has given up.

**UtxoSplit.** `genSplitOutputs`, one iteration per step; its names begin with `split`, so that
`TxFlowProofs` can use it beside TxFlow.

**EndorserProxy.** `getClient` in its steps (load, lock, second look, dial, store). A
configuration without a host, or with an empty name among its hosts, gives the "empty
host" error before the cache is looked at.

**RpcApi.** A goroutine takes a request, runs the handler, and the interceptor
makes the reply. A handler yields an error and whether the response holds the
result; those with several chain calls (`PreExecWithSelectUTXO`, the balance
loops, `GetSystemStatus`, the endorser) take several steps, between which chains are
loaded and stopped. `wire` is what the client sees after grpc: an error *or* a
response. Conversions of `convert.go` are outcomes: an error, or a response with
nothing in it, whichever the caller makes of it. That the two chain names of a
`PreExecWithSelectUTXO` request may differ is in the model, as it is in the code.
`Served` is the service table of the generated code and `Undecoded` its handlers'
answer to a body that is no message. An endorser call for which `createReqCtx` fails
ends in the interceptor's panic, which is recovered (`EndorserBegins`).

**ClientView** says, for each query command and for the gateway, what is shown for
what came over the wire: a result, nothing, an error or a panic, and whether the
command ends with an error. `status` has a view for each of its flags: `-P` does not
depend on the chains, `-B` divides by a height that may be zero, which JSON cannot print
("unprintable"). A block whose justification has no `SignInfos` is a panic. `GatewayRequest` is the request an HTTP body stands for.

**PruneLedger.** A tree of blocks, its tip, trunk flags and branch records, and the
block the state is at. The command walks the state block by block (each block is
persisted) and then writes one batch. `Fail` stands for every error return and for
a kill. Which heads of exactly the target's height `GetBranchInfo` returns is left
open. A branch that an earlier prune took a block of (not `Connected`) keeps its
other blocks and loses only its record, because the errors of `GetCommonParentBlockid`
and `RemoveBlocks` are ignored. The queries of `offlinequery.go` are operators on this state, for a node that
is not running; a query by transaction reads the ledger's table, in which those of a
removed block may or may not be left. `Init` is what createchains leaves.

**KeyFiles.** A writer makes an account, one step per file system call; opening a file
empties it. A file is the account whose data it holds. A signer runs one of `Operations`. It reads
the initiator's files (`Ask`), for an account also the address of every directory below its
path (`Require`), and later the keys of the same places (`Sign`), with calls to the
node between; what it reads between two such calls is one step. `Cli.Transfer` keeps the
initiator's keys of its first read; a merge for an account drops the error of
`readAddress` and may name no initiator. `forced`, `raced` and `moved` are history: the
directories a `--force` command went for, two writers overlapped at, or that changed
between a signer's reads.

**Multisig.** A transaction is the number of the `gen` that made it and the output
it spends; a signature is who and over which. `os.WriteFile` empties a file before it writes:
an empty `tx.out` decodes as a transaction without fields (`Blank`), which can be signed and
sent, an empty signature file is no JSON (`NoSig`), and `get` writes the JSON null of a
reply without signature (`EmptySig`). gen, get and send take several
steps and run at the same time as anything else. `send.ready` is history: the files
were right when send started and none was written since.

## 3. Runs

| Run | Bounds | Shows |
|---|---|---|
| `event_service` | 3 calls, 2 hosts, limits 0 to 2, 1 undelivered block | `TypeOK`, `CounterExact`, `LimitRespected`, `RefusedOnlyWhenFull`, `GoneClientReleases`, refinement of `ConnLimiter` |
| `lifecycle` | 2 signals, 1 call in flight per server, 1 subscription | `TypeOK`, `AllTasksEnded`, `EngineOutlivesServers`, `SignalEndsProcess`, `EngineEndsProcess`, `LastServerEndsProcess` |
| `lifecycle_early_exit` | 1 signal | *violated*: `ExitStopsServer` |
| `tx_flow` | 2 clients, any two of the jobs of 41 command lines, outputs 3 and 2, int64 of 4 bits, gas 0 or 1 | `TypeOK`, `ChargedExactly`, `SignedOnlyIfPaid`, `RejectedOnlyByConflict`, `LockProtects`, `CommandsEnd` |
| `tx_flow_debug` | 2 clients, 1 command line | *violated*: `DebugNotPosted` |
| `utxo_split` | balances 0 to 40, counts -1 to 12 | `SplitExact` (closed form) |
| `endorser_proxy` | 3 calls, 2 hosts | `OneConnection`, `UsesCached`, `CallsEnd` |
| `rpc_api` | 2 goroutines, 2 chains, 1 transaction; every method with and without its parameters and with an empty body alone (`Alone`), PostTx and the endorser's ComplianceCheck two at a time | `TypeOK`, `NoFalseSuccess`, `LockedAsSigned`, `BroadcastOnce`, `LoopsComplete`, `FailureShown`, `ViewTruthful`, `RequestsAnswered`, `AcceptedIsBroadcast` |
| `rpc_api_conversion` | 1 goroutine | *violated*: `ConversionErrorSeen` |
| `prune_ledger` | 5 blocks besides the root | `OfflineAnswers`, `StateBlockKept`, `LedgerConsistent`, `PrunedToTarget`, `StateRecovers` |
| `multisig` | 2 gen commands, 2 signers and the endorser, 3 files, 2 public keys, 2 outputs, alike under symmetry | `RefusedForCause` |
| `key_files` | 2 writers, alike under symmetry, 1 signer with any of its 7 operations, 2 directories | `OneAccountPerDir`, `KeysSurvive`, `SignedAsRequired` |

Why these bounds are enough to be interesting: three calls and two hosts give a
host that is full while another is not, and a call that waits for a slot that is
being released; two signals are one more than the channel keeps; two clients for
two outputs conflict on one, on both and through the change of a fee
transaction, also after a lock has expired; calls that only read meet nothing but
the set of chains, so that one of them at a time is enough; with
`Int64Half = 8` amounts of 7 and 9 sit on both sides of the overflow; five blocks are
two branches of different height with a common part, and leave room for a new block
after a prune; two gen commands make a file stale after somebody signed, and one or two outputs for the
transaction and the endorser's fee collide or do not; two public keys are what
`--signtype multi` asks for at least; two writers
meet at one directory, or one of them at a directory that a signer is reading, or that
has an account already.

Several properties name, as an exception, what the code itself allows: a chain's entry that
failed and is shown blank (`ViewTruthful`), an output that was spent (`RefusedForCause`), a
forced or overlapping command (`OneAccountPerDir`, `KeysSurvive`), a directory that changed
between two reads (`SignedAsRequired`), outputs locked by a call that then fails
(`LockedAsSigned`), state and tip at different blocks (`OfflineAnswers`). They do not
exclude these cases; they say that there is no other one, which is what is hard to see in
the code. The hazards concerned carry a note.

`CHECK_DEADLOCK FALSE` is set where the system stops: a process that ended
(Lifecycle), commands that ended (TxFlow, Multisig, KeyFiles), a loop that returned
(UtxoSplit).

## 4. Fairness

* Weak fairness of the steps of a goroutine or client process: the Go scheduler and
  the operating system run what can run.
* Strong fairness of the cases of a `select` (it picks at random among the ready ones)
  and of taking a contended `sync.Mutex` (its starvation mode hands it over).
* New blocks keep arriving in `event_service`: without them a gone client's slot
  is indeed not freed, which is the hazard stated for `event_service.go:53`.
* Calls in flight end, and `Engine.Run` returns after `Exit`, in `lifecycle`. Event
  subscriptions are the exception: nothing is assumed of them, and the properties say
  that a process that does not end is one with an open subscription.
* The state of a running node follows its ledger in `prune_ledger`.
* Calls to a node return, with a reply or an error, in `tx_flow`: most are made under
  `context.TODO` without a deadline, and a node that never answers does hang the command.
  The call of the endorser has its timeout, and nothing is assumed of the endorser:
  `CommandsEnd` holds although it may never answer.
* Calls of a chain and `SendMessage` return in `rpc_api`, where the code has no deadline
  either; `grpc.Dial` and the forwarded call return in `endorser_proxy`.
* `LastServerEndsProcess` starts from a state in which both servers have returned,
  whichever of them `ServMG.Run` has received already.
* Nothing is assumed of what chains answer, of clients, signals, failures or lock expiry.

## 5. Proofs

TLAPS proves every invariant, every action property and the refinement that a passing run
checks, for every value of the constants. The inductive invariants were checked by TLC on
the runs' instances before they were proved.

**The event service** (`EventServiceProofs`): `TypesHold`, `CounterIsExact`,
`LimitIsRespected`, `RefusalIsJustified` and `Refinement` (the service implements
`ConnLimiter`). The inductive invariant is
`TypeOK /\ IPKnown /\ CounterExact /\ LimitRespected`. `CounterExact` alone is not
inductive: the release uses the local `remoteIP`, so one needs that a call that holds a slot
still knows the host it was counted under (`IPKnown`); and that a present key is positive
(`TypeOK`), because the key is deleted when the count reaches zero. Assumptions: the sets of
streams and hosts are finite and do not contain `NoIP`.

**The endorser proxy** (`EndorserProxyProofs`): `OneConnectionHolds`, `UsesCachedHolds`. The
invariant adds to the types that one call is inside the mutex, that the only connection to a
host is the one in the cache or in the hands of the call inside, what each call knows of
the cache after its second look; the types say that a call past its start has a host that is
not empty.

**Transactions** (`TxFlowProofs`), in four parts.

* *Sums.* Outputs are selected and paid in sets, and their amounts are added by a fold. That
  the fold of a finite set exists, that it adds an element's amount and that it splits over
  disjoint sets is proved by least counterexample (below).
* *Assembly*: `RawTxBalanced`, `TransferBalanced`, `GasCovered` and `ComplianceBalanced`,
  arithmetic facts on the operators of `TxAssembly`, for every amount, fee, gas and sufficient
  selection; the last one under the condition that the int64 sums do not overflow and a fee
  address is configured, the conditions `TxFlow`'s `Sound` states. `SplitIsExact` is about the
  loop of `utxo split`, for every balance and count: after i iterations there are i equal outputs and the rest is
  balance - i * amount, hence at least one amount while the loop goes on.
* *Clients, node and endorser*: `TypesHold`, `SignedOnlyIfPaidHolds`, `ChargedExactlyHolds`,
  `RejectedOnlyByConflictHolds` and `LockProtectsHolds`, for any clients, jobs, outputs, gas and
  width of int64. The invariant (`IInv`) has a part for the node's ledger (every output comes from
  the genesis or an accepted transaction, and none that an accepted one took in is unspent) and
  four for each client: `Control` (where it is tells what it runs and how far the endorser's
  handler is), `Checked` (what the checks before a selection have left), `OnChain` (which of its
  transactions are accepted) and `Amounts` (its transactions balance and cost their price); and
  `Inputs` and `Locks`, which relate what it has selected to the node's table: an input that is
  gone was spent by somebody, and what was selected under a lock is locked still, or the lock
  has lapsed, or a command that selects without lock has spent it. Every action is one of four kinds (it
  leaves the node alone, selects and makes, submits, or lets a lock expire) with a lemma for
  each, so that the other clients are treated once per kind.
* *Command lines*: the assumption of these theorems on jobs (`JobOK`) is not left to the
  reader: `CommandsMakeJobs` proves it for what every command line of every transaction
  command comes to in `Commands`.

**The ledger tools** (`PruneLedgerProofs`): `LedgerConsistentHolds`, `StateBlockKeptHolds`,
`PrunedToTargetHolds` and `OfflineAnswersHolds`, for a tree of any size and wherever the
command fails. The three properties of the ledger need each other; `PrunedToTarget` needs that a walk that
has ended is at the target it was started for (`WalkedToTarget`), and the removal of a branch
that nothing kept is built on the head of a branch (`LeafHeads`). What the
recursive functions over parents compute is again shown by least counterexample.

**Multisig** (`MultisigProofs`): `RefusalHasCause`, for any parties, files, arguments and number of
gen commands. What a send holds was read from files that others write, so the invariant
(`Undisturbed`) says more: while no file was written since it began, the files it was given are
still right and what it has collected so far is what the transaction needs. A transaction
that is read while it is written is none of those that were made (`Blank`), and no send that
started with it was started with the right files.

**The node's lifecycle** (`LifecycleProofs`): `TypesHold`, `TasksEnd` and `EngineOutlives`, for any
number of signals, calls and subscriptions. Even the types are not inductive: that a server's
pending calls of `Exit` stay within their bound needs the count of what may call it
(`ExitsCounted`: the signals taken out of the channel, and the engine's end). The rest of the
invariant is `RunCounts` (ServMG.Run has returned exactly when it has heard of both servers),
`EngineExitCause`, `StoppedIdle` (a grpc server that returned nil accepts nothing any more) and
`ReturnedLast`.

**Key files** (`KeyFilesProofs`): `AccountsApart`, `KeysAreKept` and `SignaturesMatch`, for any
commands and directories. Whole accounts alone say nothing of the states between: the invariant
follows each command through its files. In a directory neither forced nor raced, what `Stat` has
found still holds (`StatHolds`), the files a command has closed are its own (`WritesOwn`), nobody
else's are there (`OneOwner`), and what is removed takes all its files with it (`AbsentEmpty`).
The signers have an invariant of their own on top (`SInv`): what a command that waits for the
node has read (the initiator's address, then those of the directories) still holds of every directory
that did not change since; a directory that is
made meanwhile is not listed, because it is empty (`AbsentEmpty` again). Assumption: names of
commands and directories, the two contents that are no account ("none", "empty") and
"initiator" differ.

**The grpc api** (`RpcApiProofs`): `TypesHold`, `SuccessIsTrue`, `LocksAreSigned`,
`BroadcastsAreSingle`, `FailuresAreShown`, `LoopsAreComplete` and `ViewsAreTruthful`, for any
goroutines, chains, transactions and requests, whatever the chains answer. The properties are
about replies, so the invariant says of every goroutine on the way there what it serves
(`Reached`), that the lock is the last thing a handler takes and only after its check
(`Locked`), and that a result without an error stands for what was done until it is delivered
(`Delivered`); and of every transaction that while it waits for its broadcast there was none
(`Once`). The answers of the fourteen queries are treated by lemmas on `Guarded` and `Renamed`,
the pattern they share. The loops have a second invariant on top (`LoopInv`): there is an
order of chains, the one of the request or one of the engine's chains that leaves out none
that is loaded all through the call, such that the entries stand for its beginning and what
is to do is its end. `GetSystemStatus` does not keep that order, hence the quantifier; that an
order of n of n chains has them all, and that no more chains are without entry than there
are entries without a name, are pigeon-hole arguments. `ViewTruthful` is then a case analysis
of the commands. Assumptions: finitely many chains, amounts are naturals, requests name known
transactions and their lists of chains are sequences of names, there is at least one request.

*Induction over data.* The induction theorems of the library take an operator as parameter,
which the provers cannot instantiate. Where a recursive function or a fold has to be reasoned
about, the proofs take the set of the counterexamples and its least element
(`WellFoundedInduction`, on sets), and they prove that the function exists before they expand
its definition, and expand it in steps of their own.

*What the proofs changed in the models.* Two `CASE` expressions of `Commands` and one of `TxFlow`
had guards that overlap, whose value TLA+ leaves open although TLC takes the first that is
true: they are `IF`s now. The view of the balance command was tied to replies with at most one
entry, and would panic for a request without any chain: it is tied to the requests that command
sends, which name one chain (`account_balance.go:62`). The chains `status` prints are a set; their
order is layout. The assumptions on jobs and on lists of chains were implicit.

Only model-checked: liveness (`GoneClientReleases`, `SignalEndsProcess`, `EngineEndsProcess`,
`LastServerEndsProcess`, `CommandsEnd`, `CallsEnd`, `RequestsAnswered`, `AcceptedIsBroadcast`,
`StateRecovers`): fairness and `ENABLED` are out of the prover's reach.

## 6. What the runs found

* `ExitStopsServer`: `Exit` is documented as idempotent and is relied on, but a signal
  handled before the server's goroutine has stored its handle uses up `exitOnce`; the
  server then starts and cannot be stopped any more (`service/rpc/manage.go:91`,
  `service/gateway/gateway.go:67`).
* `DebugNotPosted`: `--debug` is documented as "debug print tx instead of posting", but
  `Transfer` goes for the compliance check first, and that path posts.
* `ConversionErrorSeen`: failed conversions in `GetBlockChainStatus`, `GetBalanceDetail` and
  `PreExec` are reported as success.

Noted while modelling, without a run:

* `multisig sign` offers `--signtype multi` (`multisig_sign.go:48`) and refuses every
  non-empty type at line 71, before the branch for `multi`; what `send --signtype multi`
  is then given are ordinary signature files, which parse as empty partial signatures
  (`sendXuper` in Multisig).
* The interceptor's comment (`rpc.go:85`) promises err=nil; line 101 returns the error.
  That is what the clients rest on: with the comment's version the endorser's failures,
  and those of every command that does not look at the header, would be shown as success
  (the mutant of `NoFalseSuccess` and `FailureShown`).
* The option `IsNeedComplianceCheckFee` is read nowhere; and `consensus invoke`,
  `proposal vote` and `governToken init` do not hand on `RootOptions`, so that the
  compliance check the configuration asks for is not made for them.
* The client loads its configuration before it parses its flags (`cli.go:106`): the file
  that `--conf` names is not the one that is read.
* `ConfirmBlockChainStatus` (`api.go`) is not in the grpc service and cannot be called.
* The entry of a chain that failed in `GetSystemStatus` has no name.
* newkeys with `--force` that fails removes the directory with the keys that were there
  (`KeysSurvive` excepts it: the user has asked to overwrite them).

## 7. Plan

Done in this order: EventService (the service's only shared mutable state), Lifecycle,
TxAssembly and TxFlow (money), UtxoSplit, EndorserProxy, RpcApi, PruneLedger, Multisig;
then Commands, the subscriptions of Lifecycle, KeyFiles, ClientView and the offline
queries. To come:

1. An abstract specification of the node's outputs (each spent once, a sum that is kept)
   implemented by TxFlow, and of a call (asked, done or refused, answered) implemented by RpcApi.
2. Multisig on top of TxFlow, so that the change of the fee transaction can be selected.
3. The safety part of the liveness properties: the steps that may not be undone on the way
   (no slot of a gone client is taken over, no accepted transaction is dropped before its
   broadcast), as action properties with proofs.

## 8. Not modelled

* xupercore: consensus, ledger, state, network, contract engines. Another repository.
* createchains itself (one kernel call per genesis file); its result is where PruneLedger
  starts.
* The wording and layout of what commands print; `watch`, `multisig check`, `neturl`
  `preview`, `gen` and `convert` and the address conversion of `evm`, which print what
  they are given or make a file of the network library.
* The cryptographic library. A signature is a fact: by whom, over what.
* Loading of the node's configuration file; TLS set-up except that it may fail
  (`SetupError`).
* The contents of proposals, contract code and contract arguments.
* A failing `createReqCtx` in the interceptor (`rpc.go:56`): its error is ignored and
  `reqCtx.GetClientIp()` would then panic before the recover of line 65 is in place. It
  fails only for a call without a peer address, which grpc provides, or without engine or
  logger, which are there before the server (`Receive`). The endorser's own call of it is
  modelled, because its error is returned.
* The writes of another command between two reads of one step of a signer.
* The message types of the generated code (`service/pb`), the chained-BFT messages (only
  printed, by `types.go`) included.
