------------------------------- MODULE MCTxFlow -------------------------------
(***************************************************************************)
(* Command lines and outputs for the runs of TxFlow.                       *)
(***************************************************************************)
EXTENDS TxFlow, Commands

AllFiles == {"keys", "args", "code", "abi", "desc", "addrs", "path"}

Line(name, amount, fee) ==
    [name |-> name, amount |-> amount, fee |-> fee, account |-> FALSE, multi |-> FALSE,
     debug |-> FALSE, method |-> "write", bucket |-> "wasm", id |-> TRUE, num |-> 0,
     has |-> AllFiles, conf |-> "none"]
Checked(l) == [l EXCEPT !.conf = "on"]
Debug(l) == [l EXCEPT !.debug = TRUE]
InFile(l) == [l EXCEPT !.multi = TRUE]
Without(l, file) == [l EXCEPT !.has = @ \ {file}]

Invoke(amount, fee) == Line("contract invoke", amount, fee)
Consensus(bucket) == [Line("consensus invoke", Empty, Num(1)) EXCEPT !.bucket = bucket]
Split(num) == [Line("utxo split", Empty, Empty) EXCEPT !.num = num]

Contracts == {Invoke(Num(1), Num(1)), Invoke(Empty, Num(2)), Invoke(Num(0), Empty)}

Others == {Debug(Invoke(Num(1), Num(1))), InFile(Invoke(Num(1), Num(1))),
           Line("contract deploy", Empty, Num(1)),
           [Without(Line("contract deploy", Empty, Num(2)), "abi") EXCEPT !.bucket = "evm"],
           InFile(Without(Line("contract upgrade", Empty, Num(2)), "addrs")),
           Checked(Consensus("tdpos")), [Consensus("xpos") EXCEPT !.method = "read"],
           [Consensus("xpoa") EXCEPT !.account = TRUE], Consensus("poa"),
           [Without(Consensus("xpoa"), "desc") EXCEPT !.account = TRUE],
           [Without(Consensus("xpoa"), "addrs") EXCEPT !.account = TRUE], Consensus("pow"),
           Line("proposal propose", Empty, Num(1)), Checked(Line("proposal vote", Num(1), Num(1))),
           [Checked(Line("proposal thaw", Empty, Num(1))) EXCEPT !.id = FALSE],
           Line("govern init", Empty, Num(1)), Line("govern transfer", Num(1), Num(1)),
           Without(Line("account new", Empty, Num(1)), "args"),
           [Line("account new", Empty, Num(1)) EXCEPT !.conf = "bad"]}

Payments == {Line("transfer", Num(2), Num(1)), Debug(Line("transfer", Num(1), Num(0))),
             Line("vote", Num(2), Num(0)),
             Line("utxo merge", Empty, Empty), Split(2), InFile(Split(6)),
             InFile(Without(Split(2), "addrs"))}

\* Commands whose strings are refused, wrap around int64 or miss a fee address.
Odd == {Invoke(Num(-1), Num(1)), Invoke(Num(1), Num(9)),
        Checked(Invoke(Num(-2), Num(1))), Checked(Invoke(Num(7), Num(1))),
        Checked(Invoke(Num(9), Num(1))),
        [Invoke(Num(1), Num(1)) EXCEPT !.conf = "noaddr"],
        Line("transfer", Num(-1), Num(0)), Line("transfer", Num(1), NotANumber), Split(0)}

AllJobs == {CommandJob(l) :
              l \in Contracts \cup {Checked(l) : l \in Contracts} \cup Others \cup Payments \cup Odd}

DebugJobs == {CommandJob(Debug(Checked(Invoke(Num(1), Num(1)))))}

TwoCoins == <<3, 2>>

=============================================================================
