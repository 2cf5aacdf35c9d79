------------------------------- MODULE KeyFiles -------------------------------
(***************************************************************************)
(* The directories that hold the keys of the client's accounts: the        *)
(* commands that make them (account newkeys, restore, decrypt) and the     *)
(* commands that sign with them (ak.go, and its users in cli.go and        *)
(* comm_trans.go).  Commands are processes of their own and may overlap; a *)
(* writer may be killed between any two calls of the file system.          *)
(*                                                                         *)
(* A step of a writer is one such call: Stat, MkdirAll, the opening of a   *)
(* file (which empties it), the write; RemoveAll is one step.  A step of a *)
(* signer is all it reads up to its next call to the node: a writer that   *)
(* comes between two reads of one step is left out.                        *)
(*                                                                         *)
(* A file is seen by the account whose data it holds.  External: the       *)
(* crypto client's ExportNewAccount, which writes the files of newkeys.    *)
(***************************************************************************)
EXTENDS Naturals, Sequences, FiniteSets, Functions

CONSTANTS Dirs,     \* directories below an account path
          Keys,     \* the one of them that --keys names
          Writers,  \* processes that make an account, each its own
          Signers   \* processes that sign a transaction

ASSUME KeyFilesAssumption ==
    /\ Keys \in Dirs
    /\ Writers \cap Dirs = {}
    /\ {"none", "empty", "initiator"} \cap (Writers \cup Dirs) = {}

Files == {"mnemonic", "private.key", "public.key", "address"}

VARIABLES
    cmd,      \* writers: the command, its directory and its --force
    wpc,      \* writers: where they are, or how they ended
    begun,    \* writers: how many files they have opened
    present,  \* the directories that exist
    file,     \* whose data a file holds, or "none", or "empty"
    op,       \* signers: the command, and whether it is for an account
    spc,      \* signers: where they are, or how they ended
    req,      \* signers: the address required of the initiator and of each directory
    sig,      \* signers: the accounts that signed in their place
    forced,   \* directories a --force command went for (history)
    raced,    \* directories two writers were at the same time (history)
    moved     \* signers: directories changed since the first read (history)

vars == <<cmd, wpc, begun, present, file, op, spc, req, sig, forced, raced, moved>>
dirVars == <<present, file, moved>>
signVars == <<op, spc, req, sig>>
writeVars == <<cmd, wpc, begun, forced, raced>>

Accounts == Writers \cup Dirs
NoFiles == [f \in Files |-> "none"]

\* The files each command writes, in their order
ExportNewAccount == <<"private.key", "public.key", "address">>
ExportNewAccountWithMnemonic == <<"mnemonic", "private.key", "public.key", "address">>
Restore == <<"mnemonic", "private.key", "public.key", "address">>
SaveAccount == <<"address", "private.key", "public.key">>

Kinds == {"newkeys", "newmnemonic", "restore", "decrypt"}
Order(kind) ==
    CASE kind = "newkeys" -> ExportNewAccount
      [] kind = "newmnemonic" -> ExportNewAccountWithMnemonic
      [] kind = "restore" -> Restore
      [] kind = "decrypt" -> SaveAccount

\* The commands that sign: with an account they read the keys below its path too.
Operations == {o \in [cmd : {"invoke", "transfer", "split", "merge"}, account : BOOLEAN] :
                 o.account => o.cmd # "invoke"}

\* At the start some directories hold an account of their own.
Init ==
    /\ cmd \in [Writers -> {c \in [kind : Kinds, dir : Dirs, force : BOOLEAN] :
                              c.force => c.kind \in {"newkeys", "newmnemonic"}}]
    /\ wpc = [w \in Writers |-> "start"]
    /\ begun = [w \in Writers |-> 0]
    /\ present \in SUBSET Dirs
    /\ file = [d \in Dirs |-> IF d \in present THEN [f \in Files |-> d] ELSE NoFiles]
    /\ op = [s \in Signers |-> "none"]
    /\ spc = [s \in Signers |-> "start"]
    /\ req = [s \in Signers |-> <<>>]
    /\ sig = [s \in Signers |-> <<>>]
    /\ forced = {}
    /\ raced = {}
    /\ moved = [s \in Signers |-> {}]

---------------------------------------------------------------------------
(* The commands that make an account.                                      *)

Active(w) == wpc[w] \in {"checked", "writing", "open"}

WGoto(w, to) == wpc' = [wpc EXCEPT ![w] = to]

\* A signer that has read something, and is not done
Waits(s) == spc[s] \in {"named", "asked"}

\* A change of a directory, as the signers that have read it will find it
Change(d, newPresent, newFiles) ==
    /\ present' = newPresent
    /\ file' = [file EXCEPT ![d] = newFiles]
    /\ moved' = [s \in Signers |-> IF Waits(s) THEN moved[s] \cup {d} ELSE moved[s]]

\* Mutant: restore and decrypt do not look.
StatSkipped(w) ==
    /\ wpc[w] = "start"
    /\ WGoto(w, IF cmd[w].dir \in present /\ ~cmd[w].force /\ cmd[w].kind = "newkeys"
                THEN "failed" ELSE "checked")
    /\ forced' = IF cmd[w].force THEN forced \cup {cmd[w].dir} ELSE forced
    /\ raced' = IF \E v \in Writers : Active(v) /\ cmd[v].dir = cmd[w].dir
                THEN raced \cup {cmd[w].dir} ELSE raced
    /\ UNCHANGED <<cmd, begun, dirVars, signVars>>

\* "output directory exists, abort"
Stat(w) ==
    LET d == cmd[w].dir
        goes == d \notin present \/ cmd[w].force
    IN  /\ wpc[w] = "start"
        /\ WGoto(w, IF goes THEN "checked" ELSE "failed")
        /\ forced' = IF cmd[w].force THEN forced \cup {d} ELSE forced
        /\ raced' = IF goes /\ \E v \in Writers : Active(v) /\ cmd[v].dir = d
                    THEN raced \cup {d} ELSE raced
        /\ UNCHANGED <<cmd, begun, dirVars, signVars>>

\* Mutant: the clean-up of newkeys is deferred to every error.
InputErrorRemoves(w) ==
    /\ wpc[w] \in {"start", "checked"}
    /\ WGoto(w, "failed")
    /\ Change(cmd[w].dir, present \ {cmd[w].dir}, NoFiles)
    /\ UNCHANGED <<cmd, begun, forced, raced, signVars>>

\* The mnemonic, the encrypted key or the password is wrong, or MkdirAll fails.
InputError(w) ==
    /\ wpc[w] \in {"start", "checked"}
    /\ WGoto(w, "failed")
    /\ UNCHANGED <<cmd, begun, forced, raced, dirVars, signVars>>

\* MkdirAll does not mind a directory that is there by now.
MkdirAll(w) ==
    /\ wpc[w] = "checked"
    /\ WGoto(w, "writing")
    /\ present' = present \cup {cmd[w].dir}
    /\ UNCHANGED <<cmd, begun, forced, raced, file, moved, signVars>>

\* os.WriteFile opens and empties the next file, ...
Open(w) ==
    LET d == cmd[w].dir
        f == Order(cmd[w].kind)[begun[w] + 1]
    IN  /\ wpc[w] = "writing"
        /\ d \in present
        /\ WGoto(w, "open")
        /\ begun' = [begun EXCEPT ![w] = @ + 1]
        /\ Change(d, present, [file[d] EXCEPT ![f] = "empty"])
        /\ UNCHANGED <<cmd, forced, raced, signVars>>

\* ... and writes it; a file that another command's RemoveAll took is lost.
WriteFile(w) ==
    LET d == cmd[w].dir
        f == Order(cmd[w].kind)[begun[w]]
    IN  /\ wpc[w] = "open"
        /\ WGoto(w, IF begun[w] = Len(Order(cmd[w].kind)) THEN "done" ELSE "writing")
        /\ Change(d, present, [file[d] EXCEPT ![f] = IF @ = "none" THEN @ ELSE w])
        /\ UNCHANGED <<cmd, begun, forced, raced, signVars>>

\* newkeys removes the whole directory, also one that was there before (--force).
WriteError(w) ==
    LET d == cmd[w].dir
    IN  /\ wpc[w] \in {"writing", "open"}
        /\ WGoto(w, "failed")
        /\ IF cmd[w].kind \in {"newkeys", "newmnemonic"}
           THEN Change(d, present \ {d}, NoFiles)
           ELSE UNCHANGED dirVars
        /\ UNCHANGED <<cmd, begun, forced, raced, signVars>>

Killed(w) ==
    /\ Active(w)
    /\ WGoto(w, "killed")
    /\ UNCHANGED <<cmd, begun, forced, raced, dirVars, signVars>>

---------------------------------------------------------------------------
(* The commands that sign.                                                 *)

\* IsAKDir looks for the address file only.
listAKs == {d \in present : file[d]["address"] # "none"}

\* Mutant: the errors of the reads are dropped.
keyPairUnchecked(d) == TRUE

\* keyPair reads both keys, or returns an error.
keyPair(d) == file[d]["public.key"] # "none" /\ file[d]["private.key"] # "none"

KeysOf(d) == {file[d]["public.key"], file[d]["private.key"]}

\* The initiator: readAddress of a split and of a CommTrans, AK.Info of a
\* Cli.Transfer (which keeps the keys), the keys that lock the outputs of a merge.
\* A merge for an account drops readAddress's error and goes on without an
\* address.  Then calls to the node.
Ask(s, o) ==
    /\ spc[s] = "start"
    /\ op' = [op EXCEPT ![s] = o]
    /\ LET ok == /\ Keys \in listAKs \/ (o.cmd = "merge" /\ o.account)
                 /\ o.cmd \in {"transfer", "merge"} => keyPair(Keys)
       IN  /\ spc' = [spc EXCEPT ![s] = IF ~ok THEN "failed"
                                        ELSE IF o.account THEN "named" ELSE "asked"]
           /\ req' = [req EXCEPT ![s] = IF ok THEN [r \in {"initiator"} |-> file[Keys]["address"]]
                                        ELSE @]
           /\ sig' = [sig EXCEPT ![s] = IF ok /\ o.cmd = "transfer"
                                        THEN [r \in {"initiator"} |-> KeysOf(Keys)] ELSE @]
    /\ UNCHANGED <<writeVars, dirVars>>

\* genAuthRequirement for an account, once the outputs are selected; then PreExec
Require(s) ==
    /\ spc[s] = "named"
    /\ spc' = [spc EXCEPT ![s] = "asked"]
    /\ req' = [req EXCEPT ![s] = [r \in listAKs \cup {"initiator"} |->
                                    IF r = "initiator" THEN @[r] ELSE file[r]["address"]]]
    /\ UNCHANGED <<op, sig, writeVars, dirVars>>

\* signTxForInitiator reads the keys again and signTxForAccount the directories;
\* a CommTrans reads its address again too; Cli.Transfer has its initiator's keys.
Sign(s) ==
    /\ spc[s] = "asked"
    /\ LET o == op[s]
           used == IF o.account THEN listAKs ELSE {}
           ok == /\ \A d \in used : keyPair(d)
                 /\ o.cmd # "transfer" => keyPair(Keys)
                 /\ o.cmd = "invoke" => Keys \in listAKs
           initiator == CASE o.cmd = "transfer" -> sig[s]["initiator"]
                          [] o.cmd = "invoke" -> KeysOf(Keys) \cup {file[Keys]["address"]}
                          [] OTHER -> KeysOf(Keys)
       IN  /\ spc' = [spc EXCEPT ![s] = IF ok THEN "posted" ELSE "failed"]
           /\ sig' = [sig EXCEPT ![s] =
                 IF ok THEN [r \in used \cup {"initiator"} |->
                               IF r = "initiator" THEN initiator ELSE KeysOf(r)]
                       ELSE @]
    /\ UNCHANGED <<op, req, writeVars, dirVars>>

Next ==
    \/ \E w \in Writers :
          \/ Stat(w) \/ InputError(w) \/ MkdirAll(w) \/ WriteFile(w) \/ WriteError(w)
          \/ Killed(w) \/ Open(w)
    \/ \E s \in Signers : Require(s) \/ Sign(s) \/ \E o \in Operations : Ask(s, o)

Spec == Init /\ [][Next]_vars

---------------------------------------------------------------------------
(* Properties.                                                             *)

Holds(d, a) == \E f \in Files : file[d][f] = a

\* The check for an existing directory (createAccount, restoreAccount, decrypt)
\* keeps the files of two accounts apart, over failures and kills: they mix only
\* under --force, or when two commands were at the directory at the same time.
\* A command that ends well has then left its account whole.
OneAccountPerDir ==
    \A d \in Dirs \ (forced \cup raced) :
        /\ \A a, b \in Accounts : Holds(d, a) /\ Holds(d, b) => a = b
        /\ \A w \in Writers : wpc[w] = "done" /\ cmd[w].dir = d =>
               \A f \in Range(Order(cmd[w].kind)) : file[d][f] = w

Whole(d, a) == \A f \in Files \ {"mnemonic"} : file[d][f] = a

\* No command destroys the whole account of another one, not by writing and not
\* by cleaning up after an error, unless it was told --force or the two overlapped.
KeysSurvive ==
    [][\A d \in Dirs, a \in Accounts :
          Whole(d, a) => \/ Whole(d, a)'
                         \/ d \in forced \cup raced
                         \/ a \in Writers /\ Active(a)]_vars

\* A transaction goes out with the signatures that its requirements ask for.
Matches(s) ==
    /\ DOMAIN req[s] = DOMAIN sig[s]
    /\ \A r \in DOMAIN req[s] : sig[s][r] = {req[s][r]}

Place(r) == IF r = "initiator" THEN Keys ELSE r

Torn(d) == \E f \in Files : file[d][f] = "empty"

\* The addresses that are required and the keys that sign are read at different
\* times (genAuthRequirement, then signTxForAccount; GenTxInputs, then SendTx):
\* they belong together unless a directory changed in between, is a mix of two
\* accounts, or has a file that a killed command left empty.  A directory that
\* a killed command left with an address alone stops the command instead; one it
\* left with the keys alone does not stop a merge for an account, which then
\* names no initiator.
SignedAsRequired ==
    [][\A s \in Signers : spc'[s] # spc[s] /\ spc'[s] = "posted" /\ ~Matches(s)' =>
          \/ \E r \in DOMAIN req[s] \cup DOMAIN sig'[s] :
                 Place(r) \in forced \cup raced \cup moved[s] \/ Torn(Place(r))
          \/ op[s] = [cmd |-> "merge", account |-> TRUE] /\ req[s]["initiator"] = "none"]_vars

=============================================================================
