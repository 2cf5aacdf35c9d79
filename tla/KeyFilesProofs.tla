---------------------------- MODULE KeyFilesProofs ----------------------------
(***************************************************************************)
(* The key directories, for any number of directories, of commands that    *)
(* make accounts in them and of commands that sign with them.              *)
(***************************************************************************)
EXTENDS KeyFiles, TLAPS

Contents == Accounts \cup {"none", "empty"}

(* What commands and directories are made of; a command opens its files in *)
(* their order.                                                            *)
Types ==
    /\ cmd \in [Writers -> [kind : Kinds, dir : Dirs, force : BOOLEAN]]
    /\ wpc \in [Writers -> {"start", "checked", "writing", "open", "done", "failed", "killed"}]
    /\ begun \in [Writers -> Nat]
    /\ present \subseteq Dirs
    /\ file \in [Dirs -> [Files -> Contents]]

Clean(d) == d \notin forced \cup raced

Path(w) == Order(cmd[w].kind)

\* Two commands that are at one directory have overlapped there.
OneAtATime ==
    \A v, w \in Writers : v # w /\ Active(v) /\ Active(w) /\ cmd[v].dir = cmd[w].dir =>
        cmd[v].dir \in raced

\* RemoveAll takes the files with the directory, and an open file with it.
AbsentEmpty == \A d \in Dirs \ present : file[d] = NoFiles

\* What Stat has found is still so: whoever else goes on overlaps.
StatHolds ==
    \A w \in Writers :
        /\ wpc[w] \in {"start", "checked"} => begun[w] = 0
        /\ wpc[w] = "checked" /\ Clean(cmd[w].dir) => cmd[w].dir \notin present

\* The files a command has closed are its own, and nobody else's are there.
Own(w) ==
    /\ cmd[w].dir \in present
    /\ \A f \in Files : file[cmd[w].dir][f] \in {"none", "empty", w}
    /\ \A i \in 1..Len(Path(w)) :
          i < begun[w] \/ (i = begun[w] /\ wpc[w] # "open") => file[cmd[w].dir][Path(w)[i]] = w
    /\ wpc[w] = "open" => file[cmd[w].dir][Path(w)[begun[w]]] = "empty"

Counted(w) ==
    /\ wpc[w] = "writing" => begun[w] < Len(Path(w))
    /\ wpc[w] = "open" => begun[w] \in 1..Len(Path(w))
    /\ wpc[w] = "done" => begun[w] = Len(Path(w))

WritesOwn ==
    \A w \in Writers :
        wpc[w] \in {"writing", "open", "done"} => Counted(w) /\ (Clean(cmd[w].dir) => Own(w))

OneOwner ==
    \A d \in Dirs : Clean(d) => \E a \in Accounts : \A f \in Files : file[d][f] \in {"none", "empty", a}

IInv == Types /\ OneAtATime /\ AbsentEmpty /\ StatHolds /\ WritesOwn /\ OneOwner

---------------------------------------------------------------------------
(* The lists of files.                                                     *)

\* Every kind of command writes three or four files, each once.
LEMMA OrderFacts ==
  ASSUME NEW k \in Kinds
  PROVE  /\ Order(k) \in Seq(Files)
         /\ Len(Order(k)) \in 3..4
         /\ \A i, j \in 1..Len(Order(k)) : Order(k)[i] = Order(k)[j] => i = j
<1>1. CASE k = "newkeys"
  BY <1>1 DEF Order, ExportNewAccount, Files
<1>2. CASE k = "newmnemonic"
  BY <1>2 DEF Order, ExportNewAccountWithMnemonic, Files
<1>3. CASE k = "restore"
  BY <1>3 DEF Order, Restore, Files
<1>4. CASE k = "decrypt"
  BY <1>4 DEF Order, SaveAccount, Files
<1> QED
  BY <1>1, <1>2, <1>3, <1>4 DEF Kinds

\* The part of a command's files that the steps use
LEMMA PathFacts ==
  ASSUME Types, NEW w \in Writers
  PROVE  /\ Len(Path(w)) \in Nat /\ Len(Path(w)) >= 3
         /\ \A i \in 1..Len(Path(w)) : Path(w)[i] \in Files
         /\ \A i, j \in 1..Len(Path(w)) : Path(w)[i] = Path(w)[j] => i = j
<1>1. cmd[w].kind \in Kinds
  BY DEF Types
<1> QED
  BY <1>1, OrderFacts DEF Path

\* Accounts are no marks of files.
LEMMA Marks ==
    /\ \A a \in Accounts : a # "none" /\ a # "empty"
    /\ Writers \subseteq Accounts /\ Dirs \subseteq Accounts
  BY KeyFilesAssumption DEF Accounts

\* A command at work in a clean directory has it for itself.
LEMMA Alone ==
  ASSUME IInv, NEW v \in Writers, NEW w \in Writers, v # w, cmd[v].dir = cmd[w].dir,
         Clean(cmd[w].dir), Active(w)
  PROVE  wpc[v] \notin {"checked", "writing", "open", "done"}
<1>1. ~Active(v)
  BY DEF IInv, OneAtATime, Clean
<1>2. ASSUME wpc[v] = "done" PROVE FALSE
  <2>1. Own(v) /\ begun[v] = Len(Path(v))
    BY <1>2 DEF IInv, WritesOwn, Counted
  <2>2. /\ 1 \in 1..Len(Path(v)) /\ (1 < begun[v] \/ 1 = begun[v])
        /\ Path(v)[1] \in Files
    BY <2>1, PathFacts DEF IInv
  <2>3. file[cmd[w].dir][Path(v)[1]] = v /\ cmd[w].dir \in present
    BY <2>1, <2>2, <1>2 DEF Own
  <2>4. wpc[w] # "checked"
    BY <2>3 DEF IInv, StatHolds
  <2>5. Own(w)
    BY <2>4 DEF Active, IInv, WritesOwn
  <2> QED
    BY <2>2, <2>3, <2>5, Marks DEF Own
<1> QED
  BY <1>1, <1>2 DEF Active

---------------------------------------------------------------------------
(* Every step keeps the invariant.                                         *)

\* The initial states satisfy the invariant.
LEMMA InitInv == ASSUME Init PROVE IInv
<1>1. Types
  <2>1. ASSUME NEW d \in Dirs PROVE file[d] \in [Files -> Contents]
    BY Marks DEF Init, NoFiles, Contents
  <2>2. file \in [Dirs -> [Files -> Contents]]
    BY <2>1 DEF Init
  <2> QED
    BY <2>2 DEF Init, Types
<1>2. OneAtATime /\ StatHolds /\ WritesOwn
  BY DEF Init, OneAtATime, StatHolds, WritesOwn, Active
<1>3. AbsentEmpty
  BY DEF Init, AbsentEmpty
<1>4. OneOwner
  <2>1. ASSUME NEW d \in Dirs, NEW f \in Files PROVE file[d][f] \in {"none", "empty", d}
    BY DEF Init, NoFiles
  <2> QED
    BY <2>1, Marks DEF OneOwner
<1> QED
  BY <1>1, <1>2, <1>3, <1>4 DEF IInv

\* A step that leaves the directories alone, and every command but one, which
\* ends or goes past Stat.
LEMMA IdleInv ==
  ASSUME IInv, UNCHANGED <<cmd, begun, present, file>>, NEW w \in Writers,
         NEW to \in {"checked", "failed", "killed"}, wpc' = [wpc EXCEPT ![w] = to],
         forced \subseteq forced', raced \subseteq raced',
         to = "checked" =>
            /\ wpc[w] = "start"
            /\ Clean(cmd[w].dir)' => cmd[w].dir \notin present
            /\ \A v \in Writers : v # w /\ Active(v) /\ cmd[v].dir = cmd[w].dir => cmd[w].dir \in raced'
  PROVE  IInv'
<1> USE DEF IInv
<1>0. \A d \in Dirs : Clean(d)' => Clean(d)
  BY DEF Clean
<1>1. Types'
  BY DEF Types
<1>2. OneAtATime'
  BY DEF OneAtATime, Active, Types
<1>3. AbsentEmpty'
  BY DEF AbsentEmpty
<1>4. StatHolds'
  BY DEF StatHolds, Types, Clean
<1>5. WritesOwn'
  <2>1. ASSUME NEW v \in Writers, wpc'[v] \in {"writing", "open", "done"}
        PROVE  Counted(v)' /\ (Clean(cmd[v].dir)' => Own(v)')
    <3>1. v # w /\ wpc'[v] = wpc[v]
      BY <2>1 DEF Types
    <3>2. Counted(v) /\ (Clean(cmd[v].dir) => Own(v))
      BY <3>1, <2>1 DEF WritesOwn
    <3>3. Path(v)' = Path(v)
      BY DEF Path
    <3>4. Counted(v)'
      BY <3>1, <3>2, <3>3 DEF Counted
    <3>5. Own(v) => Own(v)'
      BY <3>1, <3>3 DEF Own
    <3>6. Clean(cmd[v].dir)' => Clean(cmd[v].dir)
      BY DEF Clean
    <3> QED
      BY <3>2, <3>4, <3>5, <3>6
  <2> QED
    BY <2>1 DEF WritesOwn
<1>6. OneOwner'
  BY <1>0 DEF OneOwner
<1> QED
  BY <1>1, <1>2, <1>3, <1>4, <1>5, <1>6

\* The check for the directory
LEMMA StatInv ==
  ASSUME IInv, NEW w \in Writers, Stat(w)
  PROVE  IInv'
<1>1. PICK to \in {"checked", "failed", "killed"} :
        /\ wpc' = [wpc EXCEPT ![w] = to]
        /\ to = "checked" => cmd[w].dir \notin present \/ cmd[w].force
  BY DEF Stat, WGoto
<1>2. forced \subseteq forced' /\ raced \subseteq raced'
  BY DEF Stat
<1>3. ASSUME to = "checked"
      PROVE  /\ wpc[w] = "start"
             /\ Clean(cmd[w].dir)' => cmd[w].dir \notin present
             /\ \A v \in Writers : v # w /\ Active(v) /\ cmd[v].dir = cmd[w].dir => cmd[w].dir \in raced'
  BY <1>1, <1>3 DEF Stat, Clean
<1> QED
  BY <1>1, <1>2, <1>3, IdleInv DEF Stat, dirVars

\* A command fails or is killed, and leaves the directories as they are.
LEMMA EndsInv ==
  ASSUME IInv, NEW w \in Writers,
         InputError(w) \/ Killed(w) \/ (WriteError(w) /\ UNCHANGED dirVars)
  PROVE  IInv'
<1>1. PICK to \in {"failed", "killed"} : wpc' = [wpc EXCEPT ![w] = to]
  BY DEF InputError, Killed, WriteError, WGoto
<1> QED
  BY <1>1, IdleInv DEF InputError, Killed, WriteError, dirVars

\* What a step of w at its own directory leaves of all other commands
LEMMA OthersInv ==
  ASSUME IInv, NEW w \in Writers, Active(w), UNCHANGED <<cmd, forced, raced>>,
         NEW to \in {"writing", "open", "done", "failed"}, wpc' = [wpc EXCEPT ![w] = to],
         \A v \in Writers \ {w} : begun'[v] = begun[v],
         \A d \in Dirs \ {cmd[w].dir} : file'[d] = file[d] /\ (d \in present' <=> d \in present),
         Types',
         cmd[w].dir \notin present' => file'[cmd[w].dir] = NoFiles,
         to = "failed" => file'[cmd[w].dir] = NoFiles,
         to # "failed" => Counted(w)' /\ (Clean(cmd[w].dir) => Own(w)')
  PROVE  IInv'
<1> USE DEF IInv
<1>0. \A d \in Dirs : Clean(d)' <=> Clean(d)
  BY DEF Clean
<1>1. \A v \in Writers : cmd[v].dir \in Dirs /\ (v # w => wpc'[v] = wpc[v])
  BY DEF Types
<1>2. wpc'[w] = to
  BY DEF Types
<1>3. OneAtATime'
  BY <1>1, <1>2 DEF OneAtATime, Active
<1>4. AbsentEmpty'
  BY DEF AbsentEmpty
<1>5. StatHolds'
  <2>1. ASSUME NEW v \in Writers, wpc'[v] \in {"start", "checked"}
        PROVE  begun'[v] = 0 /\ (wpc'[v] = "checked" /\ Clean(cmd[v].dir) => cmd[v].dir \notin present')
    <3>1. v # w /\ wpc[v] = wpc'[v] /\ begun'[v] = begun[v]
      BY <1>1, <1>2, <2>1
    <3>2. ASSUME cmd[v].dir = cmd[w].dir, Clean(cmd[v].dir) PROVE wpc[v] # "checked"
      BY <3>1, <3>2, Alone
    <3> QED
      BY <2>1, <3>1, <3>2, <1>1 DEF StatHolds
  <2> QED
    BY <2>1, <1>0, <1>1 DEF StatHolds
<1>6. WritesOwn'
  <2>1. ASSUME NEW v \in Writers, v # w, wpc'[v] \in {"writing", "open", "done"}
        PROVE  Counted(v)' /\ (Clean(cmd[v].dir) => Own(v)')
    <3>1. wpc[v] = wpc'[v] /\ begun'[v] = begun[v] /\ Path(v)' = Path(v)
      BY <1>1, <2>1 DEF Path
    <3>2. Counted(v) /\ (Clean(cmd[v].dir) => Own(v))
      BY <2>1, <3>1 DEF WritesOwn
    <3>3. Counted(v)'
      BY <3>1, <3>2 DEF Counted
    <3>4. ASSUME Clean(cmd[v].dir) PROVE Own(v)'
      <4>1. cmd[v].dir # cmd[w].dir
        BY <2>1, <3>1, <3>4, Alone
      <4>2. file'[cmd[v].dir] = file[cmd[v].dir] /\ (cmd[v].dir \in present' <=> cmd[v].dir \in present)
        BY <4>1, <1>1
      <4> QED
        BY <3>1, <3>2, <3>4, <4>2 DEF Own
    <3> QED
      BY <3>3, <3>4
  <2> QED
    BY <2>1, <1>0, <1>1, <1>2 DEF WritesOwn
<1>7. OneOwner'
  <2>1. ASSUME NEW d \in Dirs, Clean(d)
        PROVE  \E a \in Accounts : \A f \in Files : file'[d][f] \in {"none", "empty", a}
    <3>1. CASE d # cmd[w].dir
      BY <2>1, <3>1 DEF OneOwner
    <3>2. CASE d = cmd[w].dir /\ to = "failed"
      BY <3>2, Marks DEF NoFiles
    <3>3. CASE d = cmd[w].dir /\ to # "failed"
      BY <2>1, <3>3, Marks DEF Own
    <3> QED
      BY <3>1, <3>2, <3>3
  <2> QED
    BY <2>1, <1>0 DEF OneOwner
<1> QED
  BY <1>3, <1>4, <1>5, <1>6, <1>7

\* The directory is made.
LEMMA MkdirAllInv ==
  ASSUME IInv, NEW w \in Writers, MkdirAll(w)
  PROVE  IInv'
<1> USE DEF MkdirAll, WGoto
<1>1. Active(w) /\ cmd[w].dir \in Dirs /\ wpc'[w] = "writing" /\ begun[w] = 0
  BY DEF IInv, Types, StatHolds, Active
<1>2. Types'
  BY <1>1 DEF IInv, Types
<1>3. Path(w)' = Path(w)
  BY DEF Path
<1>4. Counted(w)'
  BY <1>1, <1>3, PathFacts DEF IInv, Counted
<1>5. ASSUME Clean(cmd[w].dir) PROVE Own(w)'
  <2>1. file[cmd[w].dir] = NoFiles
    BY <1>1, <1>5 DEF IInv, StatHolds, AbsentEmpty
  <2> QED
    BY <2>1, <1>1, <1>3 DEF Own, NoFiles
<1> QED
  BY <1>1, <1>2, <1>4, <1>5, OthersInv

\* A file is opened, and truncated.
LEMMA OpenInv ==
  ASSUME IInv, NEW w \in Writers, Open(w)
  PROVE  IInv'
<1> DEFINE d == cmd[w].dir
           n == begun[w] + 1
           f == Path(w)[n]
<1>1. /\ wpc[w] = "writing" /\ Active(w) /\ d \in Dirs /\ d \in present
      /\ wpc' = [wpc EXCEPT ![w] = "open"] /\ wpc'[w] = "open"
      /\ begun' = [begun EXCEPT ![w] = n] /\ begun'[w] = n /\ begun[w] \in Nat
      /\ present' = present
      /\ file' = [file EXCEPT ![d] = [file[d] EXCEPT ![f] = "empty"]]
      /\ UNCHANGED <<cmd, forced, raced>>
  BY DEF Open, WGoto, Change, IInv, Types, Active, Path
<1>2. Counted(w) /\ (Clean(d) => Own(w))
  BY <1>1 DEF IInv, WritesOwn
<1>3. n \in 1..Len(Path(w)) /\ f \in Files /\ Len(Path(w)) \in Nat
  BY <1>1, <1>2, PathFacts DEF IInv, Counted
<1>4. Types'
  BY <1>1, <1>3 DEF IInv, Types, Contents
<1>5. Path(w)' = Path(w)
  BY <1>1 DEF Path
<1>6. Counted(w)'
  BY <1>1, <1>3, <1>5 DEF Counted
<1>7. \A e \in Files : file'[d][e] = IF e = f THEN "empty" ELSE file[d][e]
  BY <1>1, <1>3 DEF IInv, Types
<1>8. ASSUME Clean(d) PROVE Own(w)'
  <2>1. ASSUME NEW i \in 1..Len(Path(w)), i < n PROVE file'[d][Path(w)[i]] = w
    <3>1. i < begun[w] \/ i = begun[w]
      BY <1>1, <2>1
    <3>2. Path(w)[i] \in Files /\ Path(w)[i] # f
      BY <1>3, <2>1, PathFacts DEF IInv
    <3> QED
      BY <1>1, <1>2, <1>7, <1>8, <3>1, <3>2 DEF Own
  <2>2. \A e \in Files : file'[d][e] \in {"none", "empty", w}
    BY <1>2, <1>7, <1>8 DEF Own
  <2> HIDE DEF n
  <2> QED
    BY <1>1, <1>3, <1>5, <1>7, <2>1, <2>2 DEF Own
<1>9. \A e \in Dirs \ {d} : file'[e] = file[e]
  BY <1>1 DEF IInv, Types
<1>10. \A v \in Writers \ {w} : begun'[v] = begun[v]
  BY <1>1 DEF IInv, Types
<1> HIDE DEF n, f
<1> QED
  BY <1>1, <1>4, <1>6, <1>8, <1>9, <1>10, OthersInv

\* A file is written and closed.
LEMMA WriteFileInv ==
  ASSUME IInv, NEW w \in Writers, WriteFile(w)
  PROVE  IInv'
<1> DEFINE d == cmd[w].dir
           n == begun[w]
           f == Path(w)[n]
           x == IF file[d][f] = "none" THEN "none" ELSE w
           to == IF n = Len(Path(w)) THEN "done" ELSE "writing"
<1>1. /\ wpc[w] = "open" /\ Active(w) /\ d \in Dirs /\ n \in Nat
      /\ wpc' = [wpc EXCEPT ![w] = to] /\ wpc'[w] = to
      /\ begun' = begun /\ present' = present
      /\ file' = [file EXCEPT ![d] = [file[d] EXCEPT ![f] = x]]
      /\ UNCHANGED <<cmd, forced, raced>>
  <2>1. Order(cmd[w].kind)[begun[w]] = f
    BY DEF Path
  <2>2. d \in Dirs /\ wpc \in [Writers -> {"start", "checked", "writing", "open", "done", "failed", "killed"}]
        /\ begun \in [Writers -> Nat] /\ file \in [Dirs -> [Files -> Contents]]
    BY DEF IInv, Types
  <2>3. wpc' = [wpc EXCEPT ![w] = to]
    BY DEF WriteFile, WGoto, Path
  <2>4. file' = [file EXCEPT ![d] = [file[d] EXCEPT ![f] = x]] /\ present' = present
    BY <2>1 DEF WriteFile, Change
  <2> QED
    BY <2>2, <2>3, <2>4 DEF WriteFile, Active
<1>2. Counted(w) /\ (Clean(d) => Own(w))
  BY <1>1 DEF IInv, WritesOwn
<1>3. n \in 1..Len(Path(w)) /\ f \in Files /\ Len(Path(w)) \in Nat
  BY <1>1, <1>2, PathFacts DEF IInv, Counted
<1>4. Types'
  <2>1. x \in Contents
    BY Marks DEF Contents
  <2> HIDE DEF x
  <2> QED
    BY <1>1, <1>3, <2>1 DEF IInv, Types
<1>5. Path(w)' = Path(w)
  BY <1>1 DEF Path
<1>6. Counted(w)'
  BY <1>1, <1>3, <1>5 DEF Counted
<1>7. \A e \in Files : file'[d][e] = IF e = f THEN x ELSE file[d][e]
  BY <1>1, <1>3 DEF IInv, Types
<1>8. ASSUME Clean(d) PROVE Own(w)'
  <2>1. x = w
    BY <1>1, <1>2, <1>8 DEF Own
  <2>2. ASSUME NEW i \in 1..Len(Path(w)), i <= n PROVE file'[d][Path(w)[i]] = w
    <3>1. Path(w)[i] \in Files
      BY PathFacts DEF IInv
    <3>2. CASE i = n
      BY <1>7, <2>1, <3>1, <3>2
    <3>3. CASE i < n
      <4>1. file[d][Path(w)[i]] = w
        BY <1>2, <1>8, <3>3 DEF Own
      <4> QED
        BY <1>7, <2>1, <3>1, <4>1
    <3> QED
      BY <1>1, <2>2, <3>2, <3>3
  <2>3. \A e \in Files : file'[d][e] \in {"none", "empty", w}
    BY <1>2, <1>7, <1>8, <2>1 DEF Own
  <2>4. d \in present'
    BY <1>1, <1>2, <1>8 DEF Own
  <2> QED
    BY <1>1, <1>3, <1>5, <2>2, <2>3, <2>4 DEF Own
<1>9. \A e \in Dirs \ {d} : file'[e] = file[e]
  BY <1>1 DEF IInv, Types
<1>10. ASSUME d \notin present' PROVE file'[d] = NoFiles
  <2>1. file[d] = NoFiles
    BY <1>1, <1>10 DEF IInv, AbsentEmpty
  <2>2. x = "none"
    BY <2>1, <1>3 DEF NoFiles
  <2> QED
    BY <2>1, <2>2, <1>1 DEF NoFiles
<1>11. to \in {"writing", "done"}
  OBVIOUS
<1> HIDE DEF n, f, x, to
<1> QED
  BY <1>1, <1>4, <1>6, <1>8, <1>9, <1>10, <1>11, OthersInv

\* A write fails, and the directory is removed.
LEMMA WriteErrorInv ==
  ASSUME IInv, NEW w \in Writers, WriteError(w)
  PROVE  IInv'
<1>1. CASE UNCHANGED dirVars
  BY <1>1, EndsInv
<1>2. CASE Change(cmd[w].dir, present \ {cmd[w].dir}, NoFiles)
  <2>1. /\ Active(w) /\ wpc' = [wpc EXCEPT ![w] = "failed"]
        /\ UNCHANGED <<cmd, begun, forced, raced>>
    BY DEF WriteError, WGoto, Active
  <2>2. /\ present' = present \ {cmd[w].dir}
        /\ file' = [file EXCEPT ![cmd[w].dir] = NoFiles]
    BY <1>2 DEF Change
  <2>3. cmd[w].dir \in Dirs /\ NoFiles \in [Files -> Contents]
    BY DEF IInv, Types, NoFiles, Contents
  <2>4. Types'
    BY <2>1, <2>2, <2>3 DEF IInv, Types
  <2>5. /\ file'[cmd[w].dir] = NoFiles
        /\ \A d \in Dirs \ {cmd[w].dir} : file'[d] = file[d] /\ (d \in present' <=> d \in present)
    BY <2>2, <2>3 DEF IInv, Types
  <2> QED
    BY <2>1, <2>4, <2>5, OthersInv
<1> QED
  BY <1>1, <1>2 DEF WriteError

\* Every step keeps the invariant.
LEMMA NextInv == IInv /\ [Next]_vars => IInv'
<1> SUFFICES ASSUME IInv, [Next]_vars PROVE IInv'
  OBVIOUS
<1>1. ASSUME NEW w \in Writers,
             \/ Stat(w) \/ InputError(w) \/ MkdirAll(w) \/ WriteFile(w) \/ WriteError(w)
             \/ Killed(w) \/ Open(w)
      PROVE  IInv'
  BY <1>1, StatInv, EndsInv, MkdirAllInv, WriteFileInv, WriteErrorInv, OpenInv
<1>2. ASSUME UNCHANGED <<cmd, wpc, begun, present, file, forced, raced>> PROVE IInv'
  BY <1>2 DEF IInv, Types, OneAtATime, AbsentEmpty, StatHolds, WritesOwn, OneOwner, Own, Counted,
     Path, Clean, Active
<1>3. ASSUME NEW s \in Signers, Require(s) \/ Sign(s) \/ \E o \in Operations : Ask(s, o) PROVE IInv'
  BY <1>2, <1>3 DEF Ask, Require, Sign, writeVars, dirVars
<1>4. CASE UNCHANGED vars
  BY <1>2, <1>4 DEF vars
<1> QED
  BY <1>1, <1>3, <1>4 DEF Next

\* The inductive invariant holds in every reachable state.
LEMMA Inductive == Spec => []IInv
  BY InitInv, NextInv, PTL DEF Spec

---------------------------------------------------------------------------
(* The theorems.                                                           *)

\* The check for an existing directory (account_newkeys.go:52,
\* account_restore.go:72, account_decrypt.go:57) keeps accounts apart and whole,
\* over failures and kills, where nobody forced or overlapped.
THEOREM AccountsApart == Spec => []OneAccountPerDir
<1>1. ASSUME IInv PROVE OneAccountPerDir
  <2>1. ASSUME NEW d \in Dirs, Clean(d), NEW a \in Accounts, NEW b \in Accounts,
               Holds(d, a), Holds(d, b)
        PROVE  a = b
    BY <1>1, <2>1, Marks DEF IInv, OneOwner, Holds
  <2>2. ASSUME NEW d \in Dirs, Clean(d), NEW w \in Writers, wpc[w] = "done", cmd[w].dir = d,
               NEW f \in Range(Path(w))
        PROVE  file[d][f] = w
    <3>1. Own(w) /\ begun[w] = Len(Path(w)) /\ Len(Path(w)) \in Nat
      BY <1>1, <2>2, PathFacts DEF IInv, WritesOwn, Counted
    <3>2. Path(w) \in Seq(Files)
      BY <1>1, OrderFacts DEF IInv, Types, Path
    <3>3. PICK i \in 1..Len(Path(w)) : f = Path(w)[i]
      BY <2>2, <3>2 DEF Range
    <3> QED
      BY <2>2, <3>1, <3>3 DEF Own
  <2> QED
    BY <2>1, <2>2 DEF OneAccountPerDir, Clean, Path
<1> QED
  BY <1>1, Inductive, PTL

\* No command destroys the account of another one, by writing or by the clean-up
\* of newkeys (account_newkeys.go:65 and 72), without --force or an overlap.
THEOREM KeysAreKept == Spec => KeysSurvive
<1>1. ASSUME IInv, [Next]_vars, NEW d \in Dirs, NEW a \in Accounts, Whole(d, a),
             Clean(d), ~(a \in Writers /\ Active(a))
      PROVE  Whole(d, a)'
  <2>1. CASE file'[d] = file[d]
    BY <1>1, <2>1 DEF Whole
  <2>2. ASSUME NEW w \in Writers, cmd[w].dir = d, wpc[w] \in {"writing", "open"} PROVE FALSE
    <3>1. Own(w) /\ a # w
      BY <1>1, <2>2 DEF IInv, WritesOwn, Active
    <3>2. "address" \in Files \ {"mnemonic"}
      BY DEF Files
    <3> QED
      BY <1>1, <2>2, <3>1, <3>2, Marks DEF Own, Whole
  <2>3. ASSUME NEW w \in Writers, Open(w) \/ WriteFile(w) \/ WriteError(w), cmd[w].dir # d
        PROVE  file'[d] = file[d]
    BY <1>1, <2>3 DEF IInv, Types, Open, WriteFile, WriteError, Change, dirVars
  <2>4. ASSUME NEW w \in Writers, Open(w) \/ WriteFile(w) \/ WriteError(w)
        PROVE  file'[d] = file[d]
    BY <2>2, <2>3, <2>4 DEF Open, WriteFile, WriteError
  <2>5. ASSUME NEW w \in Writers, Stat(w) \/ InputError(w) \/ MkdirAll(w) \/ Killed(w)
        PROVE  file'[d] = file[d]
    BY <2>5 DEF Stat, InputError, MkdirAll, Killed, dirVars
  <2>6. ASSUME NEW s \in Signers, Require(s) \/ Sign(s) \/ \E o \in Operations : Ask(s, o)
        PROVE  file'[d] = file[d]
    BY <2>6 DEF Ask, Require, Sign, dirVars
  <2> QED
    BY <1>1, <2>1, <2>4, <2>5, <2>6 DEF Next, vars
<1>2. IInv /\ [Next]_vars =>
        [\A d \in Dirs, a \in Accounts :
            Whole(d, a) => \/ Whole(d, a)'
                           \/ d \in forced \cup raced
                           \/ a \in Writers /\ Active(a)]_vars
  BY <1>1 DEF Clean
<1> QED
  BY <1>2, Inductive, PTL DEF Spec, KeysSurvive

---------------------------------------------------------------------------
(* The commands that sign.                                                 *)

(* What a command that waits for the node has read holds still of every    *)
(* directory that did not change.                                          *)
Asked(s) ==
    /\ op[s] \in Operations
    /\ "initiator" \in DOMAIN req[s] /\ DOMAIN req[s] \subseteq Dirs \cup {"initiator"}
    /\ spc[s] = "named" => op[s].account
    /\ ~op[s].account => DOMAIN req[s] = {"initiator"}
    /\ op[s] # [cmd |-> "merge", account |-> TRUE] => req[s]["initiator"] # "none"
    /\ \A r \in DOMAIN req[s] :
          /\ r # "initiator" => req[s][r] # "none"
          /\ Place(r) \notin moved[s] => req[s][r] = file[Place(r)]["address"]
    /\ spc[s] = "asked" /\ op[s].account =>
          \A d \in Dirs \ moved[s] : d \in listAKs => d \in DOMAIN req[s]
    /\ op[s].cmd = "transfer" /\ Keys \notin moved[s] =>
          keyPair(Keys) /\ sig[s]["initiator"] = KeysOf(Keys)

SInv ==
    /\ DOMAIN op = Signers /\ DOMAIN spc = Signers
    /\ DOMAIN req = Signers /\ DOMAIN sig = Signers
    /\ \A s \in Signers : Waits(s) => Asked(s)

\* The initiator is no directory.
LEMMA Places ==
    /\ "initiator" \notin Dirs /\ Keys \in Dirs
    /\ Place("initiator") = Keys /\ \A d \in Dirs : Place(d) = d
  BY KeyFilesAssumption DEF Place

\* A directory that stays as it is keeps what was read of it.
LEMMA AskedStays ==
  ASSUME IInv, NEW s \in Signers, Asked(s),
         op'[s] = op[s], spc'[s] = spc[s], req'[s] = req[s], sig'[s] = sig[s],
         moved[s] \subseteq moved'[s],
         \A d \in Dirs \ moved'[s] : file'[d] = file[d] /\ (d \in listAKs' <=> d \in listAKs)
  PROVE  Asked(s)'
<1>1. ASSUME NEW r \in DOMAIN req[s]
      PROVE  Place(r)' \notin moved'[s] => req'[s][r] = file'[Place(r)]["address"]
  <2>1. Place(r) \in Dirs /\ Place(r)' = Place(r)
    BY Places DEF Asked, Place
  <2> QED
    BY <2>1 DEF Asked
<1> QED
  BY <1>1, Places DEF Asked, keyPair, KeysOf

\* What commands that make accounts do to the directories
LEMMA WriterMoves ==
  ASSUME IInv, NEW w \in Writers,
         \/ Stat(w) \/ InputError(w) \/ MkdirAll(w) \/ WriteFile(w) \/ WriteError(w)
         \/ Killed(w) \/ Open(w)
  PROVE  /\ UNCHANGED signVars
         /\ \A s \in Signers : Waits(s) =>
               /\ moved[s] \subseteq moved'[s]
               /\ \A d \in Dirs \ moved'[s] : file'[d] = file[d] /\ (d \in listAKs' <=> d \in listAKs)
<1>1. UNCHANGED signVars
  BY DEF Stat, InputError, MkdirAll, WriteFile, WriteError, Killed, Open
<1>2. CASE UNCHANGED dirVars
  BY <1>1, <1>2 DEF dirVars, listAKs
<1>3. CASE MkdirAll(w)
  <2>1. present' = present \cup {cmd[w].dir} /\ UNCHANGED <<file, moved>>
    BY <1>3 DEF MkdirAll
  <2>2. \A d \in Dirs : d \in present' /\ d \notin present => file[d]["address"] = "none"
    BY DEF IInv, AbsentEmpty, NoFiles, Files
  <2>3. \A d \in Dirs : d \in listAKs' <=> d \in listAKs
    BY <2>1, <2>2 DEF listAKs
  <2> QED
    BY <1>1, <2>1, <2>3
<1>4. CASE \E p, fs : Change(cmd[w].dir, p, fs) /\ (p = present \/ p = present \ {cmd[w].dir})
  <2> DEFINE c == cmd[w].dir
  <2>1. /\ file' = [file EXCEPT ![c] = file'[c]] /\ (present' = present \/ present' = present \ {c})
        /\ moved' = [s \in Signers |-> IF Waits(s) THEN moved[s] \cup {c} ELSE moved[s]]
    BY <1>4 DEF Change, IInv, Types
  <2>2. c \in Dirs
    BY DEF IInv, Types
  <2> HIDE DEF c
  <2>3. \A d \in Dirs \ {c} : file'[d] = file[d] /\ (d \in present' <=> d \in present)
    BY <2>1, <2>2 DEF IInv, Types
  <2>4. \A d \in Dirs \ {c} : d \in listAKs' <=> d \in listAKs
    BY <2>3 DEF listAKs
  <2> QED
    BY <1>1, <2>1, <2>3, <2>4
<1> QED
  BY <1>2, <1>3, <1>4 DEF Stat, InputError, WriteFile, WriteError, Killed, Open

\* What Ask has read is what is there.
LEMMA AskReads ==
  ASSUME IInv, SInv, NEW s \in Signers, NEW o \in Operations, Ask(s, o), Waits(s)'
  PROVE  Asked(s)'
<1> DEFINE ok == /\ Keys \in listAKs \/ (o.cmd = "merge" /\ o.account)
                 /\ o.cmd \in {"transfer", "merge"} => keyPair(Keys)
<1>1. /\ spc' = [spc EXCEPT ![s] = IF ~ok THEN "failed"
                                   ELSE IF o.account THEN "named" ELSE "asked"]
      /\ req' = [req EXCEPT ![s] = IF ok THEN [r \in {"initiator"} |-> file[Keys]["address"]] ELSE @]
      /\ sig' = [sig EXCEPT ![s] = IF ok /\ o.cmd = "transfer"
                                   THEN [r \in {"initiator"} |-> KeysOf(Keys)] ELSE @]
      /\ op' = [op EXCEPT ![s] = o] /\ UNCHANGED <<writeVars, dirVars>>
  BY DEF Ask
<1>2. ok
  BY <1>1 DEF SInv, Waits
<1>3. /\ op'[s] = o /\ spc'[s] = IF o.account THEN "named" ELSE "asked"
      /\ req'[s] = [r \in {"initiator"} |-> file[Keys]["address"]]
      /\ o.cmd = "transfer" => sig'[s] = [r \in {"initiator"} |-> KeysOf(Keys)]
  BY <1>1, <1>2 DEF SInv
<1>4. Keys \in listAKs \/ (o.cmd = "merge" /\ o.account)
  BY <1>2
<1>5. o.cmd = "transfer" => keyPair(Keys)
  BY <1>2
<1>6. Keys \in listAKs => file[Keys]["address"] # "none"
  BY DEF listAKs
<1>7. o.cmd = "merge" /\ o.account => o = [cmd |-> "merge", account |-> TRUE]
  BY DEF Operations
<1>8. /\ file' = file /\ moved' = moved
      /\ (keyPair(Keys)' <=> keyPair(Keys)) /\ KeysOf(Keys)' = KeysOf(Keys)
  BY <1>1 DEF dirVars, keyPair, KeysOf
<1> HIDE DEF ok
<1>9. "initiator" \in DOMAIN req'[s] /\ DOMAIN req'[s] = {"initiator"}
  BY <1>3
<1>10. req'[s]["initiator"] = file'[Keys]["address"]
  BY <1>3, <1>8
<1>11. o.cmd = "transfer" => sig'[s]["initiator"] = KeysOf(Keys)'
  BY <1>3, <1>8
<1>12. ~(spc'[s] = "asked" /\ o.account)
  BY <1>3
<1> QED
  BY <1>3, <1>4, <1>5, <1>6, <1>7, <1>8, <1>9, <1>10, <1>11, <1>12, Places DEF Asked, Place

\* Require adds the directories that are there, as they are.
LEMMA RequireReads ==
  ASSUME IInv, SInv, NEW s \in Signers, Require(s)
  PROVE  Asked(s)'
<1>1. Asked(s) /\ spc[s] = "named"
  BY DEF Require, SInv, Waits
<1>2. /\ op'[s] = op[s] /\ sig'[s] = sig[s] /\ file' = file /\ moved' = moved /\ present' = present
      /\ req'[s] = [r \in listAKs \cup {"initiator"} |->
                       IF r = "initiator" THEN req[s][r] ELSE file[r]["address"]]
  BY DEF Require, SInv, dirVars
<1>3. listAKs' = listAKs /\ listAKs \subseteq Dirs
  BY <1>2 DEF listAKs, IInv, Types
<1>4. DOMAIN req'[s] = listAKs \cup {"initiator"} /\ req'[s]["initiator"] = req[s]["initiator"]
  BY <1>2
<1>5. \A d \in listAKs : req'[s][d] = file[d]["address"] /\ file[d]["address"] # "none"
  BY <1>2, <1>3, Places DEF listAKs
<1>6. Place("initiator") = Keys /\ \A d \in listAKs : Place(d) = d
  BY <1>3, Places
<1>7. ASSUME NEW r \in DOMAIN req'[s]
      PROVE  /\ r # "initiator" => req'[s][r] # "none"
             /\ Place(r)' \notin moved'[s] => req'[s][r] = file'[Place(r)]["address"]
  <2>1. CASE r = "initiator"
    BY <1>1, <1>2, <1>4, <1>6, <2>1 DEF Asked, Place
  <2>2. CASE r \in listAKs
    BY <1>2, <1>5, <1>6, <2>2 DEF Place
  <2> QED
    BY <1>4, <1>7, <2>1, <2>2
<1>8. op[s].account
  BY <1>1 DEF Asked
<1> QED
  BY <1>1, <1>2, <1>3, <1>4, <1>7, <1>8 DEF Asked, Place, keyPair, KeysOf

\* A step of one signer is none of another.
LEMMA SignerInv ==
  ASSUME IInv, SInv, NEW s \in Signers, Require(s) \/ Sign(s) \/ \E o \in Operations : Ask(s, o)
  PROVE  SInv'
<1>1. /\ UNCHANGED <<writeVars, dirVars>>
      /\ DOMAIN op' = Signers /\ DOMAIN spc' = Signers /\ DOMAIN req' = Signers /\ DOMAIN sig' = Signers
  BY DEF Ask, Require, Sign, SInv
<1>2. \A r \in Signers \ {s} :
         op'[r] = op[r] /\ spc'[r] = spc[r] /\ req'[r] = req[r] /\ sig'[r] = sig[r]
  BY DEF Ask, Require, Sign, SInv
<1>3. ASSUME NEW r \in Signers \ {s}, Waits(r)' PROVE Asked(r)'
  <2>1. Asked(r) /\ r \in Signers
    BY <1>2, <1>3 DEF SInv, Waits
  <2>2. moved'[r] = moved[r] /\ listAKs' = listAKs /\ file' = file
    BY <1>1 DEF dirVars, listAKs
  <2> QED
    BY <1>2, <1>3, <2>1, <2>2, AskedStays
<1>4. Sign(s) => ~Waits(s)'
  BY DEF Sign, SInv, Waits
<1>5. Waits(s)' => Asked(s)'
  BY <1>4, AskReads, RequireReads
<1> QED
  BY <1>1, <1>3, <1>5 DEF SInv

\* The invariant of the signers holds in every reachable state.
LEMMA SignersInductive == Spec => []SInv
<1>1. Init => SInv
  BY DEF Init, SInv, Waits
<1>2. IInv /\ SInv /\ [Next]_vars => SInv'
  <2>1. SUFFICES ASSUME IInv, SInv, [Next]_vars PROVE SInv'
    OBVIOUS
  <2>2. ASSUME NEW w \in Writers,
               \/ Stat(w) \/ InputError(w) \/ MkdirAll(w) \/ WriteFile(w) \/ WriteError(w)
               \/ Killed(w) \/ Open(w)
        PROVE  SInv'
    <3>1. /\ UNCHANGED signVars
          /\ \A s \in Signers : Waits(s) =>
                /\ moved[s] \subseteq moved'[s]
                /\ \A d \in Dirs \ moved'[s] : file'[d] = file[d] /\ (d \in listAKs' <=> d \in listAKs)
      BY <2>1, <2>2, WriterMoves
    <3>2. ASSUME NEW s \in Signers, Waits(s)' PROVE Asked(s)'
      BY <2>1, <3>1, <3>2, AskedStays DEF SInv, signVars, Waits
    <3> QED
      BY <2>1, <3>1, <3>2 DEF SInv, signVars
  <2>3. CASE UNCHANGED vars
    BY <2>1, <2>3 DEF SInv, Asked, Waits, Place, keyPair, KeysOf, listAKs, vars
  <2> QED
    BY <2>1, <2>2, <2>3, SignerInv DEF Next
<1> QED
  BY <1>1, <1>2, Inductive, PTL DEF Spec

\* The files of a directory that is neither mixed nor torn are of one account.
LEMMA OneKey ==
  ASSUME IInv, NEW d \in Dirs, Clean(d), ~Torn(d), file[d]["address"] # "none", keyPair(d)
  PROVE  KeysOf(d) = {file[d]["address"]}
<1>1. PICK a \in Accounts : \A f \in Files : file[d][f] \in {"none", "empty", a}
  BY DEF IInv, OneOwner
<1>2. {"address", "public.key", "private.key"} \subseteq Files
  BY DEF Files
<1> QED
  BY <1>1, <1>2 DEF Torn, keyPair, KeysOf

\* The addresses a transaction requires and the keys that sign it, read at
\* different times, belong together, unless a directory changed in between, is a
\* mix, or has a file that was left empty, or a merge names no initiator.
THEOREM SignaturesMatch == Spec => SignedAsRequired
<1>1. ASSUME IInv, SInv, [Next]_vars, NEW s \in Signers, spc'[s] # spc[s], spc'[s] = "posted",
             op[s] = [cmd |-> "merge", account |-> TRUE] => req[s]["initiator"] # "none",
             \A r \in DOMAIN req[s] \cup DOMAIN sig'[s] :
                Place(r) \notin forced \cup raced \cup moved[s] /\ ~Torn(Place(r))
      PROVE  Matches(s)'
  <2> DEFINE used == IF op[s].account THEN listAKs ELSE {}
             ok == /\ \A d \in used : keyPair(d)
                   /\ op[s].cmd # "transfer" => keyPair(Keys)
                   /\ op[s].cmd = "invoke" => Keys \in listAKs
             initiator == CASE op[s].cmd = "transfer" -> sig[s]["initiator"]
                            [] op[s].cmd = "invoke" -> KeysOf(Keys) \cup {file[Keys]["address"]}
                            [] OTHER -> KeysOf(Keys)
  <2>1. Sign(s)
    <3>1. ASSUME NEW w \in Writers,
                 \/ Stat(w) \/ InputError(w) \/ MkdirAll(w) \/ WriteFile(w) \/ WriteError(w)
                 \/ Killed(w) \/ Open(w)
          PROVE  FALSE
      BY <1>1, <3>1, WriterMoves DEF signVars
    <3>2. ASSUME NEW r \in Signers, Require(r) \/ \E o \in Operations : Ask(r, o) PROVE FALSE
      BY <1>1, <3>2 DEF Ask, Require, SInv
    <3>3. ASSUME NEW r \in Signers, Sign(r) PROVE r = s
      BY <1>1, <3>3 DEF Sign, SInv
    <3> QED
      BY <1>1, <3>1, <3>2, <3>3 DEF Next, vars
  <2>2. /\ spc[s] = "asked" /\ spc' = [spc EXCEPT ![s] = IF ok THEN "posted" ELSE "failed"]
        /\ sig' = [sig EXCEPT ![s] =
              IF ok THEN [r \in used \cup {"initiator"} |->
                            IF r = "initiator" THEN initiator ELSE KeysOf(r)]
                    ELSE @]
        /\ UNCHANGED req
    BY <2>1 DEF Sign
  <2>3. ok /\ Asked(s) /\ op[s] \in Operations
    BY <1>1, <2>2 DEF SInv, Waits, Asked
  <2>4. /\ sig'[s] = [r \in used \cup {"initiator"} |->
                         IF r = "initiator" THEN initiator ELSE KeysOf(r)]
        /\ DOMAIN sig'[s] = used \cup {"initiator"}
    <3> HIDE DEF used, ok, initiator
    <3>1. sig'[s] = [r \in used \cup {"initiator"} |->
                       IF r = "initiator" THEN initiator ELSE KeysOf(r)]
      BY <1>1, <2>2, <2>3 DEF SInv
    <3> QED
      BY <3>1
  <2>5. used \subseteq Dirs
    BY <1>1 DEF listAKs, IInv, Types
  <2>6. ASSUME NEW r \in DOMAIN req[s], keyPair(Place(r)) PROVE KeysOf(Place(r)) = {req[s][r]}
    <3>1. /\ req[s][r] # "none" /\ req[s][r] = file[Place(r)]["address"]
          /\ Place(r) \in Dirs /\ Clean(Place(r)) /\ ~Torn(Place(r))
      BY <1>1, <2>3, <2>6, Places DEF Asked, Clean
    <3> QED
      BY <1>1, <2>6, <3>1, OneKey
  <2>7. initiator = {req[s]["initiator"]}
    <3>1. "initiator" \in DOMAIN req[s] /\ Place("initiator") = Keys /\ Keys \notin moved[s]
      BY <1>1, <2>3, Places DEF Asked
    <3>2. keyPair(Keys)
      BY <2>3, <3>1 DEF Asked
    <3>3. KeysOf(Keys) = {req[s]["initiator"]}
      BY <2>6, <3>1, <3>2
    <3>4. file[Keys]["address"] = req[s]["initiator"]
      BY <2>3, <3>1 DEF Asked
    <3>5. op[s].cmd = "transfer" => sig[s]["initiator"] = KeysOf(Keys)
      BY <2>3, <3>1 DEF Asked
    <3> QED
      BY <3>3, <3>4, <3>5
  <2>8. DOMAIN req[s] = used \cup {"initiator"}
    <3>1. "initiator" \in DOMAIN req[s]
      BY <2>3 DEF Asked
    <3>2. ASSUME NEW d \in used PROVE d \in DOMAIN req[s]
      <4>1. d \in Dirs \ moved[s] /\ op[s].account /\ d \in listAKs
        BY <1>1, <2>4, <2>5, <3>2, Places
      <4> QED
        BY <2>2, <2>3, <4>1 DEF Asked
    <3>3. ASSUME NEW r \in DOMAIN req[s], r # "initiator" PROVE r \in used
      <4>1. r \in Dirs /\ Place(r) = r /\ op[s].account
        BY <2>3, <3>3, Places DEF Asked
      <4>2. file[r]["address"] # "none"
        BY <1>1, <2>3, <3>3, <4>1 DEF Asked
      <4>3. r \in present
        BY <1>1, <4>1, <4>2 DEF IInv, AbsentEmpty, NoFiles, Files
      <4> QED
        BY <4>1, <4>2, <4>3 DEF listAKs
    <3> HIDE DEF used
    <3> QED
      BY <3>1, <3>2, <3>3
  <2>9. ASSUME NEW d \in used PROVE sig'[s][d] = {req[s][d]}
    <3>1. keyPair(d) /\ d \in DOMAIN req[s] /\ Place(d) = d /\ d # "initiator"
      BY <2>3, <2>5, <2>8, <2>9, Places
    <3>2. sig'[s][d] = KeysOf(d)
      BY <2>4, <2>9, <3>1
    <3> QED
      BY <2>6, <3>1, <3>2
  <2>10. sig'[s]["initiator"] = {req[s]["initiator"]}
    BY <2>4, <2>7
  <2> HIDE DEF used
  <2> QED
    BY <2>2, <2>4, <2>8, <2>9, <2>10 DEF Matches
<1>2. IInv /\ SInv /\ [Next]_vars =>
        [\A s \in Signers : spc'[s] # spc[s] /\ spc'[s] = "posted" /\ ~Matches(s)' =>
            \/ \E r \in DOMAIN req[s] \cup DOMAIN sig'[s] :
                  Place(r) \in forced \cup raced \cup moved[s] \/ Torn(Place(r))
            \/ op[s] = [cmd |-> "merge", account |-> TRUE] /\ req[s]["initiator"] = "none"]_vars
  BY <1>1
<1> QED
  BY <1>2, Inductive, SignersInductive, PTL DEF Spec, SignedAsRequired

=============================================================================
