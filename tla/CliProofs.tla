------------------------------- MODULE CliProofs -------------------------------
(***************************************************************************)
(* What a command of cli.cpp does to the files it is given, for any set of *)
(* paths, any sizes of them and any number of commands: OutputSpared, with *)
(* nothing said of what the cells of a file are, and Delivered, for which  *)
(* the contents there can be are gathered in a set.                        *)
(***************************************************************************)
EXTENDS Cli, SequenceTheorems, TLAPS

InMemory == {"read", "code", "create", "write"}
Streamed == {"size", "open", "header", "copy"}

\* The command is one there is, and takes the path through the code it should.
Running ==
    /\ DOMAIN files = Paths
    /\ command \in Commands
    /\ pc \in InMemory => ~command.stream
    /\ pc \in Streamed => command.stream
    /\ pc \in {"create", "write", "close"} => Mode # "t"

\* In memory no file is opened for writing before there is something to write.
Untouched ==
    pc \in {"read", "code", "create"} => \A p \in Paths : files[p] = before[p]

\* What is to be written is made of the input as it was found.
Ready ==
    /\ pc = "code" => data = before[From]
    /\ pc \in {"create", "write", "close"} /\ ~command.stream =>
          CanCode(Mode, before[From]) /\ data = Coded(Mode, before[From])

IInv == Running /\ Untouched /\ Ready /\ OutputSpared

------------------------------------------------------------------------------

\* A shell before any command has changed nothing.
LEMMA InitIInv == Init => IInv
<1> SUFFICES ASSUME Init PROVE IInv
  OBVIOUS
<1>1. DOMAIN files = Paths /\ pc = "shell" /\ before = files
  BY DEF Init
<1>2. command \in Commands
  <2>1. PICK p \in Paths : TRUE
    BY CliAssumption
  <2>2. [mode |-> "t", stream |-> FALSE, from |-> p, to |-> p] \in Commands
    BY <2>1 DEF Commands, Modes
  <2> QED
    BY <2>2 DEF Init
<1> QED
  BY <1>1, <1>2 DEF IInv, Running, Untouched, Ready, OutputSpared, InMemory, Streamed

\* A step that starts no command and reads or codes nothing.
Carries == UNCHANGED <<command, before, data>>

\* A streaming command may do to its output what it likes.
LEMMA StreamingKeeps ==
    ASSUME IInv, Carries, command.stream,
           pc' \in Streamed \cup {"close", "report", "shell"}, Mode # "t",
           files' = files \/ \E v : files' = [files EXCEPT ![To] = v]
    PROVE  IInv'
<1>1. DOMAIN files' = Paths /\ \A p \in Paths : p # To => files'[p] = files[p]
  BY DEF IInv, Running
<1>2. UNCHANGED <<Mode, From, To>>
  BY DEF Carries, Mode, From, To
<1>3. Running' /\ Untouched' /\ Ready'
  BY <1>1, <1>2 DEF IInv, Running, Untouched, Ready, Carries, InMemory, Streamed
<1>4. OutputSpared'
  BY <1>1, <1>2 DEF IInv, OutputSpared, Carries
<1> QED
  BY <1>3, <1>4 DEF IInv

\* A command in memory may once its result is there.
LEMMA WritingKeeps ==
    ASSUME IInv, Carries, ~command.stream, pc \in {"create", "write", "close"},
           pc' \in {"write", "close", "report", "shell"},
           files' = files \/ \E v : files' = [files EXCEPT ![To] = v]
    PROVE  IInv'
<1>1. DOMAIN files' = Paths /\ \A p \in Paths : p # To => files'[p] = files[p]
  BY DEF IInv, Running
<1>2. UNCHANGED <<Mode, From, To>>
  BY DEF Carries, Mode, From, To
<1>3. Mode # "t" /\ CanCode(Mode, before[From]) /\ data = Coded(Mode, before[From])
  BY DEF IInv, Running, Ready
<1>4. Running' /\ Untouched'
  BY <1>1, <1>2, <1>3 DEF IInv, Running, Untouched, Carries, InMemory, Streamed
<1>5. Ready'
  BY <1>2, <1>3 DEF Ready, Carries, CanCode, Coded, Whole, HasHeader, Unpack, Pack, HeaderCell, NoFile
<1>6. OutputSpared'
  BY <1>1, <1>2, <1>3 DEF IInv, OutputSpared, Carries, CanCode, Coded, Whole, HasHeader, Unpack, Pack, HeaderCell, NoFile
<1> QED
  BY <1>4, <1>5, <1>6 DEF IInv

\* One that ends, or has ended, leaves the files as they are.
LEMMA EndingKeeps ==
    ASSUME IInv, Carries, files' = files, pc' \in {"report", "shell"}
    PROVE  IInv'
<1>1. UNCHANGED <<Mode, From, To>>
  BY DEF Carries, Mode, From, To
<1>2. Running' /\ Untouched' /\ Ready'
  BY <1>1 DEF IInv, Running, Untouched, Ready, Carries, InMemory, Streamed
<1>3. OutputSpared'
  BY <1>1 DEF IInv, OutputSpared, Carries, CanCode, Coded, Whole, HasHeader, Unpack, Pack, HeaderCell, NoFile
<1> QED
  BY <1>2, <1>3 DEF IInv

\* A command finds the files as they are.
LEMMA StartKeeps ==
    ASSUME IInv, NEW c \in Commands, Start(c)
    PROVE  IInv'
<1>1. /\ command' = c /\ before' = files /\ files' = files
      /\ pc' \in {"shell", "read", "size", "open"}
      /\ pc' = "read" => ~c.stream
      /\ pc' \in {"size", "open"} => c.stream
  BY DEF Start, Exit
<1> QED
  BY <1>1 DEF IInv, Running, Untouched, Ready, OutputSpared, InMemory, Streamed

\* In memory: the input is read as it was found, and coded.
LEMMA ReadingKeeps ==
    ASSUME IInv, ReadFile \/ Code
    PROVE  IInv'
<1>1. /\ UNCHANGED <<command, before, files, Mode, From, To>>
  BY DEF ReadFile, Code, Unwritten, Called, Mode, From, To
<1>2. From \in Paths /\ ~command.stream /\ \A p \in Paths : files[p] = before[p]
  BY DEF IInv, Running, Untouched, InMemory, ReadFile, Code, Commands, From
<1>3. OutputSpared'
  BY <1>1, <1>2 DEF OutputSpared
<1>4. Untouched'
  BY <1>1, <1>2 DEF Untouched
<1>5. CASE ReadFile
  <2>1. (pc' = "code" /\ data' = before[From]) \/ pc' = "shell"
    BY <1>2, <1>5 DEF ReadFile, Go, Exit
  <2>2. Running' /\ Ready'
    BY <1>1, <1>2, <2>1 DEF IInv, Running, Ready, InMemory, Streamed
  <2> QED
    BY <1>3, <1>4, <2>2 DEF IInv
<1>6. CASE Code
  <2>1. \/ pc' = "create" /\ Mode # "t" /\ CanCode(Mode, data) /\ data' = Coded(Mode, data)
        \/ pc' = "shell"
    BY <1>6 DEF Code, Go, Exit
  <2>2. data = before[From]
    BY <1>6 DEF IInv, Ready, Code
  <2>3. Running'
    BY <1>1, <1>2, <2>1 DEF IInv, Running, InMemory, Streamed
  <2>4. Ready'
    BY <1>1, <2>1, <2>2 DEF Ready, CanCode, Coded, Whole, HasHeader, Unpack, Pack, HeaderCell, NoFile
  <2> QED
    BY <1>3, <1>4, <2>3, <2>4 DEF IInv
<1> QED
  BY <1>5, <1>6

\* The other process changes the input of c, and no other file.
LEMMA InterfereKeeps ==
    ASSUME IInv, Interfere
    PROVE  IInv'
<1>1. /\ UNCHANGED <<pc, command, before, data, Mode, From, To>>
      /\ pc \in {"open", "header"} /\ Mode = "c"
      /\ \E v : files' = [files EXCEPT ![From] = v]
  BY DEF Interfere, Called, Mode, From, To
<1>2. DOMAIN files' = Paths /\ \A p \in Paths : p # From => files'[p] = files[p]
  BY <1>1 DEF IInv, Running
<1>3. Running' /\ Untouched' /\ Ready' /\ command.stream
  BY <1>1, <1>2 DEF IInv, Running, Untouched, Ready, InMemory, Streamed
<1>4. OutputSpared'
  BY <1>1, <1>2, <1>3 DEF IInv, OutputSpared
<1> QED
  BY <1>3, <1>4 DEF IInv

\* Every step keeps the invariant.
LEMMA NextIInv == IInv /\ [Next]_vars => IInv'
<1> SUFFICES ASSUME IInv, [Next]_vars PROVE IInv'
  OBVIOUS
<1>1. ASSUME NEW c \in Commands, Start(c) PROVE IInv'
  BY <1>1, StartKeeps
<1>2. CASE ReadFile \/ Code
  BY <1>2, ReadingKeeps
<1>3. CASE Create \/ WriteFile
  <2>1. Carries /\ pc' \in {"write", "close", "shell"} /\ pc \in {"create", "write"}
    BY <1>3 DEF Carries, Create, WriteFile, Called, Go, Exit, Spill, SpillAndFail
  <2>2. files' = files \/ \E v : files' = [files EXCEPT ![To] = v]
    BY <1>3 DEF Create, WriteFile, Spill, SpillAndFail
  <2>3. ~command.stream
    BY <2>1 DEF IInv, Running, InMemory
  <2> QED
    BY <2>1, <2>2, <2>3, WritingKeeps
<1>4. CASE TakeSize \/ OpenStreams \/ CopyWhole \/ CopyHeader \/ CopyBlock \/ CopyFails \/ EndCopy
  <2>1. pc \in Streamed
    BY <1>4 DEF Streamed, TakeSize, OpenStreams, CopyWhole, CopyHeader, CopyBlock, CopyFails, EndCopy
  <2>2. Carries /\ pc' \in Streamed \cup {"close", "shell"}
    BY <1>4 DEF Carries, Streamed, Called, Go, Exit, Spill, SpillAndFail,
                TakeSize, OpenStreams, CopyWhole, CopyHeader, CopyBlock, CopyFails, EndCopy
  <2>3. files' = files \/ \E v : files' = [files EXCEPT ![To] = v]
    BY <1>4 DEF Unwritten, Spill, SpillAndFail,
                TakeSize, OpenStreams, CopyWhole, CopyHeader, CopyBlock, CopyFails, EndCopy
  <2>4. command.stream /\ Mode # "t"
    BY <2>1 DEF IInv, Running, Commands, Mode
  <2> QED
    BY <2>1, <2>2, <2>3, <2>4, StreamingKeeps
<1>5. CASE Close
  <2>1. Carries /\ pc' = "report" /\ pc = "close" /\ \E v : files' = [files EXCEPT ![To] = v]
    BY <1>5 DEF Close, Carries, Called, Go
  <2>2. Mode # "t" /\ command.stream \in BOOLEAN
    BY <2>1 DEF IInv, Running, Commands
  <2> QED
    BY <2>1, <2>2, StreamingKeeps, WritingKeeps
<1>6. CASE Report
  BY <1>6, EndingKeeps DEF Report, Carries, Called, Exit, Unwritten
<1>7. CASE Interfere
  BY <1>7, InterfereKeeps
<1>8. CASE Over \/ UNCHANGED vars
  BY <1>8 DEF Over, vars, stream, IInv, Running, Untouched, Ready, OutputSpared, InMemory, Streamed,
              Mode, From, To, CanCode, Coded, Whole, HasHeader, Unpack, Pack, HeaderCell, NoFile
<1> QED
  BY <1>1, <1>2, <1>3, <1>4, <1>5, <1>6, <1>7, <1>8 DEF Next, Step

(***************************************************************************)
(* A command is always one of those there are, on the path its options     *)
(* say, and what it holds in memory was made of the input it found.        *)
(***************************************************************************)
THEOREM Invariance == Spec => []IInv
<1> QED
  BY InitIInv, NextIInv, PTL DEF Spec

(***************************************************************************)
(* No command touches a file but its output, and in memory not even that   *)
(* before it has a whole result (cli.cpp:121-150, 200-202, 228).           *)
(***************************************************************************)
THEOREM OutputIsSpared == Spec => []OutputSpared
<1>1. IInv => OutputSpared
  BY DEF IInv
<1> QED
  BY <1>1, Invariance, PTL

------------------------------------------------------------------------------
\* Sequences in beginnings

\* What a beginning of the second part adds to the first, and what it leaves.
Splitting(X, u, v, n) ==
    /\ SubSeq(v, 1, n) \in Seq(X) /\ Len(SubSeq(v, 1, n)) = n
    /\ SubSeq(v, n + 1, Len(v)) \in Seq(X)
    /\ u \o v \in Seq(X) /\ Len(u) + n \in 0 .. Len(u \o v)
    /\ u \o SubSeq(v, 1, n) = SubSeq(u \o v, 1, Len(u) + n)
    /\ (u \o SubSeq(v, 1, n)) \o SubSeq(v, n + 1, Len(v)) = u \o v

\* Two joined sequences can be divided anywhere in the second.
LEMMA Splits ==
    ASSUME NEW X, NEW u \in Seq(X), NEW v \in Seq(X), NEW n \in 0 .. Len(v)
    PROVE  Splitting(X, u, v, n)
<1>1. u \o v \in Seq(X) /\ Len(u \o v) = Len(u) + Len(v) /\ Len(u) \in Nat /\ Len(v) \in Nat
  BY ConcatProperties
<1>2. SubSeq(v, 1, n) \in Seq(X) /\ Len(SubSeq(v, 1, n)) = n /\ SubSeq(v, n + 1, Len(v)) \in Seq(X)
  BY <1>1, SubSeqProperties
<1>3. SubSeq(v, 1, n) \o SubSeq(v, n + 1, Len(v)) = v
  <2>1. SubSeq(v, 1, n) \o SubSeq(v, n + 1, Len(v)) = SubSeq(v, 1, Len(v))
    <3>1. 1 \in 1 .. Len(v) + 1 /\ n \in 1 - 1 .. Len(v) /\ Len(v) \in n .. Len(v)
      BY <1>1
    <3> QED
      BY <3>1, ConcatAdjacentSubSeq
  <2> QED
    BY <2>1, SubSeqFull
<1>4. (u \o SubSeq(v, 1, n)) \o SubSeq(v, n + 1, Len(v)) = u \o v
  <2> DEFINE a == SubSeq(v, 1, n)
             b == SubSeq(v, n + 1, Len(v))
  <2>1. a \in Seq(X) /\ b \in Seq(X)
    BY <1>2
  <2>3. a \o b = v
    BY <1>3
  <2> HIDE DEF a, b
  <2>2. (u \o a) \o b = u \o (a \o b)
    BY <2>1, ConcatAssociative, SMTT(30)
  <2>4. (u \o a) \o b = u \o v
    BY <2>2, <2>3, Zenon
  <2> QED
    BY <2>4 DEF a, b
<1>5. u \o SubSeq(v, 1, n) = SubSeq(u \o v, 1, Len(u) + n)
  <2> DEFINE a == u \o SubSeq(v, 1, n)
             b == SubSeq(u \o v, 1, Len(u) + n)
  <2>1. a \in Seq(X) /\ Len(a) = Len(u) + n
        /\ \A i \in 1 .. Len(u) + n : a[i] = IF i <= Len(u) THEN u[i] ELSE SubSeq(v, 1, n)[i - Len(u)]
    BY <1>2, ConcatProperties
  <2>2. \A i \in 1 .. Len(u) + n : (u \o v)[i] \in X
    BY <1>1, ElementOfSeq
  <2>3. b \in Seq(X) /\ Len(b) = Len(u) + n /\ \A i \in 1 .. Len(u) + n : b[i] = (u \o v)[i]
    BY <1>1, <2>2, SubSeqProperties
  <2>4. ASSUME NEW i \in 1 .. Len(u) + n PROVE a[i] = b[i]
    <3>1. (u \o v)[i] = IF i <= Len(u) THEN u[i] ELSE v[i - Len(u)]
      BY <1>1, ConcatProperties
    <3>2. CASE i <= Len(u)
      BY <2>1, <2>3, <3>1, <3>2
    <3>3. CASE ~(i <= Len(u))
      <4>1. i - Len(u) \in 1 .. n
        BY <1>1, <3>3
      <4>2. SubSeq(v, 1, n)[i - Len(u)] = v[i - Len(u)]
        <5>1. \A j \in 1 .. n : v[j] \in X
          BY <1>1, ElementOfSeq
        <5>2. \A j \in 1 .. n - 1 + 1 : SubSeq(v, 1, n)[j] = v[1 + j - 1]
          BY <5>1, SubSeqProperties
        <5> QED
          BY <4>1, <5>2
      <4> QED
        BY <2>1, <2>3, <3>1, <3>3, <4>2
    <3> QED
      BY <3>2, <3>3
  <2> HIDE DEF a, b
  <2>5. a = b
    BY <2>1, <2>3, <2>4, SeqEqual
  <2> QED
    BY <2>5 DEF a, b
<1>6. Len(u) + n \in 0 .. Len(u \o v)
  BY <1>1
<1> QED
  BY <1>1, <1>2, <1>4, <1>5, <1>6 DEF Splitting

\* A beginning of a beginning is one, and the whole is one.
LEMMA BeginningsNest ==
    ASSUME NEW X, NEW t \in Seq(X), NEW n \in 0 .. Len(t)
    PROVE  /\ SubSeq(t, 1, n) \in Seq(X) /\ Len(SubSeq(t, 1, n)) = n
           /\ \A i \in 1 .. n : SubSeq(t, 1, n)[i] = t[i]
           /\ \A m \in 0 .. n : SubSeq(SubSeq(t, 1, n), 1, m) = SubSeq(t, 1, m)
           /\ SubSeq(t, 1, Len(t)) = t /\ SubSeq(t, 1, 0) = << >>
<1>1. /\ SubSeq(t, 1, n) \in Seq(X) /\ Len(SubSeq(t, 1, n)) = n
      /\ \A i \in 1 .. n : SubSeq(t, 1, n)[i] = t[i]
  <2>1. \A i \in 1 .. n : t[i] \in X
    BY ElementOfSeq
  <2>2. n \in Nat
    OBVIOUS
  <2> QED
    BY <2>1, <2>2, SubSeqProperties
<1>2. SubSeq(t, 1, 0) = << >> /\ SubSeq(t, 1, Len(t)) = t
  BY SubSeqEmpty, SubSeqFull
<1>3. ASSUME NEW m \in 0 .. n PROVE SubSeq(SubSeq(t, 1, n), 1, m) = SubSeq(t, 1, m)
  <2> DEFINE a == SubSeq(SubSeq(t, 1, n), 1, m)
             b == SubSeq(t, 1, m)
  <2>1. \A i \in 1 .. m : t[i] \in X /\ SubSeq(t, 1, n)[i] \in X /\ SubSeq(t, 1, n)[i] = t[i]
    BY <1>1, ElementOfSeq
  <2>2. a \in Seq(X) /\ Len(a) = m /\ \A i \in 1 .. m : a[i] = t[i]
    <3>1. a \in Seq(X) /\ Len(a) = m /\ \A i \in 1 .. m - 1 + 1 : a[i] = SubSeq(t, 1, n)[1 + i - 1]
      BY <2>1, SubSeqProperties
    <3> QED
      BY <2>1, <3>1
  <2>3. b \in Seq(X) /\ Len(b) = m /\ \A i \in 1 .. m : b[i] = t[i]
    <3>1. b \in Seq(X) /\ Len(b) = m /\ \A i \in 1 .. m - 1 + 1 : b[i] = t[1 + i - 1]
      BY <2>1, SubSeqProperties
    <3> QED
      BY <3>1
  <2> HIDE DEF a, b
  <2>4. a = b
    BY <2>2, <2>3, SeqEqual
  <2> QED
    BY <2>4 DEF a, b
<1> QED
  BY <1>1, <1>2, <1>3

\* What is joined to a sequence may be joined one at a time.
LEMMA AppendJoins ==
    ASSUME NEW X, NEW u \in Seq(X), NEW v \in Seq(X), NEW x \in X
    PROVE  Append(v, x) \in Seq(X) /\ u \o Append(v, x) = (u \o v) \o <<x>>
<1>1. Append(v, x) \in Seq(X) /\ Append(v, x) = v \o <<x>>
  BY AppendProperties, AppendIsConcat
<1>2. u \o (v \o <<x>>) = (u \o v) \o <<x>>
  <2> DEFINE w == <<x>>
  <2>1. w \in Seq(X)
    OBVIOUS
  <2> HIDE DEF w
  <2>2. u \o (v \o w) = (u \o v) \o w
    BY <2>1, ConcatAssociative
  <2> QED
    BY <2>2 DEF w
<1> QED
  BY <1>1, <1>2

\* A beginning u \o v of t gets longer by the next element of t.
Growing(X, t, u, v, n, m) ==
    /\ Append(v, t[m]) \in Seq(X)
    /\ u \o v = SubSeq(t, 1, n) => u \o Append(v, t[m]) = SubSeq(t, 1, m)

\* By that element only.
LEMMA OneMore ==
    ASSUME NEW X, NEW t \in Seq(X), NEW n \in 0 .. Len(t) - 1,
           NEW u \in Seq(X), NEW v \in Seq(X), NEW m, m = n + 1
    PROVE  Growing(X, t, u, v, n, m)
<1>1. m \in 1 .. Len(t) /\ t[m] \in X /\ m - 1 = n /\ 1 \in 1 .. Len(t)
  BY ElementOfSeq
<1>2. Append(v, t[m]) \in Seq(X) /\ u \o Append(v, t[m]) = (u \o v) \o <<t[m]>>
  <2> DEFINE x == t[m]
  <2>1. x \in X
    BY <1>1
  <2> HIDE DEF x
  <2>2. Append(v, x) \in Seq(X) /\ u \o Append(v, x) = (u \o v) \o <<x>>
    BY <2>1, AppendJoins
  <2> QED
    BY <2>2 DEF x
<1>3. SubSeq(t, 1, m) = SubSeq(t, 1, m - 1) \o <<t[m]>>
  BY <1>1, SubSeqRecursiveSecond
<1> QED
  BY <1>1, <1>2, <1>3 DEF Growing

------------------------------------------------------------------------------
\* The files there can be

\* No container holds more than it says.
Sound(f) == HasHeader(f) => f[1][2] \in Nat /\ Len(f) <= 1 + f[1][2]

\* A set of contents, made of these cells, that has all their beginnings and
\* what is in their containers.
Closed(contents, cells) ==
    /\ contents \subseteq Seq(cells)
    /\ \A f \in contents :
          /\ Sound(f)
          /\ Beginnings(f) \subseteq contents
          /\ HasHeader(f) => Unpack(f) \in contents

\* A container has what was packed behind its header.
LEMMA PackIs ==
    ASSUME NEW X, NEW t \in Seq(X)
    PROVE  /\ Pack(t) \in Seq(X \cup {<<"frame", x>> : x \in X} \cup {HeaderCell(n) : n \in Nat})
           /\ Len(Pack(t)) = Len(t) + 1 /\ Len(t) \in Nat
           /\ Pack(t)[1] = HeaderCell(Len(t))
           /\ \A k \in 1 .. Len(t) : Pack(t)[k + 1] = <<"frame", t[k]>>
<1> DEFINE Y == X \cup {<<"frame", x>> : x \in X} \cup {HeaderCell(n) : n \in Nat}
           cell(k) == IF k = 1 THEN HeaderCell(Len(t)) ELSE <<"frame", t[k - 1]>>
<1>1. Len(t) \in Nat
  OBVIOUS
<1>2. ASSUME NEW k \in 1 .. Len(t) + 1 PROVE cell(k) \in Y
  <2>1. CASE k = 1
    BY <1>1, <2>1
  <2>2. CASE k # 1
    <3>1. k - 1 \in 1 .. Len(t)
      BY <1>1, <2>2
    <3>2. t[k - 1] \in X
      BY <3>1, ElementOfSeq
    <3> QED
      BY <2>2, <3>2
  <2> QED
    BY <2>1, <2>2
<1>3. Pack(t) = [k \in 1 .. Len(t) + 1 |-> cell(k)]
  BY DEF Pack
<1>4. Pack(t) \in Seq(Y) /\ Len(Pack(t)) = Len(t) + 1
  <2> HIDE DEF Y, cell
  <2> QED
    BY <1>1, <1>2, <1>3
<1>5. Pack(t)[1] = HeaderCell(Len(t))
  BY <1>1, <1>3
<1>6. ASSUME NEW k \in 1 .. Len(t) PROVE Pack(t)[k + 1] = <<"frame", t[k]>>
  <2>1. k + 1 \in 1 .. Len(t) + 1 /\ k + 1 # 1 /\ (k + 1) - 1 = k
    BY <1>1
  <2> HIDE DEF Y
  <2>2. Pack(t)[k + 1] = cell(k + 1)
    BY <1>3, <2>1
  <2> QED
    BY <2>1, <2>2
<1> QED
  BY <1>1, <1>4, <1>5, <1>6

\* A beginning of a container that has its header is a container of a beginning.
LEMMA UnpackIs ==
    ASSUME NEW X, NEW t \in Seq(X), NEW n \in 1 .. Len(t) + 1
    PROVE  /\ HasHeader(SubSeq(Pack(t), 1, n)) /\ Sound(SubSeq(Pack(t), 1, n))
           /\ Unpack(SubSeq(Pack(t), 1, n)) = SubSeq(t, 1, n - 1)
<1> DEFINE Y == X \cup {<<"frame", x>> : x \in X} \cup {HeaderCell(m) : m \in Nat}
           p == SubSeq(Pack(t), 1, n)
<1>1. /\ Pack(t) \in Seq(Y) /\ Len(Pack(t)) = Len(t) + 1 /\ Len(t) \in Nat
      /\ Pack(t)[1] = HeaderCell(Len(t))
      /\ \A k \in 1 .. Len(t) : Pack(t)[k + 1] = <<"frame", t[k]>>
  BY PackIs
<1> HIDE DEF Y
<1>2. p \in Seq(Y) /\ Len(p) = n /\ \A i \in 1 .. n : p[i] = Pack(t)[i]
  <2>1. n \in 0 .. Len(Pack(t))
    BY <1>1
  <2> QED
    BY <1>1, <2>1, BeginningsNest
<1> HIDE DEF p
<1>3. p[1] = HeaderCell(Len(t)) /\ p # << >>
  BY <1>1, <1>2
<1>4. HasHeader(p) /\ Sound(p)
  BY <1>1, <1>2, <1>3 DEF HasHeader, Sound, HeaderCell
<1>5. Unpack(p) = [k \in 1 .. n - 1 |-> t[k]]
  <2>1. ASSUME NEW k \in 1 .. n - 1 PROVE p[k + 1][2] = t[k]
    <3>1. k \in 1 .. Len(t) /\ k + 1 \in 1 .. n
      BY <1>1
    <3>2. p[k + 1] = <<"frame", t[k]>>
      BY <1>1, <1>2, <3>1
    <3> QED
      BY <3>2
  <2> QED
    BY <1>2, <2>1 DEF Unpack
<1>6. SubSeq(t, 1, n - 1) = [k \in 1 .. n - 1 |-> t[k]]
  BY <1>1 DEF SubSeq
<1> QED
  BY <1>4, <1>5, <1>6 DEF p

\* To any such set, containers of everything in it can be added.
LEMMA PacksAdded ==
    ASSUME NEW S, NEW X, Closed(S, X)
    PROVE  \E T, Y : Closed(T, Y) /\ S \subseteq T /\ X \subseteq Y /\ \A f \in S : Pack(f) \in T
<1> DEFINE Y == X \cup {<<"frame", x>> : x \in X} \cup {HeaderCell(n) : n \in Nat}
           P == UNION {Beginnings(Pack(f)) : f \in S}
           T == S \cup P
<1>1. X \subseteq Y /\ S \subseteq Seq(X) /\ S \subseteq Seq(Y)
  <2>1. X \subseteq Y /\ S \subseteq Seq(X)
    BY DEF Closed
  <2> HIDE DEF Y
  <2> QED
    BY <2>1, SeqMonotonic
<1>2. ASSUME NEW f \in S
      PROVE  /\ f \in Seq(X) /\ Pack(f) \in Seq(Y) /\ Len(Pack(f)) = Len(f) + 1 /\ Len(f) \in Nat
             /\ Pack(f) \in Beginnings(Pack(f))
  <2>1. f \in Seq(X)
    BY <1>1
  <2>2. Pack(f) \in Seq(Y) /\ Len(Pack(f)) = Len(f) + 1 /\ Len(f) \in Nat
    BY <2>1, PackIs
  <2> HIDE DEF Y
  <2>3. SubSeq(Pack(f), 1, Len(Pack(f))) = Pack(f) /\ Len(Pack(f)) \in 0 .. Len(Pack(f))
    BY <2>2, SubSeqFull
  <2>4. Pack(f) \in Beginnings(Pack(f))
    BY <2>3 DEF Beginnings
  <2> QED
    BY <2>1, <2>2, <2>4
<1> HIDE DEF Y
<1>3. ASSUME NEW p \in P
      PROVE  /\ p \in Seq(Y) /\ Sound(p) /\ Beginnings(p) \subseteq P
             /\ HasHeader(p) => Unpack(p) \in S
  <2>0. PICK f \in S : p \in Beginnings(Pack(f))
    OBVIOUS
  <2>1. PICK n \in 0 .. Len(Pack(f)) : p = SubSeq(Pack(f), 1, n)
    BY <2>0 DEF Beginnings
  <2>2. p \in Seq(Y) /\ Len(p) = n
    BY <1>2, <2>1, BeginningsNest
  <2>3. ASSUME NEW m \in 0 .. n PROVE SubSeq(p, 1, m) \in P
    <3>1. SubSeq(p, 1, m) = SubSeq(Pack(f), 1, m)
      BY <1>2, <2>1, <2>3, BeginningsNest
    <3>2. m \in 0 .. Len(Pack(f))
      BY <1>2, <2>1, <2>3
    <3> QED
      BY <3>1, <3>2 DEF Beginnings
  <2>4. Beginnings(p) \subseteq P
    BY <2>2, <2>3 DEF Beginnings
  <2>5. CASE n = 0
    <3>1. p = << >>
      BY <1>2, <2>1, <2>5, BeginningsNest
    <3>2. ~HasHeader(p)
      BY <3>1 DEF HasHeader
    <3> QED
      BY <2>2, <2>4, <3>2 DEF Sound
  <2>6. CASE n # 0
    <3>1. n \in 1 .. Len(f) + 1
      BY <1>2, <2>1, <2>6
    <3>2. Sound(p) /\ Unpack(p) = SubSeq(f, 1, n - 1)
      BY <1>2, <2>1, <3>1, UnpackIs
    <3>3. n - 1 \in 0 .. Len(f)
      BY <1>2, <3>1
    <3>4. SubSeq(f, 1, n - 1) \in S
      BY <3>3 DEF Closed, Beginnings
    <3> QED
      BY <2>2, <2>4, <3>2, <3>4
  <2> QED
    BY <2>5, <2>6
<1>4. Closed(T, Y)
  <2>1. ASSUME NEW f \in S
        PROVE  /\ f \in Seq(Y) /\ Sound(f) /\ Beginnings(f) \subseteq S
               /\ HasHeader(f) => Unpack(f) \in S
    BY <1>1 DEF Closed
  <2> HIDE DEF P
  <2> QED
    BY <1>3, <2>1 DEF Closed
<1>5. \A f \in S : Pack(f) \in T
  BY <1>2
<1>6. S \subseteq T
  OBVIOUS
<1> HIDE DEF T
<1> QED
  BY <1>1, <1>4, <1>5, <1>6

\* And so can a file with one cell of data more, unless it is a container.
LEMMA DataAdded ==
    ASSUME NEW S, NEW X, Closed(S, X), NEW f \in S, ~HasHeader(f), NEW id
    PROVE  \E T, Y : Closed(T, Y) /\ S \subseteq T /\ X \subseteq Y /\ Append(f, <<"data", id>>) \in T
<1> DEFINE x == <<"data", id>>
           g == Append(f, x)
           Y == X \cup {x}
           T == S \cup {g}
<1>1. f \in Seq(X) /\ X \subseteq Y /\ S \subseteq Seq(X) /\ x \in Y
  BY DEF Closed
<1>2. f \in Seq(Y) /\ S \subseteq Seq(Y)
  <2> HIDE DEF Y
  <2> QED
    BY <1>1, SeqMonotonic
<1>3. g \in Seq(Y) /\ Len(g) = Len(f) + 1 /\ Len(f) \in Nat /\ g # << >>
      /\ g[Len(f) + 1] = x /\ \A i \in 1 .. Len(f) : g[i] = f[i]
  <2> HIDE DEF Y, x
  <2> QED
    BY <1>1, <1>2, AppendProperties
<1>4. ~HasHeader(g)
  <2>1. CASE Len(f) = 0
    BY <1>3, <2>1 DEF HasHeader
  <2>2. CASE Len(f) # 0
    <3>1. f # << >> /\ g[1] = f[1]
      BY <1>1, <1>3, <2>2
    <3> QED
      BY <3>1 DEF HasHeader
  <2> QED
    BY <2>1, <2>2
<1> HIDE DEF Y, g
<1>5. Beginnings(g) \subseteq T
  <2> SUFFICES ASSUME NEW n \in 0 .. Len(g) PROVE SubSeq(g, 1, n) \in T
    BY DEF Beginnings
  <2>1. CASE n = Len(g)
    BY <1>3, <2>1, BeginningsNest
  <2>2. CASE n # Len(g)
    <3>1. n \in 0 .. Len(f) /\ n \in 0 .. Len(g)
      BY <1>3, <2>2
    <3>2. /\ SubSeq(g, 1, n) \in Seq(Y) /\ Len(SubSeq(g, 1, n)) = n
          /\ \A i \in 1 .. n : SubSeq(g, 1, n)[i] = g[i]
      BY <1>3, BeginningsNest
    <3>3. /\ SubSeq(f, 1, n) \in Seq(Y) /\ Len(SubSeq(f, 1, n)) = n
          /\ \A i \in 1 .. n : SubSeq(f, 1, n)[i] = f[i]
      BY <1>2, <3>1, BeginningsNest
    <3>4. SubSeq(g, 1, n) = SubSeq(f, 1, n)
      BY <1>3, <3>1, <3>2, <3>3, SeqEqual
    <3>5. SubSeq(f, 1, n) \in S
      BY <3>1 DEF Closed, Beginnings
    <3> QED
      BY <3>4, <3>5
  <2> QED
    BY <2>1, <2>2
<1>6. Closed(T, Y)
  <2>1. ASSUME NEW h \in S
        PROVE  /\ h \in Seq(Y) /\ Sound(h) /\ Beginnings(h) \subseteq S
               /\ HasHeader(h) => Unpack(h) \in S
    BY <1>2 DEF Closed
  <2> QED
    BY <1>3, <1>4, <1>5, <2>1 DEF Closed, Sound
<1> HIDE DEF T
<1>7. g \in T
  BY DEF T
<1> QED
  BY <1>1, <1>6, <1>7 DEF T, g

------------------------------------------------------------------------------
\* What reaches the output

Input  == before[From]
Target == Coded(Mode, Input)
Able   == CanCode(Mode, Input)

\* An input after Interfere, if there was any.
Resized(f, b) ==
    \/ f = b
    \/ f = << >>
    \/ Len(f) = Len(b) + 1 /\ SubSeq(f, 1, Len(b)) = b

\* How many cells of the result a streaming command has made.
Reached == IF Mode = "c" THEN pos + 1 ELSE pos

Typed ==
    /\ pc \in {"shell", "read", "code", "create", "write", "size", "open", "header", "copy",
               "close", "report"}
    /\ status \in {-1, 0, 1, 2}
    /\ pc # "shell" => status = -1
    /\ size \in Nat /\ pos \in 0 .. size
    /\ lost \in BOOLEAN
    /\ runs \in 0 .. MaxRuns

\* What a streaming command knows of its input, whatever has become of it.
Opening ==
    /\ pc \in {"size", "open", "header"} => pos = 0
    /\ pc \in {"open", "header", "copy"} /\ Mode = "c" => Input # NoFile /\ size = Len(Input)
    /\ pc = "size" \/ (pc = "open" /\ (From = To \/ Mode = "d")) => files[From] = Input
    /\ pc \in {"open", "header", "copy"} /\ From # To =>
          IF Mode = "c" THEN Resized(files[From], Input)
          ELSE files[From] = Input /\ (pc # "open" => Input # NoFile)
    /\ pc \in {"write", "header"} => files[To] = << >>

\* The output and what waits for it are a beginning of the result.
Copying ==
    pc = "copy" =>
        /\ Mode = "d" => HasHeader(Input) /\ size = Input[1][2] /\ pos < Len(Input)
        /\ From = To => Mode = "c" /\ pos = 0 /\ size > 0 /\ files[To] = << >>
        /\ files[To] \o pending = SubSeq(Target, 1, Reached)

\* Then they are all of it, and when nothing waits the output is.
Written ==
    /\ pc \notin {"copy", "close"} => pending = << >>
    /\ pc = "close" => Able /\ files[To] \o pending = Target
    /\ pc = "report" \/ (status = 0 /\ Mode # "t") => lost \/ Complete

\* Every file is one that there can be.
Held(contents, cells) ==
    /\ Closed(contents, cells)
    /\ pending \in Seq(cells)
    /\ \A p \in Paths : files[p] \in contents /\ before[p] \in contents /\ Pack(before[p]) \in contents

Stored == \E contents, cells : Held(contents, cells)

Delivering == Typed /\ Opening /\ Copying /\ Written /\ Stored

\* What reaches a file of what is written, and what waits then.
Reaching(contents, cells, u, w, b) ==
    /\ u \o b \in contents
    /\ SubSeq(w, Len(b) + 1, Len(w)) \in Seq(cells)
    /\ (u \o b) \o SubSeq(w, Len(b) + 1, Len(w)) = u \o w

\* If all of it may be in the file, so may a beginning.
LEMMA Reaches ==
    ASSUME NEW S, NEW X, Closed(S, X), NEW u \in Seq(X), NEW w \in Seq(X), u \o w \in S,
           NEW b \in Beginnings(w)
    PROVE  Reaching(S, X, u, w, b)
<1>1. PICK m \in 0 .. Len(w) : b = SubSeq(w, 1, m)
  BY DEF Beginnings
<1>2. /\ Len(SubSeq(w, 1, m)) = m
      /\ SubSeq(w, m + 1, Len(w)) \in Seq(X)
      /\ Len(u) + m \in 0 .. Len(u \o w)
      /\ u \o SubSeq(w, 1, m) = SubSeq(u \o w, 1, Len(u) + m)
      /\ (u \o SubSeq(w, 1, m)) \o SubSeq(w, m + 1, Len(w)) = u \o w
  <2>1. Splitting(X, u, w, m)
    BY Splits
  <2> QED
    BY <2>1 DEF Splitting
<1>3. SubSeq(u \o w, 1, Len(u) + m) \in S
  BY <1>2 DEF Closed, Beginnings
<1> QED
  BY <1>1, <1>2, <1>3 DEF Reaching

\* The empty file is one there can be.
LEMMA EmptyIn ==
    ASSUME NEW S, NEW X, Closed(S, X), NEW f \in S
    PROVE  << >> \in S /\ << >> \in Seq(X)
<1>1. f \in Seq(X) /\ 0 \in 0 .. Len(f)
  BY DEF Closed
<1>2. SubSeq(f, 1, 0) \in Beginnings(f) /\ Beginnings(f) \subseteq S
  BY <1>1 DEF Closed, Beginnings
<1>3. SubSeq(f, 1, 0) = << >>
  BY <1>1, SubSeqEmpty
<1> QED
  BY <1>2, <1>3, EmptySeq

\* The result of a command is one, too.
LEMMA TargetIn ==
    ASSUME IInv, NEW S, NEW X, Held(S, X), Mode # "t",
           Mode = "c" \/ HasHeader(Input)
    PROVE  /\ From \in Paths /\ To \in Paths /\ Mode \in {"c", "d"}
           /\ Input \in S /\ Input \in Seq(X)
           /\ Target \in S /\ Target \in Seq(X) /\ Len(Target) \in Nat
           /\ Target = SubSeq(Target, 1, Len(Target)) /\ Len(Target) \in 0 .. Len(Target)
<1>1. From \in Paths /\ To \in Paths /\ Mode \in {"c", "d"}
  BY DEF IInv, Running, Commands, Modes, From, To, Mode
<1>2. Input \in S /\ Pack(Input) \in S /\ (HasHeader(Input) => Unpack(Input) \in S)
  BY <1>1 DEF Held, Closed, Input
<1>3. Target \in S
  BY <1>1, <1>2 DEF Target, Coded
<1>4. S \subseteq Seq(X)
  BY DEF Held, Closed
<1>5. Target \in Seq(X) /\ Len(Target) \in Nat
  BY <1>3, <1>4
<1>6. Target = SubSeq(Target, 1, Len(Target))
  BY <1>5, SubSeqFull
<1> QED
  BY <1>1, <1>2, <1>3, <1>4, <1>5, <1>6

\* Packed and unpacked contents.
LEMMA TargetIs ==
    ASSUME NEW X, NEW b \in Seq(X)
    PROVE  /\ Len(Pack(b)) = Len(b) + 1 /\ Pack(b)[1] = HeaderCell(Len(b))
           /\ \A k \in 1 .. Len(b) : Pack(b)[k + 1] = <<"frame", b[k]>>
           /\ HasHeader(b) => /\ Len(Unpack(b)) = Len(b) - 1 /\ Len(b) \in Nat \ {0}
                              /\ \A k \in 1 .. Len(b) - 1 : Unpack(b)[k] = b[k + 1][2]
           /\ HasHeader(b) => b # NoFile
<1>1. ASSUME HasHeader(b)
      PROVE  /\ Len(Unpack(b)) = Len(b) - 1 /\ Len(b) \in Nat \ {0}
             /\ \A k \in 1 .. Len(b) - 1 : Unpack(b)[k] = b[k + 1][2]
  <2>1. Len(b) \in Nat \ {0}
    BY <1>1, EmptySeq DEF HasHeader
  <2>2. Len(b) - 1 \in Nat
    BY <2>1
  <2> QED
    BY <2>1, <2>2 DEF Unpack
<1>2. HasHeader(b) => b # NoFile
  BY DEF HasHeader, NoFile
<1> QED
  BY <1>1, <1>2, PackIs

\* A command works on the same files for the same result to its end.
LEMMA SameCommand ==
    ASSUME UNCHANGED <<command, before>>
    PROVE  /\ UNCHANGED <<Mode, From, To, Input, Target>>
           /\ Able' <=> Able
           /\ Complete' <=> Able /\ files'[To] = Target
<1>1. UNCHANGED <<Mode, From, To, Input>>
  BY DEF Mode, From, To, Input
<1>2. UNCHANGED Target /\ (Able' <=> Able)
  BY <1>1 DEF Target, Able, Coded, CanCode, Whole, HasHeader, Unpack, Pack, HeaderCell, NoFile
<1>3. Complete' <=> Able' /\ files'[To'] = Target'
  BY DEF Complete, Able, Target, Input
<1> QED
  BY <1>1, <1>2, <1>3

\* What the commands are, and what those are that stream.
LEMMA CommandIs ==
    ASSUME IInv
    PROVE  /\ From \in Paths /\ To \in Paths /\ Mode \in {"c", "d", "t"}
           /\ DOMAIN files = Paths
           /\ pc \in Streamed \cup {"create", "write", "close"} => Mode \in {"c", "d"}
           /\ pc = "write" => Able /\ data = Target
<1>1. From \in Paths /\ To \in Paths /\ Mode \in {"c", "d", "t"} /\ DOMAIN files = Paths
  BY DEF IInv, Running, Commands, Modes, From, To, Mode
<1>2. pc \in Streamed \cup {"create", "write", "close"} => Mode \in {"c", "d"}
  BY DEF IInv, Running, Commands, Modes, Mode
<1>3. pc = "write" => Able /\ data = Target
  BY DEF IInv, Running, Ready, InMemory, Able, Target, Input
<1> QED
  BY <1>1, <1>2, <1>3

\* The contents there can be stay so as long as no other is written.
LEMMA HeldKeeps ==
    ASSUME NEW S, NEW X, Held(S, X), UNCHANGED before, pending' \in Seq(X),
           \A p \in Paths : files'[p] \in S
    PROVE  Stored'
<1>1. Held(S, X)'
  BY DEF Held, Closed, Sound, HasHeader, Beginnings, Unpack, Pack, HeaderCell
<1> QED
  BY <1>1 DEF Stored

\* Nothing is asked of a command that ends and says that it failed, or tested.
LEMMA EndDelivers ==
    ASSUME Typed, Stored', pc' = "shell", status' \in {0, 1, 2}, pending' = << >>,
           status' = 0 => Mode' = "t" \/ lost' \/ Complete',
           size' \in Nat, pos' \in 0 .. size', lost' \in BOOLEAN, UNCHANGED runs
    PROVE  Delivering'
<1>1. Typed'
  BY DEF Typed
<1>2. Opening' /\ Copying' /\ Written'
  BY DEF Opening, Copying, Written
<1> QED
  BY <1>1, <1>2 DEF Delivering

\* A write leaves of every file what it can be, and the rest waiting.
LEMMA SpillIs ==
    ASSUME IInv, NEW S, NEW X, Held(S, X), UNCHANGED <<command, before>>,
           NEW w \in Seq(X), files[To] \o w \in S, NEW b \in Beginnings(w),
           files' = [files EXCEPT ![To] = @ \o b]
    PROVE  /\ \A p \in Paths : files'[p] \in S /\ (p # To => files'[p] = files[p])
           /\ files'[To] = files[To] \o b
           /\ Reaching(S, X, files[To], w, b)
<1>1. To \in Paths /\ DOMAIN files = Paths
  BY CommandIs
<1>2. files'[To] = files[To] \o b /\ \A p \in Paths : p # To => files'[p] = files[p]
  BY <1>1
<1>3. Closed(S, X) /\ files[To] \in Seq(X) /\ \A p \in Paths : files[p] \in S
  BY <1>1 DEF Held, Closed
<1>4. Reaching(S, X, files[To], w, b)
  BY <1>3, Reaches
<1>5. \A p \in Paths : files'[p] \in S /\ (p # To => files'[p] = files[p])
  BY <1>2, <1>3, <1>4 DEF Reaching
<1> QED
  BY <1>2, <1>4, <1>5

\* A write that succeeds.
LEMMA SpillDelivers ==
    ASSUME IInv, NEW S, NEW X, Held(S, X), UNCHANGED <<command, before>>,
           NEW w \in Seq(X), files[To] \o w \in S, Spill(w)
    PROVE  /\ Stored'
           /\ files'[To] \o pending' = files[To] \o w
           /\ \A p \in Paths : p # To => files'[p] = files[p]
<1>1. PICK b \in Beginnings(w) :
          /\ files' = [files EXCEPT ![To] = @ \o b]
          /\ pending' = SubSeq(w, Len(b) + 1, Len(w))
  BY DEF Spill
<1>2. /\ \A p \in Paths : files'[p] \in S /\ (p # To => files'[p] = files[p])
      /\ pending' \in Seq(X)
      /\ files'[To] \o pending' = files[To] \o w
  <2>1. /\ \A p \in Paths : files'[p] \in S /\ (p # To => files'[p] = files[p])
        /\ files'[To] = files[To] \o b
        /\ Reaching(S, X, files[To], w, b)
    BY <1>1, SpillIs
  <2> QED
    BY <1>1, <2>1 DEF Reaching
<1>3. Stored'
  BY <1>2, HeldKeeps
<1> QED
  BY <1>2, <1>3

\* A write that fails, and the command with it.
LEMMA FailDelivers ==
    ASSUME IInv, Typed, NEW S, NEW X, Held(S, X), Called, UNCHANGED <<stream, lost>>,
           NEW w \in Seq(X), files[To] \o w \in S, SpillAndFail(w)
    PROVE  Delivering'
<1>1. /\ UNCHANGED <<command, before, runs, size, pos, lost>>
      /\ pending' = << >> /\ pc' = "shell" /\ status' = 1
  BY DEF Called, SpillAndFail, Exit, stream
<1>2. PICK b \in Beginnings(w) : files' = [files EXCEPT ![To] = @ \o b]
  BY DEF SpillAndFail
<1>3. \A p \in Paths : files'[p] \in S
  BY <1>1, <1>2, SpillIs
<1>4. pending' \in Seq(X)
  BY <1>1, EmptySeq
<1>5. Stored'
  BY <1>1, <1>3, <1>4, HeldKeeps
<1>6. size' \in Nat /\ pos' \in 0 .. size' /\ lost' \in BOOLEAN
  BY <1>1 DEF Typed
<1> QED
  BY <1>1, <1>5, <1>6, EndDelivers

\* A step that writes nothing leaves the contents as they can be.
LEMMA StoredKeeps ==
    ASSUME Stored, UNCHANGED <<files, before, pending>>
    PROVE  Stored'
<1>1. PICK S, X : Held(S, X)
  BY DEF Stored
<1>2. pending' \in Seq(X) /\ \A p \in Paths : files'[p] \in S
  BY <1>1 DEF Held
<1> QED
  BY <1>1, <1>2, HeldKeeps

\* A new command finds its input as it is.
LEMMA StartDelivers ==
    ASSUME IInv, Delivering, NEW c \in Commands, Start(c)
    PROVE  Delivering'
<1>1. /\ files' = files /\ before' = files /\ command' = c /\ pending' = pending
      /\ pc' \in {"shell", "read", "size", "open"}
      /\ pc' = "open" => c.mode # "c"
      /\ pc' # "shell" => status' = -1
      /\ status' \in {-1, 1, 2}
      /\ size' = 0 /\ pos' = 0 /\ lost' = FALSE /\ pc = "shell" /\ runs' = runs + 1 /\ runs < MaxRuns
  BY DEF Start, Exit
<1>2. pending' = << >>
  BY <1>1 DEF Delivering, Written
<1>3. Typed'
  <2>1. runs \in 0 .. MaxRuns /\ MaxRuns \in Nat
    BY CliAssumption DEF Delivering, Typed
  <2>2. runs' \in 0 .. MaxRuns /\ pos' \in 0 .. size' /\ size' \in Nat
    BY <1>1, <2>1
  <2> QED
    BY <1>1, <2>2 DEF Typed
<1>4. files'[From'] = Input' /\ Mode' = c.mode
  BY <1>1 DEF Input, Mode
<1>5. Opening' /\ Copying' /\ Written'
  BY <1>1, <1>2, <1>4 DEF Opening, Copying, Written, Resized
<1>6. Stored'
  <2>1. PICK S, X : Held(S, X)
    BY DEF Delivering, Stored
  <2>2. PICK T, Y : Closed(T, Y) /\ S \subseteq T /\ X \subseteq Y /\ \A f \in S : Pack(f) \in T
    BY <2>1, PacksAdded DEF Held
  <2>3. pending' \in Seq(Y)
    BY <1>2, EmptySeq
  <2>4. \A p \in Paths : files'[p] \in T /\ before'[p] \in T /\ Pack(before'[p]) \in T
    BY <1>1, <2>1, <2>2 DEF Held
  <2>5. Held(T, Y)'
    BY <2>2, <2>3, <2>4 DEF Held, Closed, Sound, HasHeader, Beginnings, Unpack, Pack, HeaderCell
  <2> QED
    BY <2>5 DEF Stored
<1> QED
  BY <1>3, <1>5, <1>6 DEF Delivering

\* In memory, up to the file that is opened for the result.
LEMMA ReadingDelivers ==
    ASSUME IInv, Delivering, ReadFile \/ Code \/ Create
    PROVE  Delivering'
<1>1. /\ UNCHANGED <<command, before, runs, size, pos, pending, lost>>
      /\ pc \in {"read", "code", "create"}
      /\ \/ pc' \in {"code", "create", "write"} /\ status' = status
         \/ pc' = "shell" /\ status' \in {0, 1} /\ (status' = 0 => Mode = "t")
  BY DEF ReadFile, Code, Create, Called, Unwritten, stream, Go, Exit
<1>2. /\ files' = files \/ files' = [files EXCEPT ![To] = << >>]
      /\ pc' = "write" => files' = [files EXCEPT ![To] = << >>]
  BY DEF ReadFile, Code, Create, Unwritten, Go, Exit
<1>3. PICK S, X : Held(S, X)
  BY DEF Delivering, Stored
<1>4. To \in Paths /\ DOMAIN files = Paths
  BY CommandIs
<1>5. << >> \in S
  BY <1>3, <1>4, EmptyIn DEF Held
<1>6. \A p \in Paths : files'[p] \in S
  BY <1>2, <1>3, <1>4, <1>5 DEF Held
<1>7. Stored'
  BY <1>1, <1>3, <1>6, HeldKeeps DEF Held
<1>8. pc' = "write" => files'[To'] = << >>
  BY <1>1, <1>2, <1>4, SameCommand
<1>9. Typed' /\ pending' = << >>
  BY <1>1 DEF Delivering, Typed, Written
<1>10. UNCHANGED Mode
  BY <1>1, SameCommand
<1>11. Opening' /\ Copying' /\ Written'
  BY <1>1, <1>8, <1>9, <1>10 DEF Opening, Copying, Written, Delivering, Typed
<1> QED
  BY <1>7, <1>9, <1>11 DEF Delivering

\* All of the result, to an empty file.
LEMMA WholeDelivers ==
    ASSUME IInv, Delivering, NEW w, w = Target, files[To] = << >>, Able, Mode \in {"c", "d"},
           \/ Spill(w) /\ Go("close")
           \/ SpillAndFail(w),
           pc \in {"write", "header"}, Called, UNCHANGED <<stream, lost>>
    PROVE  Delivering'
<1>1. PICK S, X : Held(S, X)
  BY DEF Delivering, Stored
<1>2. Mode = "c" \/ HasHeader(Input)
  BY DEF Able, CanCode, Whole
<1>3. Target \in S /\ Target \in Seq(X)
  BY <1>1, <1>2, TargetIn
<1>4. w \in Seq(X) /\ files[To] \o w = Target
  BY <1>3, ConcatEmptySeq
<1>5. files[To] \o w \in S
  BY <1>3, <1>4
<1>6. UNCHANGED <<command, before, runs, size, pos, lost>>
  BY DEF Called, stream
<1>7. CASE SpillAndFail(w)
  BY <1>1, <1>4, <1>5, <1>7, FailDelivers DEF Delivering
<1>8. CASE Spill(w) /\ Go("close")
  <2>1. /\ Stored'
        /\ files'[To] \o pending' = files[To] \o w
    BY <1>1, <1>4, <1>5, <1>6, <1>8, SpillDelivers
  <2>2. pc' = "close" /\ status' = status
    BY <1>8 DEF Go
  <2>3. UNCHANGED <<Mode, From, To, Input, Target>> /\ (Able' <=> Able)
    BY <1>6, SameCommand
  <2>4. Able' /\ files'[To'] \o pending' = Target'
    BY <1>4, <2>1, <2>3
  <2>5. Typed' /\ status' # 0
    BY <1>6, <2>2 DEF Delivering, Typed
  <2> QED
    BY <2>1, <2>2, <2>4, <2>5 DEF Delivering, Opening, Copying, Written
<1> QED
  BY <1>7, <1>8

\* In memory, all is written at once.
LEMMA WriteFileDelivers ==
    ASSUME IInv, Delivering, WriteFile
    PROVE  Delivering'
<1>1. /\ Called /\ UNCHANGED <<stream, lost>> /\ pc = "write"
      /\ (Spill(data) /\ Go("close")) \/ SpillAndFail(data)
  BY DEF WriteFile
<1>2. Able /\ data = Target /\ Mode \in {"c", "d"}
  BY <1>1, CommandIs
<1>3. files[To] = << >>
  BY <1>1 DEF Delivering, Opening
<1> QED
  BY <1>1, <1>2, <1>3, WholeDelivers

\* The size is that of the input as it was found.
LEMMA TakeSizeDelivers ==
    ASSUME IInv, Delivering, TakeSize
    PROVE  Delivering'
<1>1. /\ UNCHANGED <<command, before, runs, files, pending, lost, pos>> /\ pc = "size"
      /\ \/ files[From] # NoFile /\ size' = Len(files[From]) /\ pc' = "open" /\ status' = status
         \/ size' = size /\ pc' = "shell" /\ status' = 1
  BY DEF TakeSize, Unwritten, Called, Go, Exit
<1>2. UNCHANGED <<Mode, From, To, Input, Target>>
  BY <1>1, SameCommand
<1>3. Stored'
  BY <1>1, StoredKeeps DEF Delivering
<1>4. files[From] = Input /\ pos = 0 /\ pending = << >> /\ size \in Nat /\ lost \in BOOLEAN
  BY <1>1 DEF Delivering, Opening, Written, Typed
<1>5. Len(files[From]) \in Nat
  <2>1. PICK S, X : Held(S, X)
    BY DEF Delivering, Stored
  <2>2. files[From] \in Seq(X)
    BY <2>1, CommandIs DEF Held, Closed
  <2> QED
    BY <2>2
<1>6. size' \in Nat /\ pos' \in 0 .. size'
  BY <1>1, <1>4, <1>5
<1>7. CASE pc' = "shell"
  <2>1. status' = 1 /\ lost' \in BOOLEAN /\ pending' = << >>
    BY <1>1, <1>4, <1>7
  <2> QED
    BY <1>1, <1>3, <1>6, <1>7, <2>1, EndDelivers DEF Delivering
<1>8. CASE pc' = "open"
  <2>1. Typed' /\ status' = -1
    BY <1>1, <1>6, <1>8 DEF Delivering, Typed
  <2>2. Opening'
    BY <1>1, <1>2, <1>4, <1>8 DEF Opening, Resized
  <2>3. Copying' /\ Written'
    BY <1>1, <1>4, <1>8, <2>1 DEF Copying, Written
  <2> QED
    BY <1>3, <2>1, <2>2, <2>3 DEF Delivering
<1> QED
  BY <1>1, <1>7, <1>8

\* Whatever was in the output is gone, and so is the input if it is the same file.
LEMMA OpenStreamsDelivers ==
    ASSUME IInv, Delivering, OpenStreams
    PROVE  Delivering'
<1>1. PICK in, out \in BOOLEAN :
          /\ in => files[From] # NoFile
          /\ files' = IF out THEN [files EXCEPT ![To] = << >>] ELSE files
          /\ IF in /\ out THEN Go("header") ELSE Exit(1)
  BY DEF OpenStreams
<1>2. UNCHANGED <<command, before, runs, data, size, pos, pending, lost>> /\ pc = "open"
  BY DEF OpenStreams, Called, stream
<1>3. UNCHANGED <<Mode, From, To, Input, Target>>
  BY <1>2, SameCommand
<1>4. To \in Paths /\ From \in Paths /\ DOMAIN files = Paths
  BY CommandIs
<1>5. \A p \in Paths : files'[p] = IF out /\ p = To THEN << >> ELSE files[p]
  BY <1>1, <1>4
<1>6. Stored'
  <2>1. PICK S, X : Held(S, X)
    BY DEF Delivering, Stored
  <2>2. << >> \in S
    BY <1>4, <2>1, EmptyIn DEF Held
  <2>3. \A p \in Paths : files'[p] \in S
    BY <1>5, <2>1, <2>2 DEF Held
  <2> QED
    BY <1>2, <2>1, <2>3, HeldKeeps DEF Held
<1>7. pending' = << >> /\ size' \in Nat /\ pos' \in 0 .. size' /\ lost' \in BOOLEAN
  BY <1>2 DEF Delivering, Written, Typed
<1>8. CASE in /\ out
  <2>1. pc' = "header" /\ status' = status /\ files[From] # NoFile
    BY <1>1, <1>8 DEF Go
  <2>2. files'[To] = << >> /\ (From # To => files'[From] = files[From])
    BY <1>4, <1>5, <1>8
  <2>3. Typed' /\ status' = -1
    BY <1>2, <2>1 DEF Delivering, Typed
  <2>4. /\ pos = 0
        /\ Mode = "c" => Input # NoFile /\ size = Len(Input)
        /\ From # To => IF Mode = "c" THEN Resized(files[From], Input) ELSE files[From] = Input
    BY <1>2 DEF Delivering, Opening
  <2>5. Opening'
    BY <1>2, <1>3, <2>1, <2>2, <2>4 DEF Opening, Resized
  <2>6. Copying' /\ Written'
    BY <1>7, <2>1, <2>3 DEF Copying, Written
  <2> QED
    BY <1>6, <2>3, <2>5, <2>6 DEF Delivering
<1>9. CASE ~(in /\ out)
  BY <1>1, <1>2, <1>6, <1>7, <1>9, EndDelivers DEF Exit, Delivering
<1> QED
  BY <1>8, <1>9

\* A single block that is there is the one whose size was taken.
LEMMA CopyWholeDelivers ==
    ASSUME IInv, Delivering, CopyWhole
    PROVE  Delivering'
<1> DEFINE input  == IF Mode = "d" THEN files[From] ELSE SubSeq(files[From], 1, size)
           enough == IF Mode = "d" THEN Whole(input) ELSE Len(files[From]) >= size
<1>1. /\ Called /\ UNCHANGED <<stream, lost>> /\ pc = "header" /\ IsSingle
      /\ \/ enough /\ Spill(Coded(Mode, input)) /\ Go("close")
         \/ enough /\ SpillAndFail(Coded(Mode, input))
         \/ UNCHANGED <<files, pending>> /\ Exit(1)
  BY DEF CopyWhole
<1>2. UNCHANGED <<command, before, runs, data, size, pos, lost>>
  BY <1>1 DEF CopyWhole, Called, stream
<1>3. CASE UNCHANGED <<files, pending>> /\ Exit(1)
  <2>1. Stored'
    BY <1>2, <1>3, StoredKeeps DEF Delivering
  <2>2. pending' = << >> /\ size' \in Nat /\ pos' \in 0 .. size' /\ lost' \in BOOLEAN
    BY <1>1, <1>2, <1>3 DEF Delivering, Written, Typed
  <2> QED
    BY <1>2, <1>3, <2>1, <2>2, EndDelivers DEF Exit, Delivering
<1>4. CASE enough /\ ((Spill(Coded(Mode, input)) /\ Go("close")) \/ SpillAndFail(Coded(Mode, input)))
  <2>1. From \in Paths /\ To \in Paths /\ Mode \in {"c", "d"} /\ files[To] = << >>
    BY <1>1, CommandIs DEF Streamed, Delivering, Opening
  <2>2. input = Input /\ Able
    <3>1. CASE Mode = "d"
      <4>1. HasHeader(files[From]) /\ From # To /\ input = files[From]
        BY <1>1, <2>1, <3>1 DEF IsSingle, HasHeader
      <4>2. files[From] = Input /\ Input # NoFile
        BY <1>1, <3>1, <4>1 DEF Delivering, Opening
      <4>3. Whole(Input)
        BY <1>4, <3>1, <4>1, <4>2
      <4> QED
        BY <4>1, <4>2, <4>3, <3>1 DEF Able, CanCode
    <3>2. CASE Mode = "c"
      <4>1. Input # NoFile /\ size = Len(Input) /\ Len(files[From]) >= size
            /\ (From # To => Resized(files[From], Input))
        BY <1>1, <1>4, <3>2 DEF Delivering, Opening
      <4>2. PICK S, X : Held(S, X)
        BY DEF Delivering, Stored
      <4>3. Input \in Seq(X) /\ files[From] \in Seq(X)
        BY <2>1, <4>2 DEF Held, Closed, Input
      <4>4. SubSeq(Input, 1, Len(Input)) = Input
        BY <4>3, SubSeqFull
      <4>5. SubSeq(files[From], 1, size) = Input
        <5>1. CASE files[From] = << >>
          <6>1. Len(Input) = 0
            BY <4>1, <4>3, <5>1, EmptySeq
          <6>2. Input = << >>
            BY <4>3, <6>1, EmptySeq
          <6> QED
            BY <4>1, <4>4, <5>1, <6>2
        <5>2. CASE files[From] # << >>
          <6>1. Resized(files[From], Input)
            BY <2>1, <4>1, <5>2
          <6> QED
            BY <4>1, <4>4, <5>2, <6>1 DEF Resized
        <5> QED
          BY <5>1, <5>2
      <4> QED
        BY <3>2, <4>1, <4>5 DEF Able, CanCode
    <3> QED
      BY <2>1, <3>1, <3>2
  <2> DEFINE w == Coded(Mode, input)
  <2>3. w = Target
    BY <2>2 DEF Target
  <2>4. (Spill(w) /\ Go("close")) \/ SpillAndFail(w)
    BY <1>4
  <2> HIDE DEF w, input
  <2> QED
    BY <1>1, <2>1, <2>2, <2>3, <2>4, WholeDelivers
<1> QED
  BY <1>1, <1>3, <1>4

\* The header is the first cell of the result, or tells how many follow.
LEMMA CopyHeaderDelivers ==
    ASSUME IInv, Delivering, CopyHeader
    PROVE  Delivering'
<1>1. /\ UNCHANGED <<command, before, runs, files, pos, lost>> /\ pc = "header" /\ ~IsSingle
      /\ \/ Mode = "c" /\ pending' = <<HeaderCell(size)>> /\ pc' = "copy" /\ status' = status
               /\ size' = size
         \/ /\ Mode = "d" /\ HasHeader(files[From]) /\ size' = files[From][1][2]
            /\ pc' = "copy" /\ status' = status /\ pending' = pending
         \/ pending' = pending /\ size' = size /\ pc' = "shell" /\ status' = 1
  BY DEF CopyHeader, Called, Go, Exit
<1>2. UNCHANGED <<Mode, From, To, Input, Target>>
  BY <1>1, SameCommand
<1>3. PICK S, X : Held(S, X)
  BY DEF Delivering, Stored
<1>4. From \in Paths /\ To \in Paths /\ Mode \in {"c", "d"}
  BY <1>1, CommandIs DEF Streamed
<1>5. /\ Input \in S /\ Input \in Seq(X) /\ files[From] \in Seq(X)
      /\ Pack(Input) \in S /\ Pack(Input) \in Seq(X) /\ S \subseteq Seq(X)
  BY <1>3, <1>4 DEF Held, Closed, Input
<1>6. files[To] = << >> /\ pos = 0 /\ pending = << >> /\ status = -1 /\ lost \in BOOLEAN /\ size \in Nat
  BY <1>1 DEF Delivering, Opening, Written, Typed
<1>7. CASE pc' = "shell"
  <2>1. Stored'
    BY <1>1, <1>7, StoredKeeps DEF Delivering
  <2>2. pending' = << >> /\ size' \in Nat /\ pos' \in 0 .. size' /\ status' = 1 /\ lost' \in BOOLEAN
    BY <1>1, <1>6, <1>7
  <2> QED
    BY <1>1, <1>7, <2>1, <2>2, EndDelivers DEF Delivering
<1>8. CASE Mode = "c" /\ pc' = "copy"
  <2>1. pending' = <<HeaderCell(size)>> /\ size' = size /\ status' = status
    BY <1>1, <1>8
  <2>2. Input # NoFile /\ size = Len(Input) /\ size > 0
        /\ (From # To => Resized(files[From], Input))
    BY <1>1, <1>6, <1>8 DEF Delivering, Opening, IsSingle
  <2>3. Len(Pack(Input)) = Len(Input) + 1 /\ Len(Input) \in Nat /\ Pack(Input)[1] = HeaderCell(Len(Input))
    BY <1>5, PackIs
  <2>4. pending' \in Seq(X) /\ << >> \o pending' = SubSeq(Pack(Input), 1, 1)
    <3>1. << >> \in Seq(X) /\ << >> \o << >> = SubSeq(Pack(Input), 1, 0)
      BY <1>5, EmptySeq, SubSeqEmpty, ConcatEmptySeq
    <3>2. 0 \in 0 .. Len(Pack(Input)) - 1 /\ 1 = 0 + 1
      BY <2>3
    <3>3. Append(<< >>, Pack(Input)[1]) \in Seq(X)
          /\ << >> \o Append(<< >>, Pack(Input)[1]) = SubSeq(Pack(Input), 1, 1)
      <4>1. Growing(X, Pack(Input), << >>, << >>, 0, 1)
        BY <1>5, <3>1, <3>2, OneMore
      <4> QED
        BY <3>1, <4>1 DEF Growing
    <3>4. Append(<< >>, Pack(Input)[1]) = pending'
      BY <2>1, <2>2, <2>3
    <3> QED
      BY <3>3, <3>4
  <2>5. Stored'
    BY <1>1, <1>3, <2>4, HeldKeeps DEF Held
  <2>6. Typed' /\ status' = -1
    BY <1>1, <1>6, <1>8, <2>1 DEF Delivering, Typed
  <2>7. Opening'
    BY <1>1, <1>2, <1>8, <2>1, <2>2 DEF Opening, Resized
  <2>8. Reached' = 1 /\ Target' = Pack(Input) /\ files'[To'] = << >>
    BY <1>1, <1>2, <1>6, <1>8 DEF Reached, Target, Coded
  <2>9. files'[To'] \o pending' = SubSeq(Target', 1, Reached')
    BY <2>4, <2>8
  <2>10. Copying'
    BY <1>1, <1>2, <1>6, <1>8, <2>1, <2>2, <2>8, <2>9 DEF Copying
  <2>11. Written'
    BY <1>8, <2>6 DEF Written
  <2> QED
    BY <2>5, <2>6, <2>7, <2>10, <2>11 DEF Delivering
<1>9. CASE Mode = "d" /\ pc' = "copy"
  <2>1. HasHeader(files[From]) /\ size' = files[From][1][2] /\ pending' = pending /\ status' = status
    BY <1>1, <1>9
  <2>2. From # To
    BY <1>6, <2>1 DEF HasHeader
  <2>3. files[From] = Input /\ Input # NoFile
    BY <1>1, <1>9, <2>2 DEF Delivering, Opening
  <2>4. HasHeader(Input) /\ Sound(Input) /\ size' = Input[1][2]
    BY <1>3, <1>5, <2>1, <2>3 DEF Held, Closed
  <2>5. size' \in Nat /\ Len(Input) > 0
    <3>1. Len(Input) # 0
      BY <1>5, <2>4, EmptySeq DEF HasHeader
    <3> QED
      BY <1>5, <2>4, <3>1 DEF Sound
  <2>6. Stored'
    BY <1>1, <2>1, StoredKeeps DEF Delivering
  <2>7. Typed' /\ status' = -1
    BY <1>1, <1>6, <1>9, <2>1, <2>5 DEF Delivering, Typed
  <2>8. Opening'
    BY <1>1, <1>2, <1>9, <2>2, <2>3 DEF Opening
  <2>9. files'[To'] \o pending' = SubSeq(Target', 1, Reached')
    <3>1. Target \in Seq(X)
      BY <1>3, <1>9, <2>4, TargetIn
    <3>2. SubSeq(Target, 1, 0) = << >> /\ << >> \o << >> = << >>
      BY <3>1, SubSeqEmpty, ConcatEmptySeq, EmptySeq
    <3>3. Reached' = 0 /\ Target' = Target /\ files'[To'] = << >> /\ pending' = << >>
      BY <1>1, <1>2, <1>6, <1>9, <2>1 DEF Reached
    <3> QED
      BY <3>2, <3>3
  <2>10. HasHeader(Input)' /\ size' = Input'[1][2] /\ pos' < Len(Input')
    BY <1>1, <1>2, <1>6, <2>4, <2>5 DEF HasHeader
  <2>11. Copying'
    BY <1>2, <1>9, <2>2, <2>9, <2>10 DEF Copying
  <2>12. Written'
    BY <1>9, <2>7 DEF Written
  <2> QED
    BY <2>6, <2>7, <2>8, <2>11, <2>12 DEF Delivering
<1> QED
  BY <1>1, <1>7, <1>8, <1>9

\* While blocks are copied: what there is of the result, and what comes next.
LEMMA CopyIs ==
    ASSUME IInv, Delivering, NEW S, NEW X, Held(S, X), pc = "copy"
    PROVE  /\ From \in Paths /\ To \in Paths /\ Mode \in {"c", "d"}
           /\ Input \in Seq(X) /\ Target \in Seq(X) /\ Len(Target) \in Nat
           /\ files[To] \in Seq(X) /\ pending \in Seq(X)
           /\ Reached \in 0 .. Len(Target) /\ Reached \in Nat
           /\ files[To] \o pending = SubSeq(Target, 1, Reached)
           /\ \A n \in 0 .. Len(Target) : SubSeq(Target, 1, n) \in S
           /\ pos = size => Reached = Len(Target) /\ Able
           /\ pos < size /\ There => From # To /\ Reached < Len(Target) /\ Copied = Target[Reached + 1]
<1>1. From \in Paths /\ To \in Paths /\ Mode \in {"c", "d"}
  BY CommandIs DEF Streamed
<1>2. /\ Mode = "d" => HasHeader(Input) /\ size = Input[1][2] /\ pos < Len(Input)
      /\ From = To => Mode = "c" /\ pos = 0 /\ size > 0 /\ files[To] = << >>
      /\ files[To] \o pending = SubSeq(Target, 1, Reached)
  BY DEF Delivering, Copying
<1>3. size \in Nat /\ pos \in 0 .. size /\ pos \in Nat
  BY DEF Delivering, Typed
<1>4. /\ Mode = "c" => Input # NoFile /\ size = Len(Input)
      /\ From # To => IF Mode = "c" THEN Resized(files[From], Input) ELSE files[From] = Input
  BY DEF Delivering, Opening
<1>5. /\ Input \in S /\ Input \in Seq(X)
      /\ Target \in S /\ Target \in Seq(X) /\ Len(Target) \in Nat
  BY <1>1, <1>2, TargetIn
<1>6. files[To] \in Seq(X) /\ pending \in Seq(X) /\ files[From] \in Seq(X) /\ Sound(Input)
  BY <1>1, <1>5 DEF Held, Closed
<1>7. \A n \in 0 .. Len(Target) : SubSeq(Target, 1, n) \in S
  BY <1>5 DEF Held, Closed, Beginnings
<1>8. CASE Mode = "c"
  <2>1. Target = Pack(Input) /\ Reached = pos + 1 /\ Able /\ At = pos + 1
        /\ Copied = <<"frame", files[From][pos + 1]>>
    BY <1>4, <1>8 DEF Target, Coded, Reached, Able, CanCode, At, Copied
  <2>2. Len(Target) = Len(Input) + 1 /\ \A k \in 1 .. Len(Input) : Target[k + 1] = <<"frame", Input[k]>>
    BY <1>5, <2>1, TargetIs
  <2>3. Reached \in 0 .. Len(Target) /\ Reached \in Nat /\ (pos = size => Reached = Len(Target))
    BY <1>3, <1>4, <1>8, <2>1, <2>2
  <2>4. ASSUME pos < size, There
        PROVE  From # To /\ Reached < Len(Target) /\ Copied = Target[Reached + 1]
    <3>1. pos + 1 <= Len(files[From]) /\ Len(files[From]) > 0
      BY <1>3, <1>6, <2>1, <2>4 DEF There
    <3>2. files[From] # << >>
      BY <3>1
    <3>3. From # To
      BY <1>2, <3>2
    <3>4. pos + 1 \in 1 .. Len(Input)
      BY <1>3, <1>4, <1>8, <2>4
    <3>5. files[From][pos + 1] = Input[pos + 1]
      <4>1. CASE files[From] = Input
        BY <4>1
      <4>2. CASE Len(files[From]) = Len(Input) + 1 /\ SubSeq(files[From], 1, Len(Input)) = Input
        <5>1. Len(Input) \in 0 .. Len(files[From])
          BY <1>5, <4>2
        <5>2. \A i \in 1 .. Len(Input) : SubSeq(files[From], 1, Len(Input))[i] = files[From][i]
          BY <1>6, <5>1, BeginningsNest
        <5> QED
          BY <3>4, <4>2, <5>2
      <4> QED
        BY <1>4, <1>8, <3>2, <3>3, <4>1, <4>2 DEF Resized
    <3>6. Target[(pos + 1) + 1] = <<"frame", Input[pos + 1]>>
      BY <2>2, <3>4
    <3> QED
      BY <1>3, <1>4, <1>8, <2>1, <2>2, <2>4, <3>3, <3>5, <3>6
  <2> QED
    BY <1>1, <1>2, <1>5, <1>6, <1>7, <2>1, <2>3, <2>4
<1>9. CASE Mode = "d"
  <2>1. Target = Unpack(Input) /\ Reached = pos /\ From # To /\ files[From] = Input
        /\ At = pos + 2 /\ Copied = Input[pos + 2][2]
    BY <1>2, <1>4, <1>9 DEF Target, Coded, Reached, At, Copied
  <2>2. /\ Len(Target) = Len(Input) - 1 /\ Len(Input) \in Nat \ {0} /\ Input # NoFile
        /\ \A k \in 1 .. Len(Input) - 1 : Target[k] = Input[k + 1][2]
    BY <1>2, <1>5, <1>9, <2>1, TargetIs
  <2>3. Reached \in 0 .. Len(Target) /\ Reached \in Nat
    BY <1>2, <1>3, <1>9, <2>1, <2>2
  <2>4. ASSUME pos = size PROVE Reached = Len(Target) /\ Able
    <3>1. Len(Input) <= 1 + size /\ pos < Len(Input)
      BY <1>2, <1>6, <1>9 DEF Sound
    <3>2. Len(Input) = 1 + size
      BY <1>3, <2>2, <2>4, <3>1
    <3> QED
      BY <1>2, <1>3, <1>9, <2>1, <2>2, <2>4, <3>2 DEF Able, CanCode, Whole
  <2>5. ASSUME There PROVE Reached < Len(Target) /\ Copied = Target[Reached + 1]
    <3>1. pos + 2 <= Len(Input)
      BY <2>1, <2>5 DEF There
    <3>2. pos + 1 \in 1 .. Len(Input) - 1 /\ (pos + 1) + 1 = pos + 2
      BY <1>3, <2>2, <3>1
    <3>3. Target[pos + 1] = Input[(pos + 1) + 1][2]
      BY <2>2, <3>2
    <3> QED
      BY <1>3, <2>1, <2>2, <3>1, <3>2, <3>3
  <2> QED
    BY <1>1, <1>2, <1>5, <1>6, <1>7, <2>1, <2>3, <2>4, <2>5
<1> QED
  BY <1>1, <1>8, <1>9

\* One more block of the input is one more cell of the result.
LEMMA CopyBlockDelivers ==
    ASSUME IInv, Delivering, CopyBlock
    PROVE  Delivering'
<1>1. /\ UNCHANGED <<command, before, runs, pc, status, data, size, lost>>
      /\ pc = "copy" /\ pos < size /\ There /\ Spill(Append(pending, Copied)) /\ pos' = pos + 1
  BY DEF CopyBlock, Called
<1>2. UNCHANGED <<Mode, From, To, Input, Target>>
  BY <1>1, SameCommand
<1>3. PICK S, X : Held(S, X)
  BY DEF Delivering, Stored
<1>4. /\ From \in Paths /\ To \in Paths /\ Mode \in {"c", "d"} /\ Input \in Seq(X)
      /\ Target \in Seq(X) /\ Len(Target) \in Nat
      /\ files[To] \in Seq(X) /\ pending \in Seq(X)
      /\ Reached \in Nat /\ Reached < Len(Target) /\ From # To /\ Copied = Target[Reached + 1]
      /\ \A n \in 0 .. Len(Target) : SubSeq(Target, 1, n) \in S
  BY <1>1, <1>3, CopyIs
<1>5. files[To] \o pending = SubSeq(Target, 1, Reached)
  BY <1>1, <1>3, CopyIs
<1> DEFINE m == Reached + 1
           w == Append(pending, Copied)
<1>6. m \in 0 .. Len(Target) /\ Reached \in 0 .. Len(Target) - 1 /\ m = Reached + 1
  BY <1>4
<1>7. w \in Seq(X) /\ files[To] \o w = SubSeq(Target, 1, m)
  <2>1. w = Append(pending, Target[m])
    BY <1>4
  <2> HIDE DEF m, w
  <2>2. Growing(X, Target, files[To], pending, Reached, m)
    BY <1>4, <1>6, OneMore
  <2> QED
    BY <1>5, <2>1, <2>2 DEF Growing
<1>8. Spill(w)
  BY <1>1
<1> HIDE DEF m, w
<1>9. files[To] \o w \in S
  BY <1>4, <1>6, <1>7
<1>10. /\ Stored' /\ files'[To] \o pending' = files[To] \o w
       /\ \A p \in Paths : p # To => files'[p] = files[p]
  BY <1>1, <1>3, <1>7, <1>8, <1>9, SpillDelivers
<1>11. size \in Nat /\ pos \in 0 .. size /\ pos' \in 0 .. size' /\ Typed'
  <2>1. size \in Nat /\ pos \in 0 .. size
    BY DEF Delivering, Typed
  <2>2. pos' \in 0 .. size'
    BY <1>1, <2>1
  <2> QED
    BY <1>1, <2>1, <2>2 DEF Delivering, Typed
<1>12. files'[From] = files[From]
  BY <1>4, <1>10
<1>13. Opening'
  BY <1>1, <1>2, <1>4, <1>12 DEF Delivering, Opening, Resized
<1>14. Reached' = m
  BY <1>1, <1>2, <1>4, <1>11 DEF Reached, m
<1>15. files'[To'] \o pending' = SubSeq(Target', 1, Reached')
  BY <1>2, <1>7, <1>10, <1>14
<1>16. Mode = "d" => HasHeader(Input) /\ size = Input[1][2] /\ pos' < Len(Input)
  <2>1. Mode = "d" => HasHeader(Input) /\ size = Input[1][2]
    BY <1>1 DEF Delivering, Copying
  <2>2. Mode = "d" => pos' < Len(Input)
    <3>1. Mode = "d" => Len(Target) = Len(Input) - 1 /\ Reached = pos /\ Len(Input) \in Nat
      BY <1>4, <2>1, TargetIs DEF Target, Coded, Reached
    <3> QED
      BY <1>1, <1>4, <1>11, <3>1
  <2> QED
    BY <2>1, <2>2
<1>17. (Mode = "d" => HasHeader(Input) /\ size = Input[1][2] /\ pos < Len(Input))'
  BY <1>1, <1>2, <1>16 DEF HasHeader
<1>18. Copying'
  BY <1>2, <1>4, <1>15, <1>17 DEF Copying
<1>19. Written'
  BY <1>1 DEF Delivering, Typed, Written
<1> QED
  BY <1>10, <1>11, <1>13, <1>18, <1>19 DEF Delivering

\* If the next block cannot be had, the command says so.
LEMMA CopyFailsDelivers ==
    ASSUME IInv, Delivering, CopyFails
    PROVE  Delivering'
<1> DEFINE w == IF There THEN Append(pending, Copied) ELSE pending
<1>1. Called /\ UNCHANGED <<stream, lost>> /\ pc = "copy" /\ pos < size /\ SpillAndFail(w)
  BY DEF CopyFails
<1>2. PICK S, X : Held(S, X)
  BY DEF Delivering, Stored
<1>3. /\ Target \in Seq(X) /\ Len(Target) \in Nat
      /\ files[To] \in Seq(X) /\ pending \in Seq(X)
      /\ Reached \in Nat /\ Reached \in 0 .. Len(Target)
      /\ There => Reached < Len(Target) /\ Copied = Target[Reached + 1]
      /\ \A n \in 0 .. Len(Target) : SubSeq(Target, 1, n) \in S
  BY <1>1, <1>2, CopyIs
<1>4. files[To] \o pending = SubSeq(Target, 1, Reached)
  BY <1>1, <1>2, CopyIs
<1>5. w \in Seq(X) /\ files[To] \o w \in S
  <2>1. CASE ~There
    BY <1>3, <1>4, <2>1
  <2>2. CASE There
    <3> DEFINE m == Reached + 1
               v == Append(pending, Target[m])
    <3>1. m \in 0 .. Len(Target) /\ Reached \in 0 .. Len(Target) - 1 /\ m = Reached + 1 /\ w = v
      BY <1>3, <2>2
    <3> HIDE DEF m, w
    <3>2. Growing(X, Target, files[To], pending, Reached, m)
      BY <1>3, <3>1, OneMore
    <3>3. v \in Seq(X) /\ files[To] \o v = SubSeq(Target, 1, m)
      BY <1>4, <3>2 DEF Growing
    <3> HIDE DEF v
    <3> QED
      BY <1>3, <3>1, <3>3
  <2> QED
    BY <2>1, <2>2
<1> HIDE DEF w
<1>6. UNCHANGED <<command, before>>
  BY <1>1 DEF Called
<1> QED
  BY <1>1, <1>2, <1>5, <1>6, FailDelivers DEF Delivering

\* When as many blocks as were announced are copied, the result is complete.
LEMMA EndCopyDelivers ==
    ASSUME IInv, Delivering, EndCopy
    PROVE  Delivering'
<1>1. /\ UNCHANGED <<command, before, runs, files, pending, lost, size, pos>>
      /\ pc = "copy" /\ pos = size /\ pc' = "close" /\ status' = status
  BY DEF EndCopy, Called, Unwritten, Go, stream
<1>2. UNCHANGED <<Mode, From, To, Input, Target>> /\ (Able' <=> Able)
  BY <1>1, SameCommand
<1>3. PICK S, X : Held(S, X)
  BY DEF Delivering, Stored
<1>4. Reached = Len(Target) /\ Able /\ Target \in Seq(X) /\ files[To] \o pending = SubSeq(Target, 1, Reached)
  BY <1>1, <1>3, CopyIs
<1>5. SubSeq(Target, 1, Len(Target)) = Target
  BY <1>4, SubSeqFull
<1>6. Able' /\ files'[To'] \o pending' = Target'
  BY <1>1, <1>2, <1>4, <1>5
<1>7. Typed' /\ status' = -1
  BY <1>1 DEF Delivering, Typed
<1>8. Opening' /\ Copying' /\ Written'
  BY <1>1, <1>6, <1>7 DEF Opening, Copying, Written
<1>9. Stored'
  BY <1>1, StoredKeeps DEF Delivering
<1> QED
  BY <1>7, <1>8, <1>9 DEF Delivering

\* Closing writes the rest, or some of it and the rest is lost.
LEMMA CloseDelivers ==
    ASSUME IInv, Delivering, Close
    PROVE  Delivering'
<1>1. PICK b \in Beginnings(pending) : files' = [files EXCEPT ![To] = @ \o b] /\ lost' = (b # pending)
  BY DEF Close
<1>2. /\ UNCHANGED <<command, before, runs, size, pos>> /\ pc = "close"
      /\ pending' = << >> /\ pc' = "report" /\ status' = status
  BY DEF Close, Called, Go, stream
<1>3. PICK S, X : Held(S, X)
  BY DEF Delivering, Stored
<1>4. Able /\ files[To] \o pending = Target
  BY <1>2 DEF Delivering, Written
<1>5. Target \in S
  BY <1>2, <1>3, <1>4, TargetIn, CommandIs DEF Able, CanCode, Whole
<1>6. files[To] \o pending \in S /\ pending \in Seq(X)
  BY <1>3, <1>4, <1>5 DEF Held
<1>7. files'[To] = files[To] \o b /\ \A p \in Paths : files'[p] \in S
  <2>1. files' = [files EXCEPT ![To] = @ \o b] /\ UNCHANGED <<command, before>>
    BY <1>1, <1>2
  <2>2. /\ \A p \in Paths : files'[p] \in S /\ (p # To => files'[p] = files[p])
        /\ files'[To] = files[To] \o b
        /\ Reaching(S, X, files[To], pending, b)
    BY <1>3, <1>6, <2>1, SpillIs
  <2> QED
    BY <2>2
<1>8. Stored'
  <2>1. pending' \in Seq(X)
    BY <1>2, EmptySeq
  <2> QED
    BY <1>2, <1>3, <1>7, <2>1, HeldKeeps
<1>9. Complete' <=> Able /\ files'[To] = Target
  BY <1>2, SameCommand
<1>10. lost' \/ Complete'
  <2>1. CASE b = pending
    BY <1>4, <1>7, <1>9, <2>1
  <2>2. CASE b # pending
    BY <1>1, <2>2
  <2> QED
    BY <2>1, <2>2
<1>11. Typed' /\ status' = -1
  <2>1. lost' \in BOOLEAN
    BY <1>1
  <2> QED
    BY <1>2, <2>1 DEF Delivering, Typed
<1>12. Opening' /\ Copying' /\ Written'
  BY <1>2, <1>10 DEF Opening, Copying, Written
<1> QED
  BY <1>8, <1>11, <1>12 DEF Delivering

\* What it exits with says nothing of what was lost.
LEMMA ReportDelivers ==
    ASSUME IInv, Delivering, Report
    PROVE  Delivering'
<1>1. /\ UNCHANGED <<command, before, runs, files, pending, lost, size, pos>>
      /\ pc = "report" /\ pc' = "shell" /\ status' \in {0, 1}
  BY DEF Report, Called, Unwritten, Exit, stream
<1>2. Complete' <=> Complete
  BY <1>1, SameCommand DEF Complete, Able, Target, Input
<1>3. lost' \/ Complete'
  BY <1>1, <1>2 DEF Delivering, Written
<1>4. pending' = << >> /\ size' \in Nat /\ pos' \in 0 .. size' /\ lost' \in BOOLEAN
  BY <1>1 DEF Delivering, Typed, Written
<1>5. Stored'
  BY <1>1, StoredKeeps DEF Delivering
<1> QED
  BY <1>1, <1>3, <1>4, <1>5, EndDelivers DEF Delivering

\* The input of c may have shrunk or grown when it is read.
LEMMA InterfereDelivers ==
    ASSUME IInv, Delivering, Interfere
    PROVE  Delivering'
<1> DEFINE id == <<From, MaxBlocks + 1>>
           grown == Append(files[From], <<"data", id>>)
<1>1. /\ UNCHANGED <<command, before, runs, pc, status, size, pos, pending, lost>>
      /\ pc \in {"open", "header"} /\ Mode = "c" /\ From # To
      /\ files[From] = Input /\ ~HasHeader(files[From])
      /\ \E new \in {<< >>, grown} : files' = [files EXCEPT ![From] = new]
  BY DEF Interfere, Called, stream, Input
<1>2. UNCHANGED <<Mode, From, To, Input, Target>>
  BY <1>1, SameCommand
<1>3. From \in Paths /\ To \in Paths /\ DOMAIN files = Paths
  BY CommandIs
<1>4. PICK S, X : Held(S, X)
  BY DEF Delivering, Stored
<1>5. files[From] \in S /\ files[From] \in Seq(X) /\ Closed(S, X)
  BY <1>3, <1>4 DEF Held, Closed
<1> HIDE DEF id
<1>6. PICK T, Y : Closed(T, Y) /\ S \subseteq T /\ X \subseteq Y /\ grown \in T
  BY <1>1, <1>5, DataAdded
<1>7. << >> \in T
  BY <1>5, <1>6, EmptyIn
<1>8. Len(grown) = Len(Input) + 1 /\ SubSeq(grown, 1, Len(Input)) = Input
  <2> DEFINE f == files[From]
             n == Len(f)
  <2>1. f \in Seq(Y) /\ grown \in Seq(Y)
    BY <1>5, <1>6 DEF Closed
  <2>2. n \in Nat /\ Len(grown) = n + 1 /\ \A i \in 1 .. n : grown[i] = f[i]
    <3>1. <<"data", id>> \in {<<"data", id>>} \cup Y /\ f \in Seq({<<"data", id>>} \cup Y)
      <4>1. Y \subseteq {<<"data", id>>} \cup Y
        OBVIOUS
      <4> QED
        BY <2>1, <4>1, SeqMonotonic
    <3> QED
      BY <3>1, AppendProperties
  <2> HIDE DEF grown, f
  <2>3. n \in 0 .. Len(grown)
    BY <2>2
  <2>4. SubSeq(grown, 1, n) \in Seq(Y) /\ Len(SubSeq(grown, 1, n)) = n
        /\ \A i \in 1 .. n : SubSeq(grown, 1, n)[i] = grown[i]
    BY <2>1, <2>3, BeginningsNest
  <2>5. SubSeq(grown, 1, n) = f
    BY <2>1, <2>2, <2>4, SeqEqual
  <2> QED
    BY <1>1, <2>2, <2>5 DEF f
<1> HIDE DEF grown
<1>9. files'[From] \in {<< >>, grown} /\ \A p \in Paths : p # From => files'[p] = files[p]
  BY <1>1, <1>3
<1>10. Stored'
  <2>1. \A p \in Paths : files'[p] \in T
    BY <1>4, <1>6, <1>7, <1>9 DEF Held
  <2>2. pending' = << >> /\ pending' \in Seq(Y)
    BY <1>1, EmptySeq DEF Delivering, Written
  <2>3. Held(T, Y)
    <3>1. pending \in Seq(Y)
      BY <1>1, <2>2
    <3> QED
      BY <1>4, <1>6, <3>1 DEF Held
  <2> QED
    BY <1>1, <2>1, <2>2, <2>3, HeldKeeps
<1>11. Typed' /\ status' = -1
  BY <1>1 DEF Delivering, Typed
<1>12. Resized(files'[From], Input)
  BY <1>8, <1>9 DEF Resized
<1>13. files'[To] = files[To]
  BY <1>1, <1>3, <1>9
<1>14. Opening'
  BY <1>1, <1>2, <1>12, <1>13 DEF Delivering, Opening, Resized
<1>15. Copying' /\ Written'
  BY <1>1, <1>11 DEF Delivering, Copying, Written
<1> QED
  BY <1>10, <1>11, <1>14, <1>15 DEF Delivering

\* No file there is before the first command is a container.
LEMMA InitStored ==
    ASSUME Init
    PROVE  Stored
<1> DEFINE Datum == {<<"data", <<p, k>>>> : p \in Paths, k \in Nat}
           X == Datum \cup {<<"absent", 0>>}
           D == {f \in Seq(X) : ~HasHeader(f)}
<1>1. Closed(D, X)
  <2> HIDE DEF X
  <2>1. ASSUME NEW f \in D, NEW n \in 0 .. Len(f) PROVE SubSeq(f, 1, n) \in D
    <3>1. f \in Seq(X) /\ ~HasHeader(f)
      OBVIOUS
    <3> DEFINE g == SubSeq(f, 1, n)
    <3>2. g \in Seq(X) /\ Len(g) = n /\ \A i \in 1 .. n : g[i] = f[i]
      BY <3>1, BeginningsNest
    <3>3. n > 0 => g[1] = f[1] /\ f # << >>
      BY <3>1, <3>2
    <3> HIDE DEF g
    <3>4. n = 0 => g = << >>
      BY <3>2, EmptySeq
    <3>5. ~HasHeader(g)
      BY <3>1, <3>3, <3>4 DEF HasHeader
    <3> QED
      BY <3>2, <3>5 DEF g
  <2>2. \A f \in D : Beginnings(f) \subseteq D
    <3> HIDE DEF D
    <3> QED
      BY <2>1 DEF Beginnings
  <2>3. \A f \in D : f \in Seq(X) /\ ~HasHeader(f)
    OBVIOUS
  <2> HIDE DEF D
  <2> QED
    BY <2>2, <2>3 DEF Closed, Sound
<1>2. ASSUME NEW p \in Paths PROVE files[p] \in D
  <2>1. PICK n \in [Paths -> 0 .. MaxBlocks + 1] :
            files = [q \in Paths |-> IF n[q] > MaxBlocks THEN NoFile ELSE DataFile(q, n[q])]
    BY DEF Init
  <2>2. files[p] = IF n[p] > MaxBlocks THEN NoFile ELSE DataFile(p, n[p])
    BY <2>1
  <2>3. NoFile \in D
    <3>1. <<"absent", 0>> \in X
      OBVIOUS
    <3> HIDE DEF X
    <3> QED
      BY <3>1 DEF NoFile, HasHeader
  <2>4. n[p] \in Nat
    <3>1. n[p] \in 0 .. MaxBlocks + 1 /\ MaxBlocks \in Nat
      BY CliAssumption
    <3> QED
      BY <3>1
  <2>5. DataFile(p, n[p]) \in D
    <3> DEFINE cell(k) == <<"data", <<p, k>>>>
               f == [k \in 1 .. n[p] |-> cell(k)]
    <3>1. \A k \in 1 .. n[p] : cell(k) \in X
      BY <2>4
    <3>2. \A k \in 1 .. n[p] : cell(k)[1] # "header"
      OBVIOUS
    <3> HIDE DEF X, cell
    <3>3. f \in Seq(X) /\ Len(f) = n[p] /\ \A k \in 1 .. n[p] : f[k] = cell(k)
      BY <2>4, <3>1
    <3> HIDE DEF f
    <3>4. f # << >> => 1 \in 1 .. n[p]
      BY <2>4, <3>3, EmptySeq
    <3>5. ~HasHeader(f)
      BY <3>2, <3>3, <3>4 DEF HasHeader
    <3>6. f = DataFile(p, n[p])
      BY DEF f, cell, DataFile
    <3> QED
      BY <3>3, <3>5, <3>6
  <2> HIDE DEF D
  <2> QED
    BY <2>2, <2>3, <2>5
<1> HIDE DEF D, X
<1>3. PICK T, Y : Closed(T, Y) /\ D \subseteq T /\ X \subseteq Y /\ \A f \in D : Pack(f) \in T
  BY <1>1, PacksAdded
<1>4. before = files /\ pending = << >>
  BY DEF Init
<1>5. pending \in Seq(Y)
  BY <1>4, EmptySeq
<1>6. Held(T, Y)
  BY <1>2, <1>3, <1>4, <1>5 DEF Held
<1> QED
  BY <1>6 DEF Stored

\* A shell that has run nothing has nothing to deliver.
LEMMA InitDelivers == Init => Delivering
<1> SUFFICES ASSUME Init PROVE Delivering
  OBVIOUS
<1>1. /\ pc = "shell" /\ status = -1 /\ size = 0 /\ pos = 0 /\ pending = << >> /\ lost = FALSE
      /\ runs = 0
  BY DEF Init
<1>2. Typed
  <2>1. 0 \in 0 .. MaxRuns
    BY CliAssumption
  <2>2. lost \in BOOLEAN
    BY <1>1
  <2>3. size \in Nat /\ pos \in 0 .. size
    BY <1>1
  <2>4. runs \in 0 .. MaxRuns
    BY <1>1, <2>1
  <2> QED
    BY <1>1, <2>2, <2>3, <2>4 DEF Typed
<1>3. Opening /\ Copying /\ Written
  BY <1>1 DEF Opening, Copying, Written
<1> QED
  BY <1>2, <1>3, InitStored DEF Delivering

\* Every step keeps what the command has made of its input.
LEMMA NextDelivers == IInv /\ Delivering /\ [Next]_vars => Delivering'
<1> SUFFICES ASSUME IInv, Delivering, [Next]_vars PROVE Delivering'
  OBVIOUS
<1>1. ASSUME NEW c \in Commands, Start(c) PROVE Delivering'
  BY <1>1, StartDelivers
<1>2. CASE ReadFile \/ Code \/ Create
  BY <1>2, ReadingDelivers
<1>3. CASE WriteFile
  BY <1>3, WriteFileDelivers
<1>4. CASE TakeSize
  BY <1>4, TakeSizeDelivers
<1>5. CASE OpenStreams
  BY <1>5, OpenStreamsDelivers
<1>6. CASE CopyWhole
  BY <1>6, CopyWholeDelivers
<1>7. CASE CopyHeader
  BY <1>7, CopyHeaderDelivers
<1>8. CASE CopyBlock
  BY <1>8, CopyBlockDelivers
<1>9. CASE CopyFails
  BY <1>9, CopyFailsDelivers
<1>10. CASE EndCopy
  BY <1>10, EndCopyDelivers
<1>11. CASE Close
  BY <1>11, CloseDelivers
<1>12. CASE Report
  BY <1>12, ReportDelivers
<1>13. CASE Interfere
  BY <1>13, InterfereDelivers
<1>14. CASE Over \/ UNCHANGED vars
  <2>1. /\ UNCHANGED <<files, command, pc, status, size, pos, pending, lost, before, runs>>
    BY <1>14 DEF Over, vars, stream
  <2>2. UNCHANGED <<Mode, From, To, Input, Target>> /\ (Able' <=> Able)
        /\ (Complete' <=> Complete)
    BY <2>1, SameCommand DEF Complete, Able, Target, Input
  <2>3. Typed'
    BY <2>1 DEF Delivering, Typed
  <2>4. Opening'
    BY <2>1, <2>2 DEF Delivering, Opening, Resized
  <2>5. Reached' = Reached
    BY <2>1, <2>2 DEF Reached
  <2>6. Copying'
    BY <2>1, <2>2, <2>5 DEF Delivering, Copying, HasHeader
  <2>7. Written'
    BY <2>1, <2>2 DEF Delivering, Written
  <2>8. Stored'
    BY <2>1, StoredKeeps DEF Delivering
  <2> QED
    BY <2>3, <2>4, <2>6, <2>7, <2>8 DEF Delivering
<1> QED
  BY <1>1, <1>2, <1>3, <1>4, <1>5, <1>6, <1>7, <1>8, <1>9, <1>10, <1>11, <1>12, <1>13, <1>14
     DEF Next, Step

(***************************************************************************)
(* At every step a command has made a beginning of its result, on the disk *)
(* and waiting for it, of what its input held when it started.             *)
(***************************************************************************)
THEOREM ResultIsMade == Spec => []Delivering
<1> QED
  BY Invariance, InitDelivers, NextDelivers, PTL DEF Spec

(***************************************************************************)
(* A command that exits with 0 has left all of its result in the output,   *)
(* whatever the sizes of the files and however often commands were cut off *)
(* before, but for what is lost when the output is closed                  *)
(* (cli.cpp:36-57, 189-237).                                               *)
(***************************************************************************)
THEOREM ResultIsDelivered == Spec => []Delivered
<1>1. IInv /\ Delivering => Delivered
  <2> SUFFICES ASSUME IInv, Delivering PROVE Delivered
    OBVIOUS
  <2>1. TypeOK
    BY DEF IInv, Running, Delivering, Typed, TypeOK
  <2>2. status = 0 /\ Mode # "t" => lost \/ Complete
    BY DEF Delivering, Written
  <2> QED
    BY <2>1, <2>2 DEF Delivered
<1> QED
  BY <1>1, Invariance, ResultIsMade, PTL
==============================================================================
