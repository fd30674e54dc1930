---------------------------------- MODULE Cli ----------------------------------
(***************************************************************************)
(* The commands c, d and t of src/tools/cli.cpp and what they do to the    *)
(* files they are given, which may be one and the same.  In memory, a      *)
(* command reads all, codes all and writes all; with --stream it opens     *)
(* both files first and works a block at a time.  Any step may fail.       *)
(*                                                                         *)
(* A file is a sequence of cells: a block of data, or a header or a frame  *)
(* of a container.  What is written to an ofstream reaches the disk in     *)
(* beginnings, the rest when the stream is closed.                         *)
(***************************************************************************)
EXTENDS Integers, Sequences

CONSTANTS
    Paths,
    MaxBlocks,      \* bound: how many blocks of data a file starts with
    MaxRuns         \* bound: how many commands are run

ASSUME CliAssumption == Paths # {} /\ MaxBlocks \in Nat /\ MaxRuns \in Nat

Modes == {"c", "d", "t"}

\* t has no output and no streaming form.
Commands ==
    {c \in [mode : Modes, stream : BOOLEAN, from : Paths, to : Paths] :
        c.mode = "t" => ~c.stream /\ c.from = c.to}

VARIABLES
    files,          \* what each path holds
    command,        \* the last command
    pc,             \* where it is, "shell" between commands
    status,         \* what it exited with, -1 before that
    data,           \* the bytes held in memory
    size,           \* blocks to be copied by a streaming command
    pos,            \* blocks copied
    pending,        \* written to the output stream and not to the disk
    lost,           \* history: whether closing it failed to write some of that
    before,         \* history: the files as they were when the command started
    runs

stream == <<size, pos>>
vars   == <<files, command, pc, status, data, stream, pending, lost, before, runs>>

NoFile == <<<<"absent", 0>>>>

DataFile(path, n) == [k \in 1 .. n |-> <<"data", <<path, k>>>>]

HeaderCell(n) == <<"header", n>>

\* compress: one block is a payload of its own, more have a frame each.
Pack(content) ==
    [k \in 1 .. Len(content) + 1 |->
        IF k = 1 THEN HeaderCell(Len(content)) ELSE <<"frame", content[k - 1]>>]

HasHeader(content) == content # << >> /\ content[1][1] = "header"

\* A container may have been cut off by a failure; it is never longer than it says.
Whole(content) == HasHeader(content) /\ Len(content) = 1 + content[1][2]

Unpack(content) == [k \in 1 .. Len(content) - 1 |-> content[k + 1][2]]

\* What a command is to make of an input, and whether it can.
CanCode(mode, content) == content # NoFile /\ (mode = "d" => Whole(content))

Coded(mode, content) == IF mode = "d" THEN Unpack(content) ELSE Pack(content)

Beginnings(s) == {SubSeq(s, 1, n) : n \in 0 .. Len(s)}

TypeOK ==
    /\ command \in Commands
    /\ pc \in {"shell", "read", "code", "create", "write", "size", "open", "header", "copy",
               "close", "report"}
    /\ status \in {-1, 0, 1, 2}
    /\ pos \in 0 .. size
    /\ lost \in BOOLEAN
    /\ runs \in 0 .. MaxRuns

Init ==
    /\ \E n \in [Paths -> 0 .. MaxBlocks + 1] :
          files = [p \in Paths |-> IF n[p] > MaxBlocks THEN NoFile ELSE DataFile(p, n[p])]
    /\ command = CHOOSE c \in Commands : c.mode = "t"
    /\ pc = "shell"
    /\ status = -1
    /\ data = << >>
    /\ size = 0 /\ pos = 0
    /\ pending = << >>
    /\ lost = FALSE
    /\ before = files
    /\ runs = 0

Mode == command.mode
From == command.from
To   == command.to

Go(place) == pc' = place /\ UNCHANGED status

Exit(code) == pc' = "shell" /\ status' = code

Unwritten == UNCHANGED <<files, pending, lost>>
Called    == UNCHANGED <<command, before, runs>>

\* Options and arguments come first: one too few or a bad one, and no file is
\* opened.
Start(c) ==
    /\ pc = "shell" /\ runs < MaxRuns
    /\ runs' = runs + 1
    /\ command' = c
    /\ before' = files
    /\ \/ Exit(1)
       \/ Exit(2)
       \/ /\ pc' = IF ~c.stream THEN "read" ELSE IF c.mode = "c" THEN "size" ELSE "open"
          /\ status' = -1
    /\ data' = << >> /\ size' = 0 /\ pos' = 0 /\ lost' = FALSE
    /\ UNCHANGED <<files, pending>>

------------------------------------------------------------------------------
\* In memory: readFile, the codec, writeFile

\* Mutant: both files are opened before either is used.
ReadFile_OpensOutput ==
    /\ pc = "read"
    /\ data' = files[From]
    /\ IF files[From] # NoFile THEN Go("code") ELSE Exit(1)
    /\ files' = IF Mode = "t" THEN files ELSE [files EXCEPT ![To] = << >>]
    /\ UNCHANGED <<stream, pending, lost>> /\ Called

ReadFile ==
    /\ pc = "read"
    /\ \/ files[From] # NoFile /\ data' = files[From] /\ Go("code")
       \/ UNCHANGED data /\ Exit(1)
    /\ Unwritten /\ UNCHANGED stream /\ Called

\* compress or decompress, which may throw; t does both and compares.
Code ==
    /\ pc = "code"
    /\ \/ Mode # "t" /\ CanCode(Mode, data) /\ data' = Coded(Mode, data) /\ Go("create")
       \/ Mode = "t" /\ UNCHANGED data /\ Exit(IF Unpack(Pack(data)) = data THEN 0 ELSE 1)
       \/ UNCHANGED data /\ Exit(1)
    /\ Unwritten /\ UNCHANGED stream /\ Called

\* Opening the output empties it.
Create ==
    /\ pc = "create"
    /\ \/ files' = [files EXCEPT ![To] = << >>] /\ Go("write")
       \/ UNCHANGED files /\ Exit(1)
    /\ UNCHANGED <<data, stream, pending, lost>> /\ Called

\* Some of what is to be written reaches the disk; the rest waits in the stream.
Spill(written) ==
    \E b \in Beginnings(written) :
        /\ files' = [files EXCEPT ![To] = @ \o b]
        /\ pending' = SubSeq(written, Len(b) + 1, Len(written))

\* A failed write: what else the destructor could write is in the beginning.
SpillAndFail(written) ==
    /\ \E b \in Beginnings(written) : files' = [files EXCEPT ![To] = @ \o b]
    /\ pending' = << >>
    /\ Exit(1)

WriteFile ==
    /\ pc = "write"
    /\ \/ Spill(data) /\ Go("close")
       \/ data # << >> /\ SpillAndFail(data)
    /\ UNCHANGED <<data, stream, lost>> /\ Called

------------------------------------------------------------------------------
\* Streaming: compressStream and decompressStream on two open files

\* fileSize of the input.
TakeSize ==
    /\ pc = "size"
    /\ \/ files[From] # NoFile /\ size' = Len(files[From]) /\ Go("open")
       \/ UNCHANGED size /\ Exit(1)
    /\ Unwritten /\ UNCHANGED <<data, pos>> /\ Called

\* Mutant: the size is taken of the input once it is open.
OpenStreams_Sizes ==
    /\ pc = "open"
    /\ files' = [files EXCEPT ![To] = << >>]
    /\ size' = IF Mode = "c" THEN Len(files'[From]) ELSE size
    /\ IF files[From] # NoFile THEN Go("header") ELSE Exit(1)
    /\ UNCHANGED <<data, pos, pending, lost>> /\ Called

\* Both are opened, the output thereby emptied, before either is looked at.
OpenStreams ==
    /\ pc = "open"
    /\ \E in, out \in BOOLEAN :
          /\ in => files[From] # NoFile
          /\ files' = IF out THEN [files EXCEPT ![To] = << >>] ELSE files
          /\ IF in /\ out THEN Go("header") ELSE Exit(1)
    /\ UNCHANGED <<data, stream, pending, lost>> /\ Called

\* A single block, or the single payload of one, is read whole and written whole.
IsSingle == IF Mode = "d" THEN HasHeader(files[From]) /\ files[From][1][2] <= 1 ELSE size <= 1

CopyWhole ==
    /\ pc = "header"
    /\ IsSingle
    /\ LET input  == IF Mode = "d" THEN files[From] ELSE SubSeq(files[From], 1, size)
           enough == IF Mode = "d" THEN Whole(input) ELSE Len(files[From]) >= size
       IN  \/ enough /\ Spill(Coded(Mode, input)) /\ Go("close")
           \/ enough /\ Coded(Mode, input) # << >> /\ SpillAndFail(Coded(Mode, input))
           \/ UNCHANGED <<files, pending>> /\ Exit(1)
    /\ UNCHANGED <<data, stream, lost>> /\ Called

\* The header of several blocks, written or read before any of them.
CopyHeader ==
    /\ pc = "header"
    /\ ~IsSingle
    /\ \/ Mode = "c" /\ pending' = <<HeaderCell(size)>> /\ Go("copy") /\ UNCHANGED size
       \/ /\ Mode = "d" /\ HasHeader(files[From])
          /\ size' = files[From][1][2]
          /\ Go("copy")
          /\ UNCHANGED pending
       \/ UNCHANGED <<pending, size>> /\ Exit(1)
    /\ UNCHANGED <<files, data, pos, lost>> /\ Called

\* Where the next block is in the input, and what becomes of it.
At == IF Mode = "c" THEN pos + 1 ELSE pos + 2

There == At <= Len(files[From])

Copied == IF Mode = "c" THEN <<"frame", files[From][At]>> ELSE files[From][At][2]

CopyBlock ==
    /\ pc = "copy"
    /\ pos < size
    /\ There
    /\ Spill(Append(pending, Copied))
    /\ pos' = pos + 1
    /\ UNCHANGED <<pc, status, data, size, lost>> /\ Called

\* Mutant: a block that is not there is waited for.
CopyFails_Waits ==
    /\ pc = "copy"
    /\ pos < size
    /\ IF There
       THEN SpillAndFail(Append(pending, Copied)) /\ UNCHANGED <<data, stream, lost>> /\ Called
       ELSE UNCHANGED vars

\* The block is not there, or cannot be coded or written.
CopyFails ==
    /\ pc = "copy"
    /\ pos < size
    /\ SpillAndFail(IF There THEN Append(pending, Copied) ELSE pending)
    /\ UNCHANGED <<data, stream, lost>> /\ Called

EndCopy ==
    /\ pc = "copy"
    /\ pos = size
    /\ Go("close")
    /\ Unwritten /\ UNCHANGED <<data, stream>> /\ Called

\* Another process adds to the data that c reads, or empties the file, after its
\* size is taken and before any of it is read (bound: once a command).
Interfere ==
    /\ pc \in {"open", "header"}
    /\ Mode = "c" /\ From # To
    /\ files[From] = before[From] /\ ~HasHeader(files[From])
    /\ \E new \in {<< >>, Append(files[From], <<"data", <<From, MaxBlocks + 1>>>>)} :
          files' = [files EXCEPT ![From] = new]
    /\ UNCHANGED <<pc, status, data, stream, pending, lost>> /\ Called

------------------------------------------------------------------------------

\* The destructor of the ofstream, whose failure no one hears of.
Close ==
    /\ pc = "close"
    /\ \E b \in Beginnings(pending) :
          /\ files' = [files EXCEPT ![To] = @ \o b]
          /\ lost' = (b # pending)
    /\ pending' = << >>
    /\ Go("report")
    /\ UNCHANGED <<data, stream>> /\ Called

\* fileSize of the output, for the message, and the end of main.
Report ==
    /\ pc = "report"
    /\ Exit(0) \/ Exit(1)
    /\ Unwritten /\ UNCHANGED <<data, stream>> /\ Called

Step ==
    \/ ReadFile
    \/ Code
    \/ Create
    \/ WriteFile
    \/ TakeSize
    \/ OpenStreams
    \/ CopyWhole
    \/ CopyHeader
    \/ CopyBlock
    \/ CopyFails
    \/ EndCopy
    \/ Close
    \/ Report

Over ==
    /\ pc = "shell" /\ runs = MaxRuns
    /\ UNCHANGED vars

Next ==
    \/ \E c \in Commands : Start(c)
    \/ Step
    \/ Interfere
    \/ Over

Spec == Init /\ [][Next]_vars

\* A command is one sequential process.
FairSpec == Spec /\ WF_vars(Step)

------------------------------------------------------------------------------
\* Properties

\* The result of the command on what its input held when it started.
Complete == CanCode(Mode, before[From]) /\ files[To] = Coded(Mode, before[From])

(***************************************************************************)
(* A command that exits with 0 has left all of its result in the output,   *)
(* in memory or streaming, if both names are one file, if an earlier       *)
(* command was cut off half-way, and if the input grew or shrank after its *)
(* size was taken; the one exception is what is lost on closing the output *)
(* (cli.cpp:36-57, 189-237); and the variables have their types.           *)
(***************************************************************************)
Delivered ==
    /\ TypeOK
    /\ status = 0 /\ Mode # "t" /\ ~lost => Complete

(***************************************************************************)
(* No command touches a file but its output; in memory that file is as it  *)
(* was until there is a whole result to replace it with, so an input that  *)
(* is missing or corrupt costs nothing (cli.cpp:121-150, 200-202, 228).    *)
(***************************************************************************)
OutputSpared ==
    \A p \in Paths : files[p] # before[p] =>
        \/ command.stream /\ p = To
        \/ command.stream /\ p = From /\ Mode = "c"    \* Interfere
        \/ /\ ~command.stream /\ p = To /\ Mode # "t"
           /\ CanCode(Mode, before[From]) /\ data = Coded(Mode, before[From])

(***************************************************************************)
(* "write failed for" the output is an error (cli.cpp:50, codec.cpp:148),  *)
(* so an exit with 0 says that the output is all there.                    *)
(***************************************************************************)
ExitTellsTruth == status = 0 /\ Mode # "t" => Complete

(***************************************************************************)
(* Every command comes to its end, whatever it finds (cli.cpp:154-247).    *)
(***************************************************************************)
Exits == pc # "shell" ~> pc = "shell"
==============================================================================
