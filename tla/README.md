# Compressly in TLA+

Compressly is a block compressor written in C++ (`src/src`), with a command
line (`src/tools/cli.cpp`), a C API (`src/src/capi.cpp`), a ctypes binding and a
threaded HTTP service (`src/service`). This directory holds TLA+ modules that
model it, the configurations TLC checks them with, and theorems about them
that TLAPS proves. Every definition is translated from the code; `PROJECT.json`
maps each one to the lines it stands for.

## The system

| part | state | operations | hard behaviour |
|---|---|---|---|
| **ThreadPool** `threadpool.cpp` | one mutex, two condition variables, the job (`job_`, `nextIndex_`, `taskCount_`, `outstanding_`, `firstError_`, `stopping_`) | constructor, `forEach`, worker loop, destructor | lost and spurious wake-ups, the unlocked read of `job_`, tasks that throw, a thread that cannot be started |
| **Encoders** `codec.cpp` | a slot for each block (`compress`) or for each block of a batch (`compressStream`), the output so far | cut into blocks, encode in parallel, write in order | tasks end in any order, slots are reused, the last batch and block are short, input ends early, a block or a write fails |
| **Decoders** `codec.cpp` | position, bytes produced, output | `decompress`, `decompressStream` | two code paths that must agree, unsigned subtraction, widths of the length fields, output already written when a later block is corrupt |
| **Block codec** `block.cpp` | none between calls | `encodeBlock`, `decodeBlock`; LZSS framing and Huffman payload | flag bytes patched afterwards, the exact size known in advance, the fallback to stored |
| **LZ77** `lz77.cpp` | hash chains in a ring, parse position | `insertUpTo`, `findLongest`, `tokenize`, `detokenize` | stale links in the ring, looking ahead one byte, matches that overlap themselves or the end |
| **Huffman** `huffman.cpp` | none between calls | code lengths with a limit, canonical codes, decode tree | a limited code must stay a prefix code, one-symbol alphabets |
| **Deflate** `deflate.cpp` | static tables | split and join of lengths and distances, encode, decode | the two-level reverse table, boundaries of the ranges |
| **Bit I/O** `bitio.h` | bit accumulator | write, flush, read | bits left over between calls |
| **C API, binding, service** | last error of each thread, buffers handed off, one connection per client | `cmpr_compress`, `cmpr_decompress`, `cmpr_free`, requests | who frees a buffer when, whose error message is read, a refused request with its body unread, a client that is slow or gone |
| **Command line** `cli.cpp` | the files named, an output stream with its buffer | `c`, `d`, `t`, in memory or with `--stream` | one file for input and output, an input that changes under way, a failure after half of the work, a failure when the output is closed |

`compress` and `compressStream` give the pool one job per file or per batch;
each task of a job is one call of `encodeBlock`, which tokenizes, codes and
chooses between the coded payload and the stored block. The service calls
`compress` through the C API, one thread for each connection; each call builds
a pool of its own.

What makes the parts correct: the pool runs each index exactly once, does not
return early and does not lose an exception; the encoders produce the one
container their input has whatever the thread count; the decoders accept
exactly the well-formed containers and agree; the tokenizer's output replays to
its input; a Huffman code is a prefix code within its limit; no buffer is freed
twice and no message goes to another request.

## Not modelled

- The load generator (`loadtest.py`) is a client of the service and promises
  nothing; what it sends is among what any client of `Service` may send.
- The sweep, benchmark and plot scripts and the corpus generator are straight-line
  measurement programs without state of their own.
- The web page, the tests and the build files present or build the system.
- Of the command line, the parsing of options and the figures it prints: options
  are read before any file is opened, and any value is a legal one.
- Of the C API, the check for null arguments, which the binding never fails,
  and an allocation that fails while an error is being recorded.
- The sizes of allocations in the decoders, and the counters of `Stats`.

## Modules

| module | models | refines / uses |
|---|---|---|
| `ParallelFor` | what `forEach` promises (`threadpool.h:42-46`) | abstract |
| `ThreadPool` | `threadpool.cpp` | implements `ParallelFor` |
| `Framing` | the container as pieces (`codec.cpp`, `format.h`) | |
| `Encoding` | what an encoder promises (`codec.h:35-44`) | abstract |
| `EncoderOptions` | what both encoders are given, and how they can fail | uses `Framing` |
| `StreamEncoder` | `compressStream` | uses `ParallelFor`, implements `Encoding` |
| `MemoryEncoder` | `compress` | uses `ParallelFor`, implements `Encoding` |
| `Decoder` | `decompress` and `decompressStream` on one file | uses `Framing` |
| `LzToken` | tokens and what they stand for, `detokenize` | |
| `LzParse` | what an LZ77 parse is | abstract |
| `Tokenizer` | `tokenize` and `MatchFinder` | implements `LzParse` |
| `Sums` | running totals, as the loops of the code keep them | |
| `Bits`, `BitIO` | streams of bits; `BitWriter` with its accumulator (`bitio.h`) | |
| `CanonicalCode` | `buildCanonicalCodes`, `DecodeTree`, what a table of code lengths is | uses `Bits`, `Sums` |
| `Huffman` | `buildLengths` with `enforceLengthLimit` | uses `CanonicalCode` |
| `DeflateTables` | length and distance codes, `ReverseTables` | |
| `Lzss`, `HuffmanPayload`, `Deflate` | the three payloads, written and read | use `LzToken`, `CanonicalCode`, `BitIO`, `DeflateTables` |
| `BlockCodec` | `encodeBlock`, `decodeBlock` | composes the three payloads |
| `Service` | `capi.cpp`, `cmpr.py`, `server.py` | |
| `Cli` | `cli.cpp` and the files it is given | |
| `MC...` | small instances | |
| `ThreadPoolProofs` | theorems about `ThreadPool` | |
| `EncoderProofs` | theorems about the two encoders and `MCEncoders`, lemmas on `Framing` | |
| `DecoderProofs` | theorems about `Decoder` | |
| `TokenizerProofs` | theorems about `Tokenizer` | |
| `HuffmanProofs` | theorems about `Huffman`, `CanonicalCode` and `DeflateTables`; lemmas on codes, bits and tokens | |
| `BlockCodecProofs` | theorems about `BlockCodec` and its three payloads | uses `HuffmanProofs` |
| `ServiceProofs` | theorems about `Service` | |
| `CliProofs` | theorems about `Cli` | |

Each part is modelled once in detail and used by the others through what it was
shown to promise. `StreamEncoder` and `MemoryEncoder` take the pool's contract
for granted, `BlockCodec` the code lengths that `Huffman` is shown to build and
the tokens that `Tokenizer` is shown to make, `Framing` and `Decoder` the block
that `BlockCodec` is shown to keep, `Cli` the container that the encoders are
shown to put out and the decoders to accept. The product of their interleavings is never
built.

### ThreadPool

The six fields under `mutex_` are the variables of the same names. A critical
section is one action. Two things are not inside one and are actions of their
own: a notification sent after the unlock (`NotifyWorkers`, `NotifyStop`) and
the read of `job_` for the call (`Call`). A worker that counts a task down
(`Finish`) goes round its loop without releasing the mutex, as the code does:
it leaves, takes the next index or goes to sleep in the same step. `wait(lock,
pred)` is: test, sleep, be woken, test again; `CallerWakesUnasked` and
`WorkerWakesUnasked` are the spurious wake-ups. Any task may throw. With
`SpawnMayFail` the constructor may fail at any thread.

`task` is a history variable: what became of `fn(i)`. It exists for the mapping
to `ParallelFor`, in which a call is `phase = "busy"` while the caller is inside
`forEach`.

### Encoders

A stretch of the input is named by its start and length and `EncodeBlock` is
an opaque function of the stretch, so that two blocks are confused in the model
exactly if the program would encode the wrong bytes. The output is a sequence of
pieces (header, frame, payload). `Container(size, blockSize)` is the one
container of an input. `StreamEncoder` has an action for each turn of the
read loop, each task of the pool, each turn of the write loop and the end of a
batch; every failure the code can meet there is an alternative (`RunOut` for a
short input, `Fail` for an exception from `encodeBlock`, the pool or a write).
`have` is what the stream really holds, independent of the size declared.
Partially written pieces are not in `out`. `MCEncoders` puts the two encoders
side by side, one or the other in a behaviour, with one set of inputs and options
and each on a machine of its own (`Hardware`, `MemoryHardware`): that both put out
the same bytes must not depend on how many processors there are.

### Decoder

A file is a header, then frames laid one after the other and cut off at some
length. What `decodeBlock` makes of a payload is abstracted to the set of lengths
it can be decoded to (`yields`), because both decoders call it with the same
arguments and it either throws or returns the length asked for (each of the
three payload decoders loops to exactly that length, and `kStored` compares). A
step is one turn of either loop, with its checks in that loop's order. The
decoders run independently, and their verdicts are compared when both are done.
`Made` derives the file of a container of `Framing`, with the lengths reduced
modulo `U32`. Sizes of allocations are left out.

### Tokenizer

`head` and `prev` are the arrays `head_` and `prev_`, `prev` indexed modulo the
window. One step is one turn of one loop: one insertion, one candidate
examined, one decision of `tokenize`. The same actions run for the search from
`position` and for the one that looks ahead (`ahead = 1`). The hash is any
function of three bytes; the multiplicative hash of the code is one such, and
the configurations try one that collides for some triples and one that sends
everything to one bucket. `matchLength` is an operator; so is `detokenize`, in
`LzToken`, which the payload decoders use too.
`foreseen` is a history variable: what looking ahead had found.

### Huffman and canonical codes

`Huffman` takes the frequencies as given. A step is one merge of the forest, the
clamping of depths as a whole, one push of `enforceLengthLimit`, and the
assignment of lengths by frequency. Ties are broken as the code's priority
queue breaks them: the node made first comes first. `CanonicalCode` is pure:
codes from lengths, and the decode tree as the set of paths from its root, each
holding the last symbol planted there, which is what the code does to a
table that is no prefix code. Sums over the lengths are recursive functions, as
the loops of the code are, so that they can be reasoned about (`Sums`).

### Block codec

`Lzss`, `HuffmanPayload` and `Deflate` each hold an encoder and a decoder, with a
step for each turn of their loops. A behaviour encodes something and decodes the
result, or decodes a payload no encoder wrote. A byte has `ByteBits` bits
throughout, so that boundaries (256 symbols stored in a byte, a distance that
needs both its bytes, the last group of flags, the accumulator of `BitWriter`
wrapping round) lie within small instances. Encoders that need a Huffman code
take any lengths within the limit and the Kraft inequality (`CodeLengths`), which
is more than `buildLengths` makes: `PrefixCode` says that what it makes is among
them. A reader of bits is its position. `BlockCodec` dispatches
on the method and stores what is not worth coding; variables that only one
coder has are idle while another works. (`CodecInit`, `CodecNext` and `CodecSpec`
are named apart from the `Init`, `Next` and `Spec` of `Huffman`, because the proofs
of the codec build on those about codes.) The budget is the size of the block in
the code; here it is a small set of numbers, because a block of a few symbols
never gets smaller than itself. In `MCBlockCodec` a behaviour is one of `Huffman`
or one of `BlockCodec`, the other being idle.

`DeflateTables` holds the tables of `deflate.cpp` as constants. `MCTokenizer`, whose
tokens they take apart, gives them their real values and puts every length and distance through `splitLength`,
`splitDistance` and the decoder's look-up; `BlockCodec` uses small ones of the
same shape (the greatest length has a symbol of its own).

`DecodesSoundly` is about payloads that no encoder wrote: no reference reaches
before the output, past the window or past the size asked for, and a table of code
lengths is used only if it is one.

### Service

One thread for each connection; the connection is a queue of heads and bodies,
each tagged with the number of its request, so an answer to the wrong request is
visible. A client sends a head and then, when it likes, the body; it may stop for
ever, or hang up at any point, in the middle of a body too. `rfile.read` waits for
the whole body, without a time limit, and at the end of the connection returns
what there is (`ReadShort`): the handler does not compare it with the length
declared. Heads arrive whole.

An answer is two steps. `Reply` is the handler's decision; `wfile.write` then blocks,
without a time limit either, until the client, or a buffer on the way to it, has
taken everything (`Transmit`). Meanwhile the client may stop reading and go on
(`PauseOrResume`, `stalled`). To a client that is gone the rest is either sent into
the void or raises, which nothing catches: the connection is closed. `replies` are
the answers begun, so that the last may be still on its way (`Sending`).

The foreign call is entered and left in separate steps, and the message of the
last error is fetched in a third, so calls of several threads interleave there.
`lastError` records whose message a thread's storage holds; `buffers` the buffers
allocated and not freed. `http.server` itself is external: what it does with an
exception no handler catches (close), and with a body it takes for a request
(`ReadLeftover`): answer 400 or nothing and close, or, if the body happens to be a
request, serve it and keep the connection. A body that is a request with a body of
its own, or several requests, is not modelled.

A failure that ends the whole process (finding 1) is modelled in `ThreadPool`, not
here. The service is where it can be met most easily: it passes on the number of threads
that a request names (`server.py:130`, `139`), and nothing bounds it
(`threadpool.cpp:8`).

### Command line

A file is a sequence of cells, one for each block of data, for the header of a
container and for each frame of it, so that half a container is visible as
such. In memory, a command is `ReadFile`, `Code`, `Create` (opening an `ofstream`
empties the file), `WriteFile`, `Close`; with `--stream` it is `TakeSize`
(only `c`), `OpenStreams`, then the header and the blocks one at a time, and
`Close`. A container of one block is read and written whole. `pending` is what
the stream has accepted and the disk has not: every write puts a beginning of it
on the disk, and what the destructor cannot write is lost in silence (`Close`).
Input and output may be one file, every step may fail where the code throws, and
`Interfere` is another process that adds to the input or empties it after its
size was taken. How blocks form batches is in `StreamEncoder`, not here. `before`
and `lost` are history variables. Several commands run one after another, on what
the ones before left.

## Runs

All runs use TLC's breadth-first search over the whole state space, without
symmetry or constraints; deadlock is checked in every run (`Over`, `Ended`, `Quiet`
let a finished system stutter).

| run | bounds | shows |
|---|---|---|
| `pool` | 3 workers, 2 jobs of 1–3 tasks | the invariants of the pool, the inductive invariant used in the proofs, `JobNotWrittenWhileRead`, that the pool implements `ParallelFor`, that `forEach` and the destructor return |
| `pool_spawn_failure` | 2 workers | violation: see finding 1 |
| `encoders` | declared and real size 0–7, block size 0–3 (for `compressStream` 0 means the default, 2), 0–3 threads, two machines | the one container in order from both encoders, on either machine, every slot filled with its own block, short input reported, nothing of a failed batch written, memory bound |
| `stream_options` | size 0–3 | violation: see finding 2 |
| `decoder` | all blocked files of up to 2 frames with lengths 0–2, cut anywhere or followed by less than a header; single-block files; everything made from up to 6 bytes | right verdict, agreement of the two decoders, what was written is a true beginning, own files decode, both end |
| `decoder_wide` | lengths reduced modulo 4 | violation: see finding 3 |
| `decoder_trailing` | the files of `decoder` | violation: see finding 4 |
| `tokenizer` | all strings of up to 9 bits, windows of 4 and 8, minMatch 3 and 4, matches up to minMatch + 2, chain length 0 (refused), 1, 8; two hashes; greedy and lazy; the real tables of DEFLATE, every value | soundness of the ring, bounds, exactness of the search, no lost lookahead, round trip, LZ77 parse; split and join are inverse |
| `block_codec` | one or the other: six symbols, each with one of five frequencies (0, 1, 2, 4, 8), codes of up to 3 bits; or bytes of 2 bits, blocks of up to 4 bytes, parses of up to 6, foreign payloads of up to 6 or 7 bytes, every table of code lengths of up to 3 bits | the repair of clamped lengths, prefix code, decode tree, optimality; size computed = size written, blocks come back, soundness of the three decoders |
| `service` | 2 connections, one with 2 requests of 8 kinds, one for each way through the handler, the other with a call of its own; clients that stop reading or hang up at any point | answers are to the connection's requests in order, no body cut short while its client is there, messages are the request's own, buffers freed once, every request answered unless the client keeps the thread waiting, no thread outlives its client |
| `cli` | 2 files of up to 2 blocks, 2 commands with any names | exit 0 means a whole result of the input as it was, the output spared until there is one, every command ends |
| `cli_close` | 2 files of up to 1 block, 1 command | violation: see finding 5 |

Why the bounds are enough for what they are asked. Three workers on three tasks
is the first size where one worker sleeps, one takes the last index and one
finishes last; two jobs let a late worker meet the next job, a stale error and
a stale index. Seven bytes in blocks of two for three threads make a full
batch followed by a short one that ends in a short block, and blocks of one
make three batches. Nine bits are more than two windows of four: links are
overwritten, and positions stay reachable across a wrap; they are also the
shortest input on which a later match wins over an earlier one in a window of
eight, so that `Defer` fires. Two frames show a bad block after a good one and
a frame after the end. Six symbols and three bits clamp trees of depth four
and five. Payloads of seven bytes of two bits hold two parameters, two groups of
flags and a reference with all its fields; six are a table of two symbols and
stream bits beyond it. Two threads suffice to overwrite a message that both share
or to lose a buffer, and a call of its own is all that the second needs to come
between the steps of the first: what connections share is touched in the library
alone. Two requests on one connection are enough for it to come out of step, with a
body of the first taken for the second. Two blocks are the fewest that a streaming
command can be cut off between, and a second command meets what the first one left, such as
half a container.

All the safety properties but one are proved for every value of the constants, so
for these the bounds do not matter: those runs keep the models and the proofs
honest, evaluate the assumptions the proofs start from, and are all there is for
liveness. The one is `Optimal`, the cost of a Huffman code, for which the run is
the evidence.

**Fairness.** `ThreadPool!FairSpec` assumes that the operating system runs each
thread that can take a step (weak fairness for each worker and for the caller's
steps inside a call), and that a task ends, which is true of `encodeBlock`, a
loop over its block. Weak fairness is enough for the mutex because no thread
holds it across a wait, and a critical section is one step. Nothing is assumed of
spurious wake-ups, of calling `forEach` again or of destroying the pool.
`Decoder!FairSpec` says that the calling thread of a decoder runs.
`Service!FairSpec` says the same of a connection's thread, which includes that a
call into the library returns (`ForEachReturns`, checked of `ThreadPool`);
nothing is assumed of clients: a thread that waits for a body that never comes
cannot take a step (`ReadBody`), nor can one whose client does not read its answer
(`Transmit`), and both may wait for ever. `EachAnswered` exempts exactly these two
waits, while the client is there. `Cli!FairSpec` says that a command's process runs; the
process that interferes need not. The other modules have no liveness property:
their loops are bounded by their inputs.

## Findings

1. `pool_spawn_failure`: if `std::thread` cannot be started after another one
   was (`threadpool.cpp:16`), the half-built pool destroys joinable threads and
   the process ends by `std::terminate`; `capi.cpp:62-64` says that every
   exception becomes a status code.
2. `stream_options`: with `blockSize = 0`, `compressStream` blocks an input of
   more than 1 MiB (`codec.cpp:188`), where `compress` does not; `codec.h:55-56`
   says that both produce the same bytes for the same options.
3. `decoder_wide`: `appendBlock` (`codec.cpp:46`) casts the block's length to 32
   bits; with a block size of 4 GiB or more, which nothing refuses, the container of a
   larger input cannot be decoded, against `codec.h:46`.
4. `decoder_trailing`: both decoders stop at the declared size and ignore any
   bytes that follow the last block (`codec.cpp:117`, `277`), although `codec.h:46-47`
   says of `decompress` "Throws CorruptInput on anything this codec did not
   produce". `VerdictRight` states what the code does, with this exception.
5. `cli_close`: the last of the output is written by the destructor of the
   `ofstream` (`cli.cpp:51`, `199`, `227`), after the checks that would throw
   `"write failed for "` (`cli.cpp:50`) or `"write failed"` (`codec.cpp:148`); if
   that write fails, the command prints its figures and exits with 0 all the same.

More things that reading and the models show and no run refutes. A request refused
before its body is read, or to a path there is not, leaves the body on a connection
that stays open (`server.py:93-96`, `120-122`); the base class takes it for the next
request, so the next answer on that connection is not for the next request.
`AnswersOwn` therefore holds only up to the first such request. A client that
hangs up in the middle of its body has what arrived compressed for nobody
(`server.py:97`). One that stops in the middle of its body without hanging up
(`server.py:97`), or does not read its answer (`server.py:83`, `161`), keeps its thread
for ever; the result's buffer is freed by then.
`c --stream x x` and `d --stream x x` destroy `x` (`cli.cpp:195`, `223`) but exit with 1, unless
`c` is given an empty file.
`capi.h:45` says of a block size that 0 "disables blocking. Pass 0 for the
default"; `capi.cpp:56` does the second. `capi.h:48` says that on failure `*out` is
left null, which the refusal of a null `data` (`capi.cpp:45-48`) leaves undone.

## Theorems

`ThreadPoolProofs` proves, for every finite non-empty set of workers, every bound
on the tasks of a job and every number of jobs (`PoolAssumption`):

- `Invariance`: `IInv` is an invariant. `TypeOK` and `OutstandingExact` are not
  inductive by themselves: that `outstanding_` cannot go below zero needs that the
  tasks in the hands of workers are distinct (`Hands`), that the counter counts
  them and those not handed out (`OutstandingExact`), and that outside a call
  there is no job at all (`Shape`). `History` and `Errors` tie the history
  variable to the fields, which the refinement needs. The proof has one lemma for
  each group of actions; the work is in `Finish`, where the counter goes down by
  one because the set it counts loses one element (`UncountedSplit`) and the same
  step may take the next index (`LoopHeadUncounted`).
- `TypeCorrect`, `CountIsExact`, `TasksRunTheirJob`, `WakeupsAreNotLost`: the
  parts of it, or consequences of it, that the runs check.
- `NoRaceOnJob`: `job_` is written only by `ForEach` and `Collect`, and the
  invariant says that no worker has a task in hand then.
- `PoolKeepsContract`: the refinement. Every step of the pool is a step of
  `ParallelFor` or changes nothing it sees; `Collect` is its `Return`, where
  `Errors` gives that an error is returned exactly if a task threw.

`EncoderProofs` proves, for every size declared and found, block size, thread
count and machine (`EncoderAssumption`, `MemoryHardwareAssumption`):

- `BlockCount` and `BlockEnds`: the blocks of an input cover it without gap or
  overlap, the last one being short or full but never empty (from the division
  with its remainder and the monotonicity of multiplication). A container is built
  up by appending the header and then frame after frame (`Beginnings`,
  `HeaderFirst`, `FrameNext`, `Whole`).
- `Invariance`, of an inductive invariant of `compressStream`. It says where the
  loops are within the batch (`Place`), that what has been read is a beginning of
  the input in whole blocks (`ReadTo`), that what has been written is a beginning
  of the one container (`Written`), that a slot that was filled in this batch
  holds the code of its own block (`Filled`), that a task that ended well has
  filled its slot (`Tasks`), and that no more than a batch has been read ahead
  (`Ahead`). `Inv` is not inductive without `ReadTo` and `Written`: which block a
  slot belongs to is known only from how many batches went before.
- `SlotsAreCurrent`, `ShortInputIsReported`, `FailedBatchIsUnwritten`,
  `ReadAheadIsBounded`: what the `encoders` run checks of `compressStream`.
- `MemoryInvariance` and `SlotsAreFilled`: the same of `compress`.
- `WritesTheContainer` and `ReturnsTheContainer`: each implements `Encoding`, so
  that the bytes are those of the one container whatever the threads do.
- `SlotsAreRight` and `BothMakeOneContainer`, of the specification the run checks,
  in which either encoder may have been called: both put out the container of the
  same input and options, whatever the machines they run on.

`DecoderProofs` proves:

- `BothDecodersAgree`, for every file and from no assumption at all. One decoder
  may be many frames ahead of the other. The invariant says that there is a path
  through the file, a place after each frame, on which both are, and that a
  decoder that has ended did so because of the place it had reached; that the
  loops ask the same questions in another order is one lemma (`TurnsAreAlike`).
  Nothing is said of what the numbers in the frames are, so the proof does not
  depend on their types.
- `StaysInFile` and `VerdictsAreRight`, from `DecoderAssumption`: a decoder
  accepts exactly the files whose first frames, up to some number of them, are all
  there, decode, and add up to the size declared. Here the invariant (`Tallied`)
  says that where a decoder is, and how much it has produced, are the sums of the
  frames behind it, all of which decode (`Placed`), that a file in one piece is
  not entered (`Unentered`), and that what was written is those blocks (`Blocks`).
  The sums are a recursive function; what it is at each frame, and that it grows,
  are proved by induction (`TotalsAre`, `TotalsGrow`), so that a decoder that
  stopped short at a frame was given a file that no number of frames makes up
  (`StoppedShort`).
- `OwnFilesDecodeHere`: what the encoders make is taken by both decoders, provided
  that no block is too long for its length field (`MaxMadeBlock < U32`). The
  proviso is a hypothesis and not an assumption of the module, because the code
  does not ensure it: `decoder_wide` shows what happens otherwise (finding 3).

`TokenizerProofs` proves, for every input, every hash function and every
configuration (`TokenizerAssumption`, and `PowersAssumption`, arithmetic that the
provers do not know):

- `ChainsAreSound`, `StaysInBounds`, `WalksGoBack`: the ring holds, for every
  position less than a window old, the one before it of the same hash; that is
  true although slots are overwritten, because two positions less than a window
  apart never share one (`SlotsDiffer`).
- `SearchesAreExact`: a search whose chain is not cut short finds the longest
  match there is, and the nearest of those. The invariant adds to `Inv` how far
  the chains have been filled (`Progress`), that the candidate is a position with
  the hash searched for (`Linked`), what the best match so far is (`BestIs`), and
  that all the positions already passed are no better (`Ruled`): those the chain
  skips have another hash, and so do not match in three bytes.
- `TokenizeParses`: what comes out is an LZ77 parse (`LzParse`).
- `LookaheadIsRepeated`: what was found by looking ahead is found again when the
  parse gets there. A search is a path of turns that are functions of where it is
  and of the ring (`Reaches`), and the ring is the same at both times.
- `ParseIsLossless`: `Detokenize` gives back the input. `Detokenize` is recursive
  over the tokens and `CopyMatch` over the bytes of one; both inductions are
  carried by a function that has the values wanted up to a bound (`Replaying`,
  `Copying`).

`HuffmanProofs` proves, for every alphabet, all frequencies and every limit that
leaves room for the alphabet (`HuffmanAssumption`, and `CodeAssumption`, which has
the recurrence of the powers of two up to the limit):

- `LimitIsEnforced`: as long as the clamped leaves take too much space there is
  one to push down, since if all were at the limit they would fit (`LeafThere`);
  the running sum is exact and no symbol is lost. The inductive invariant says
  that the roots of the forest share out the symbols (`Rooted`), so that the
  histogram adds up to their number (`Tally`).
- `MakesAPrefixCode`: the ranks by frequency are a bijection (`OrderPlaces`), so
  the lengths given out have the numbers counted and fit (`AssignKeeps`), and are
  among the `CodeLengths` that the coders of a block are modelled and proved with.
  Canonical codes then take disjoint places in the space of codes, in units of
  2^-MaxCodeLength (`Ends`, `KeepsPlace`, `Apart`), so that none begins with
  another (`BeginsIs`, `PrefixFree`).
- `CodesAreDecoded`: the walk down the decode tree ends at the symbol
  (`WalkEnds`). This and the lemmas before it hold of any table of lengths that
  fits, and of any bits that follow, not only of the tables and bits that the run
  tries.
- `SplitsAreJoined`: of any tables that are ascending ranges without gaps, of
  which no two share a bucket (`TablesAssumption`): the look-up finds the last
  range that begins at or before a value, and the extra bits hold its place there.
  The run `tokenizer` evaluates the assumption for the tables of `deflate.cpp`, and
  checks of them, as `SplitJoins`, what the theorem says of all.

`BlockCodecProofs` proves, for every width of a byte and of the accumulator, every
limit on codes and all tables, for all blocks, parses, budgets and foreign payloads
(`BitIOAssumption`, `CodeAssumption`, `TablesAssumption`, `BlockCodecAssumption`;
of a parse `ParsesAssumption`, what `TokenizeParses` gives):

- `CodersAreLossless`: each coder writes as many bytes as it computed beforehand,
  and its decoder gives back what was encoded.
- `BlocksAreKept`: what comes back is the block, whichever method was used, and a
  coded payload is smaller than its budget.
- `BlocksDecodeSoundly`: of any payload at all.

The invariant (`CodecInv`) has a part for each coder, and each says at every stage
how what is written and read so far follows from the tokens or bytes so far. In
`LzInv` the place of each token in the payload is a function of its number and of
the references before it (`Laid`, `FlagAt`), so that the flag byte patched
afterwards is the one the decoder will look at (`LzHeld`). In `HuInv` and `DfInv` what
has left the accumulator, with what is still in it, is the concatenation of the
codes so far (`Held`, `Coding`, `Spelling`); the accumulator may wrap round, since
only its lowest bits count (`ByteBits - 1 + MaxCount <= AccBits`). A reader
at the end of the codes so far finds the next one, whatever follows (`WalkEnds`, as
for `CodesAreDecoded`). That the size computed from the frequencies is the length of
what is written is a sum over symbols that is a sum over places (`CountedTwice`).
`LzSmall`, `HuSmall` and `DfSmall` keep what was found of the budget before the first
byte was written. For a foreign payload only `LzReading`, `HuReading` and
`DfReading` are left of it: what was read so far is a beginning of what the format
allows and never more than was asked for.

`ServiceProofs` proves, for every number of connections and of requests on them
(`ServiceAssumption`):

- `MessagesAreOwn`, `BuffersAreOwned`: from an invariant that says that between
  the failing call and the one that fetches its message the message is the
  thread's own (`Reported`), that the buffers allocated are those of the threads
  between return and release (`Owned`), and that nothing is served that was not
  sent (`Counted`).
- `AnswersAreOwn`: a connection is in step (`InStep`) as long as no body was left
  unread: then what is on its way or still to be sent is exactly the rest of the
  request sent last, at each place in the handler and while its answer is being
  sent (`Turn`). An answer given there is to that request, and has one of the codes
  that fit it. When a body that was left is answered there are more answers than
  requests, and nothing more is said of the connection.

`CliProofs` proves, for any set of paths, files of any number of blocks and any
number of commands (`CliAssumption`):

- `OutputIsSpared`: in memory nothing is opened for writing before there is a
  result (`Untouched`), and that was made of the input as it was found (`Ready`).
- `ResultIsDelivered`: a command that exits with 0 and lost nothing on closing the
  output left the whole result of the input it found. The invariant (`Delivering`)
  says at each place of a command what has been made so far: what is in the file
  together with what waits in the stream is a beginning of the result (`Copying`),
  and all of it in the end (`Written`). A container of containers has no type that
  is not recursive; instead the contents of all files are in some set that is
  closed under beginnings and unpacking and has what the inputs pack to (`Closed`,
  `Stored`); to any such set the containers of all that is in it can be added, and
  longer inputs (`PacksAdded`, `DataAdded`).

The library's induction theorems take an operator as parameter, which no installed
prover can instantiate. Where a proof needs induction it is done for a set: a set
that holds 0, and with each number below a bound the next, holds all up to the
bound (`CountsUp`, from the well-foundedness of the naturals). That serves for
recursive functions; folds and recursive operators are out of reach.

The assumptions are about constants only, and TLC evaluates each of them in the run
of the module that has it. `PowersAssumption` and `PowersDouble` state facts of
arithmetic that the provers do not know, that powers of two are natural numbers
and double.

Model-checked only: liveness and what needs ENABLED (out of the prover's reach), and
`Optimal`, an exchange argument over all trees.

## Plan

Done, in this order: `ParallelFor`, `ThreadPool` and its proofs, `Framing`,
`Encoding`, `StreamEncoder`, `MemoryEncoder`, `Decoder`, `LzParse`, `Tokenizer`,
`Huffman`, `DeflateTables`, the payloads and `BlockCodec`, `Service` with its
slow, silent and vanishing clients, `Cli`.
Then theorems: the encoders apart and together, the service, the decoders'
agreement and their verdicts, `OutputSpared` and `Delivered` of `Cli`, the tokenizer
up to its round trip, Huffman codes up to their decoding, split and join for any
tables, and the block codec with its three coders.

Left, should the project go on: `Optimal` of `Huffman`.
