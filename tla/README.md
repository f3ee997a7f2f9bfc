# capminer in TLA+

capminer is a GPU miner with two engines in one program: the *CapStash* engine
mines a Whirlpool coin over Bitcoin-style Stratum, the *Alphanumeric* engine
mines a BLAKE3 coin over Miningcore's Stratum. Each engine is two threads, a
network thread that reads pool lines and a mining thread that drives one GPU,
and the interesting part of the program is what lies between them: a few
atomics, one mutex, a GPU context, and a ledger of shares in flight.

The rest is data: lines of the socket, notifies, targets, headers and two hash
functions, each computed in two ways that have to agree. This directory holds
TLA+ modules for both, the TLC configurations that check them, and TLAPS proofs
of the safety properties. Paths are relative to the
repository; `whirlpool.cpp` is `src/whirlpool/whirlpool.cpp`, `runner` is
`src/alphanumeric/alphanumeric_runner.cpp`, `.cu` is
`src/alphanumeric/alphanumeric_cuda_backend.cu`; `cuda_backend.cu` is the other
engine's.

## 1. Inventory

| component | state it keeps | operations | hard behaviour |
|---|---|---|---|
| CapStash engine, `whirlpool.cpp` | current job (under `job_mu`), generation, cancel flag, dedup request; the mining thread's job, extranonce2, next nonce, keys sent | notify handler, subscribe wait, pick-up, set-up, batch, stale check, submit, shutdown | two threads on five variables of which one is locked; retry after failure; ends of the nonce and extranonce2 spaces |
| Alphanumeric engine, `runner` 958-1228 | current job with its targets, generation, cancel flag, pool difficulty, fallback flag | notify and difficulty handlers, pick-up, scan, reset after failure, stale check, submit | a difficulty publishes a job again; a cancel reaches into a running kernel |
| Notify parser and target arithmetic, `runner` 110-610, 251-376 | the targets of a job | parse by layout or by token shape, scale, re-target | ambiguous tokens; repeated re-targeting; 256-bit arithmetic by hand |
| Stratum client, `stratum_client.cpp` | socket, pending ids, subscribe data, difficulty | connect, login, submit, read loop, close | answers that are early, repeated or missing; failed sends |
| GPU context, `.cu` 215-331 | job generation on host, in pinned memory and on the device; `ready` | `ensure_ready`, `request_cancel`, reset, launch | a lock that covers callers but not the mining thread; queued copies |
| Scan kernel and slices, `.cu` 80-210, 336-430 | result block, found flag, loop indices | slice, launch, poll, win, reduce, read back | many threads, early exits, 32-bit indices, exact accounting |
| Whirlpool CUDA backend, `cuda_backend.cu` | buffers, constant memory, result block | set-up, batch, hash of one nonce | errors that are printed and otherwise ignored; many threads, polls, a result block that is reused |
| Header construction, targets, notify parser, share validator (`whirlpool/`, `share_validator.cpp`) | none | pure functions of job, extranonces, difficulty | byte orders; 256-bit arithmetic by hand; exceptions on malformed input |
| Config, logger, dashboard, NVML, OpenCL listing, stubs | a record, a mutex, counters they only read | sequential | object lifetime of the detached dashboard |
| Lines of the socket, `stratum_client.cpp` 174-193, 258-302 | receive buffer, rest of a line being sent | `send_line`, `read_loop` | the system cuts receives and sends where it likes |
| BLAKE3 of 92 bytes, `alphanumeric_blake3_core.cuh`, `alphanumeric_hash.cpp` | work per job | byte path on the host, word path in the kernel, comparison with the target | unrolled schedules; mixes moved across the nonce; a comparison in two parts |
| Vendored Whirlpool, `crypto/whirlpool*` | a streaming context per object | init, update, close, three versions; the wrapper class | eight tables per version; padding; a buffer that is not cleared |
| Whirlpool on the GPU, `cuda_backend.cu` 40-300 and its tables | midstate, round keys, shared tables | prepare a header, hash a nonce, hash 80 bytes | precomputed per job and verified for one nonce; tables loaded by all threads |
| HIP port | none (the port mirrors `.cu`) | as `.cu` | as `.cu` |

How they interact: the network thread calls the engine's line handler from
`read_loop`; the handler publishes a job and raises the cancel flag, and in the
Alphanumeric engine calls `request_cancel` of the GPU context. The mining thread
picks the job up, calls the backend batch by batch, and calls `submit_raw` or
`submit_share`. Answers come back through the network thread, which counts them.

What makes each correct, in the order of importance used for the plan:

1. no job or target is lost between the threads, and no stale share is sent;
2. a batch runs with the constants, the range and the extranonces it is judged by;
3. shares are not sent twice, answers are counted once, counters add up;
4. the device agrees with the host on the generation, and never goes back;
5. the kernel scans every nonce once, reports a real find and the exact work;
6. the target searched with is the one the pool asked for;
7. the end of the connection ends the program;
8. lines arrive whole, and what the kernels hash is what the host verifies.

## 2. Modules

| module | what it models |
|---|---|
| `JobHandoff` | abstract specification of the hand-off: announce, adopt the latest, stop |
| `NonceSearch` | abstract specification of a search on the GPU: a range in, at most one find out |
| `CapStashMiner` | both threads of `run_stratum` |
| `AlphaMiner` | both threads of the Alphanumeric `run` |
| `StratumClient` | submission, pending ids, answers, counters |
| `AlphaGpuContext` | `ensure_ready`, `request_cancel`, reset and launches on one context |
| `AlphaScanKernel` | one `scan92` call: slices, threads of a launch, result block |
| `AlphaNotify` | notify layouts, target arithmetic, `apply_pool_share_target` |
| `CapStashPow` | pure functions of the CapStash engine: notify fields, coinbase, merkle root, header, targets, comparisons |
| `WhirlpoolBackend` | set-up, verification and batches on the Whirlpool GPU backend, call by call and thread by thread |
| `StratumLines` | `send_line` and `read_loop`: bytes in portions, lines in buffers |
| `AlphaBlake3` | both computations of the 92-byte BLAKE3 hash and both verdicts on it |
| `WhirlpoolTables` | words of eight bytes, GF(256), substitution boxes, the tables and round constants they give |
| `MdHelper` | the streaming layer over a block function: buffer, counter, padding, close |
| `SphWhirlpool` | the three versions on the CPU, the wrapper class, the header hash |
| `CpuWhirlpool` | Whirlpool as its designers define it, and the CPU functions measured against it |
| `CudaWhirlpool` | upload of a header, prepared and plain hash of a block of threads |
| `HashStream` | one hash object written to, finalized and reset in any order |
| `DataPaths` | the data parts next to each other |
| `Powers` | powers as repeated multiplication, for exponents that are variables |
| `DataLemmas` | lemmas: induction over numbers and finite sets, and what it gives: quotients, powers, sequences, folds, sums |
| `*Proofs` | the theorems about the engines and their parts (section 5) |
| `MC*` | definitions that give the constants their values for TLC |

`CapStashMiner` and `AlphaMiner` both carry an instance of `JobHandoff` under a
refinement mapping, `AlphaScanKernel` and `WhirlpoolBackend` one of `NonceSearch`:
what an engine may rely on when it calls either backend. `AlphaMiner` uses `AlphaGpuContext` and `AlphaNotify` in
abstracted form: of the context it keeps that the device's generation follows
the host's at its own pace and never goes back (`LiveGenMonotone`), of a target
only the difficulty it was scaled by. `WhirlpoolBackend` extends
`CapStashPow` and refines what `CapStashMiner` takes for one step: the upload, of
which some calls may have failed, and the batch. Submission appears in the engines as one
step that is sent or fails; its detail is `StratumClient`, and the bytes of it are
`StratumLines`. `SphWhirlpool` and `HashStream` put an INSTANCE of `MdHelper` on
two different block functions; `CudaWhirlpool` and `CpuWhirlpool` share
`WhirlpoolTables` and compare with `SphWhirlpool`. `DataPaths` composes the parts
that share no state: a behaviour follows one of them.

### Correspondence with the code

The granularity is one action per access to a variable that the other thread
writes. Straight-line code between two such accesses is one action, and so is a
section under a mutex when everybody else takes that mutex for the same data.

*CapStashMiner.* `NetNotify`, `NetDedupClear`, `NetBumpSeq`, `NetCancel` are the
four statements of the handler (`whirlpool.cpp:115-122`). `NetSubscribe` and
`NetSubscribed` split the subscribe reply between the assignment of the string
and the release of the flag; a copy of the string in between is a data race, so
`WaitTimeout` may then read the old, the new or a torn value. `PickUp`,
`ClearCancel` and `ClearDedup` are the section under `job_mu` (177-187), which
is three steps because the network thread writes two of its variables without
the lock. `Refresh`, `SetupJob`/`SetupFails`, `Launch`, `BatchFound`/`BatchEmpty`/
`BatchFails`, `CheckSeq`, `DropShare`/`PassShare`, `SendShare`/`SendFails` and
`Advance` follow the loop body in order. The constants on the device are the record of
what they were built from (`Upload`). `cuda_setup_job` returns true whatever its
calls do and `need_setup` is cleared all the same, so `SetupJob` may leave `Unknown`
on the device, constants nothing is known of; `SetupFails` is the answer of a build
without CUDA. What a failed call leaves behind, call by call, is `WhirlpoolBackend`.

*AlphaMiner.* The same shape; `NetSetDifficulty` stores the multiplier and
`NetRetarget` re-targets the current job under the lock, after which the handler
goes on as for a notify. `NetRequestCancel` is the call into the GPU context.
`Device` moves the device's generation at any moment. `ScanFindsNothing` covers a
full range and a drained one, and `Advance` counts either as scanned, as
`next_nonce += count` does.

*StratumClient.* `Register`, `SendOk`/`SendFails`, `Unregister` are `submit_raw`;
`Record` is the map of formats the runner keeps; `MatchAnswer`, `LookUpFormat`,
`CountVerdict`, `Judge` are the reader. An answer may come as soon as the bytes
are out, so before `submit_raw` has returned, any number of times, or never.

*AlphaGpuContext.* `Bump`, `NotReady`, `Ready`, `Stage`, `Push` are
`request_cancel`; `Allocate`, `ReadGen`, `Seed`, `Publish` are `ensure_ready`;
`Free` and `Forget` are `destroy_ctx_nothrow`, which frees first and clears
`ready` last. `Copy` is the device executing a queued copy: it reads the pinned
word then, not when it was queued.

*AlphaScanKernel.* The host's `Launch`, `Peek`, `LastSlice`, `ReadResult`; the
threads' `Bail`, `Hash`, `LoopEnds`, `Win`, `Store`, `StoreHash` and the block's
`BlockSum`. What a thread does between two accesses to global memory is one step: the
nonce and its hash go into the result block by two, the hash as the nonce it is the
hash of. `Stale` moves the device away from the generation of the call and, when a
late write arrives, back to it; `cancelled` remembers that it was away.

*AlphaNotify.* A line is the sequence of its tokens, a token what the predicates
of the runner can tell of it; `lead` is the number `std::stoull` would read off
the front of a hash that starts with digits, which is what makes layouts
ambiguous. A job has every field of the header. A bare token 1 passes for a flag
(`Boolish`), so the layouts without fixed places lose a difficulty of 1 and refuse
the line: `Legible` says which lines are not affected, and only those must be
accepted. The limb arithmetic is written out and compared with plain division.

*CapStashPow.* A hex text is a sequence of digits below `Hex`, a byte a number
below `Hex * Hex`, a hash has `N` bytes; base and length are scaled down, all
indices and orders are those of the code. SHA-256 is a parameter. The difficulty,
a `double` in the code, is a number of halves, enough to see what `ceil` does.

*WhirlpoolBackend.* `SetupJob`, `Verify`, `Launch` and `ReadBack` take the set of
their CUDA calls that fail, in the order of the source: a call that fails is
printed by `CUDA_CK` and leaves its destination as it was (or uninitialized, for
the two host arrays), and the function goes on. `Failing` is the choice of that
set, with a device that may be lost from any call on or in the middle of a batch
(`Abort`). `Grid`, `Break`, `Hash`, `LoopEnds`, `Win`, `StoreNonce` and
`StoreHash` are the threads of `whirlpool_mine_ms`, one action per access to
global memory. The hash is a random function: a message's hash is chosen when a
thread computes it, and the message itself is kept as what it consists of, so
that equal hashes mean equal messages; the function that stands behind it is
`CudaWhirlpool`. `Notify` is the pool's side, the inverse
of what `build_header80` undoes, taken from the comment at `capstash_pow.cpp:76`.

*StratumLines.* `Recv(n)` and `Send(n)` are the calls of the operating system,
which chooses n; `TakeLine` and `NoMoreLines` are the inner loop of `read_loop`,
`StartLine`, `Send` and `SendLineFails` are `send_line`. A byte is a model value; CR
and LF are the two that matter.

*AlphaBlake3.* A 32-bit word is a node of a graph that says which operation was
applied to which nodes. Two words are the same node exactly when both paths apply
the same operations to the same bytes, which is stricter than equality of
numbers and holds for every header at once. One action is a round. The first word and the remaining seven are computed apart, as
in the kernel. The verdict on a hash is taken on small numbers (`WordRadix`,
`WordBytes`, `HashWords`), for every pair of hash and target.

*WhirlpoolTables, SphWhirlpool, CudaWhirlpool.* All at full size. A 64-bit word is
the tuple of its eight bytes in the order of memory, so that a rotation by eight
bits is a turn of the tuple and the shift and mask that pick a byte pick an
index. The eight tables of a version are computed from its substitution box and
the first row of its matrix, so that 6000 lines of constants are a dozen here. Two
assumptions compare the computed tables with the literals of the source:
`TablesAssumption` with those of `whirlpool.c`, `CudaTablesAssumption` with those of
`cuda_whirlpool_tables.cuh`. Each has a few entries as they stand there, and for every
table the sums, byte by byte, of all its literals, each times its place. TLC works the
sums of the computed tables out; the other side, like the entries, was taken from
the files. A literal that differs from the formula, or two neighbours in the wrong
order, changes a sum; errors that cancel out in eight sums would not be seen.
`ROUND_ELT`, `ROUND`, `WELT_S` and the word orders follow the macros;
`LoadTables` copies the tables into shared memory thread by thread in any order,
and `HashLane` hashes with what is there. The CPU's digest is the rounds over the
blocks the streaming layer sees (`Blocks`), which is the same source text for the
three versions.

*MdHelper, HashStream.* `update` has the two loops of `md_helper.c`, the copying
one and the one that hashes from the caller's memory when it is aligned or need
not be; `addbits_and_close` is the padding with its second block. In
`HashStream` the block function remembers its block, blocks have eight bytes, and
`UnalignedWords = FALSE` with an alignment chosen at every call runs both loops;
`SphWhirlpool` has the setting of x86. The bytes of the messages are the constant
`ContentByte`: the proof takes any, TLC's run takes marks (`MarkByte` in
`MCDataPaths`) that tell every message and place apart, so that leftovers of an
earlier message would show.

## 3. Runs

Every bound is a constant of the module, named and commented where declared.

| run | configuration | shows |
|---|---|---|
| `capstash_scan` | one work, two difficulties, launches of 2 in a span of 3 nonces, 2 notifies, failures, `Spec` with fairness | a passing share is not behind a finished notify; batches run on the current upload, on the pool's extranonce1, calls that failed in it aside; refinement of `JobHandoff` with liveness; the end of the connection ends the run |
| `capstash_dedup` | two works, 2 extranonce2 values, 3 notifies clean or plain, key cap 1, 2 shares | shares of plain jobs are never sent twice below the cap |
| `capstash_old_job` | 2 notifies | *violation*: a share of the previous job can pass (finding 1) |
| `whirlpool_batch` | base-4 digits, hashes of 8 bytes, 2 set-ups, 2 batches, up to 2 threads, one failing call, a device lost at any moment | finds are real, worth the difficulty and hashed under the pool's header; empty batches were scanned whole; blocks are blocks; refinement of `NonceSearch` while no call fails |
| `stratum_submit` | 2 formats, 4 ids | one verdict per submission, none lost, counters balance, no wrong format in the log |
| `gpu_sync` | 2 callers, 3 cancels, failures, lost writes | device in sync when quiet, monotone, cancels reach the kernel |
| `gpu_any_time` | 1 caller, failures | *violation*: a cancel during a reset uses freed memory (finding 2) |
| `alpha_mine` | 2 difficulties, 2 publications, a batch of the whole range of 2, failures, `Spec` with fairness | staleness, targets, no resend between pick-ups, refinement of `JobHandoff`, termination |
| `alpha_drain` | 1 publication | *violation*: a drained batch of the current job counts as scanned (finding 3) |
| `alpha_fallback` | 1 publication | *violation*: the fallback waits for the next job (finding 4) |
| `alpha_scan` | 2 blocks of 2 threads, slices of 5, ranges up to 7 in a nonce space of 7, every start, every set of winners, a cancel at any time, caught up with at any later time | partition of the range, real finds with their own hash, exact accounting, refinement of `NonceSearch`, no deadlock at the barrier |
| `data_paths` | *lines*: 2 lines each way, receives of up to 3 bytes, every cut; *notify*: 8-bit targets in 2 limbs, SCALE 4, all documented layouts, difficulties from 1, all sequences of 2 and 3 odd tokens, 8 difficulties; *blake3*: the hash itself, verdicts on base-3 hashes of 4 digits; *stream*: 3 messages of up to 20 bytes over blocks of 8; *cpu* and *gpu*: full size, 3 versions, 4 lengths, 2 headers, 2 starts, blocks of 2 threads | lines arrive as sent; fields read as meant, and no legible line refused; targets as computed from scratch, monotone in the difficulty; the word path is the byte path and both verdicts agree; a digest is of its message only; the CPU computes Whirlpool; the kernel computes what the CPU does |

Why these bounds are enough to mean something: the races between the two threads
need one job in the miner and one on its way, and their combinations (a notify
during the pick-up of another, a rewind, a second re-target) need two; a third
notify is there where the question is about keys that outlive a job. Launches of
two in a span of three give a full and a cut launch and then roll over; two
extranonce2 values wrap. In the Whirlpool backend a second set-up is what a
failure can mix with the first, a second batch what it can leave a result to;
three nonces over two threads leave a ragged last stride, and polls every second
nonce let a thread pass one and stop at another. The four hashes are the two
network targets and the share targets, each met exactly, and one above: every
comparison is decided at its boundary. Three cancels let a second copy be
queued behind a first and a third come after a rebuild. In the kernel, slices of
five over four threads have full and ragged strides, a range of seven has two
slices, and a nonce space of the same size wraps for every other start. In the
arithmetic, two limbs have a carry and a saturation; the difficulties are picked
on both sides of every branch. In the notifies no value is that of two fields, so
that a field read in the place of another shows.

The lines of `data_paths` are an empty one and one that, with CR LF, is longer than
a receive: every ending is split at every place, and two lines come in one
receive. Messages of 20 bytes over blocks of 8 with 4 bytes of length reach no
block, one and two before the last, and both sides of the padding's boundary; a
third message follows a finalized and a reset one. The four lengths of the CPU run
are 0, 31 and 32 (the boundary) and 80 (a header); a wrong table, turn or order
changes every digest, so that few messages suffice for them, and the two headers
have no two neighbouring words alike. The second start has four different bytes:
the nonce the program verifies itself is 0, for which every byte order looks the
same. BLAKE3 on terms covers every
header at once; for every nonce and any number of them it is proved, as the two
properties of Whirlpool are for every header, nonce, block size and message.

`TypeOK` of `StratumClient` and `BatchInRange` of `CapStashMiner` are in no run:
they are proved, for any constants.

Where the counters of an engine reach their bound the network thread stops
announcing; the mining thread goes on, so nothing deadlocks on a bound. The
end states of the engines stutter explicitly. Deadlock is checked in every run.

### Fairness

Each thread is weakly fair: the operating system schedules it. Where the mining
thread waits in a retry loop (`cuda_setup_job` or a scan failing over and over),
fairness is required of the loop as a whole, not of its success, and the
properties hold all the same: they need the top of the loop, which every retry
passes. `JobHandoff` asks that the miner does not stay behind forever while it
has not stopped. Both engines' liveness runs have failing backends. The pool owes nothing, neither a notify nor an answer nor the
end of the connection. In `AlphaGpuContext` the device executes queued copies
and a caller finishes the call it started (all its steps are short host calls);
no batch is promised to end and no cancel to be asked for.

## 4. Findings

1. `capstash_old_job`. The comment at `whirlpool.cpp:274` says that a share of an
   old job is never submitted. The generation is read after the pick-up and
   bumped before the cancel flag is raised; a batch that fits between the two
   stores passes both tests. `SubmitsPublishedJob`, which is proved, is the exact
   guarantee: never behind a notify whose handler has *finished*.
2. `gpu_any_time`. `alphanumeric_cuda_backend.hpp:74` says `request_cancel` is safe
   at any time. The reset after a failed scan frees the context without the
   callers' lock.
3. `alpha_drain`. The same comment goes on that a late write only means that the
   batch finishes normally. A late write makes the *next* batch, launched with
   the bumped generation, compare unequal and drain, and its range is skipped.
4. `alpha_fallback`. `FIXED_MINER_NOTES.txt:26` announces a fallback to the notify
   target after a low-difficulty rejection; the job being searched keeps the
   scaled target until the pool sends a job or a difficulty.

Observations without a run:

- An answer that overtakes the record of its format (`runner:1204`) is logged as
  accepted with an empty format name.
- `cuda_setup_job` never returns false, and `cuda_mine_batch` only for want of a
  job: after the first verification a lost device goes on returning empty batches
  at full count (`cuda_backend.cu:394`), which the dashboard shows as hash rate.
  `FindIsReal` and `EmptyMeansScanned` therefore speak of batches in which no
  call failed.
- The comment at `runner:417` lists the layouts B and C as supported. With a header
  difficulty of 1 their lines are refused, and so is a compact line without a
  target: the token 1 is taken for `clean_jobs` (`runner:218`, `runner:497`) and no
  difficulty is found. Difficulties of the chain are in the hundreds
  (`ALPHANUMERIC_MININGCORE_PROTOCOL.txt:31`).
- `format_extranonce2` pads to the pool's width but does not cut: below four bytes
  the text grows once the counter does.

## 5. Proofs

`tlapm` checks every theorem for all values of the constants that satisfy the
named assumptions; nothing is assumed besides these. Each proof of a state machine
is an inductive invariant (`IInv`, `NotifyInv`, `VerdictInv`, `StreamInv`, `LinesInv`,
`BlakeInv`, `CudaInv`), itself the conjunction of named parts, checked leaf by leaf with one step per action.

*CapStashMinerProofs.* Staleness is not inductive alone. `SeqInv` ties the
generation to the number of notifies, one handler step behind; `FreshInv` says
that while the cancel flag is down the local job is at least as new as every
finished handler, which is preserved by the pick-up only because `job_mu` is held
from the copy of the job to the clearing of the flag. `UploadInv` (unless `need_setup`
is up, the device holds the current upload, or one some call of which failed) gives
`ScansWhatWasUploaded`: of the pick-up, the roll-over, a new difficulty and a set-up put
off, none leaves an older upload behind. It says nothing of a set-up with a
failed call, after which the code goes on with whatever is on the device.
`SubscribeInv` gives `SharesUseExtranonce1`. `DedupInv` gives `PlainJobsNotResent`:
the keys of every share sent for a plain job are still there, because a pending
request to drop keys cannot outlive the first pick-up of a later plain job.
`HandoffSafety` maps each step to a step of `JobHandoff` or a stutter.

*AlphaMinerProofs.* The same argument with publications in the place of notifies
and a third counter, the host generation of the GPU. `OnceInv` says that what was
sent since the pick-up lies behind `next_nonce` until the search wraps.

*StratumClientProofs.* `IdInv` describes the life of an id: handed out, pending
before it is on the wire, judged at most once and only when taken out of
`pending_submits_`. The ledger then follows by counting the pending set. For the
lines of the socket `LinesInv` says that there *are* places that cut the bytes in
the buffer and on their way into the lines not handled yet; no reference to how the
bytes were received survives in it. A line the pool sends adds a cut (`CutsGrow`), a
receive moves none, and the first LF of the buffer is the first cut
(`EndsAreCuts`, because no text has a CR or LF in it, `TextsAssumption`), so that
`TakeLine` hands out the next line and shifts the others. That nothing whole is left
when the thread goes back to `recv` is a count: the LFs still on their way are as
many as the cuts (`OnTheirWay`).

The module also has the other bytes that come in portions, those of a message for the
hash object of the CapStash engine: `DigestsHold`, for blocks, words and bytes of any
size. Its invariant, `StreamInv`, says that the context has absorbed a
beginning of the present message: the whole blocks so far in the chain, the rest in the
buffer, whose other bytes may be anything an earlier message left (`AbsorbedTo`).
`short` keeps it by the turn: what is absorbed and what is left are the piece
(`Doing`, `LoopStep`), a turn that is not the last ends a block, and so the turns
suffice (`TurnsSuffice`); `Long` starts at the end of a block, because `update` fills
one first, and folds the blocks of the message in order (`LongBlocks`). Closing
(`CloseIs`) has two cases, one block or two, and both store byte by byte what the
definition of the padded message asks for (`PaddedIs`): the leftovers of the buffer are
all overwritten, and the four words of length are the digits of the length in bits
(`LengthIs`): the third comes from `count >> 61`, and the first two are zero because a
counter of at least eight values has no more than two words of bits. `StreamAssumption`
bounds a message by the span of the counter (2^64 bytes) and asks that this be a
multiple of the block. What the messages say is a constant, `ContentByte`, about which
nothing is assumed.

*AlphaGpuProofs.* Of the context: `LockInv` (one caller, with the newest number),
`SeedInv` (a cancel that came after the seed was read has not been turned away) and
`ChainInv` (the newest number is on the device, or in the staging word with a copy
queued, or still in a caller's hands). Both results are conditional on `Clean`: no
call straddled a rebuild of the context. Finding 2 is why the condition is needed.

Of the hash of the lanes: `WordsAgree`. The graph of terms is given a meaning, `val`,
which takes a node to the whole computation it stands for, down to the words it
starts from; `Means` asks that different nodes mean different computations, and a
graph that grows keeps it (`PutGrows`), so that two registers with the same meaning
are the same node (`TermsDiffer`). What remains is about values. `MixShows`: a mix
of the code does to what the registers mean what `PMix` does to values.
`MixesCommute` and `RoundInParts`: the diagonals of a round are of different
registers, so that six mixes at the time of the job and two under the nonce are a
round, and so are the head and the tail. `RoundIsRound`: the schedules written out by
hand are the powers of `permute`. `SameHeader`, `NonceFree`: the words of a job are
those of the header but for the two of the nonce, and the mixes done with the job
use neither. The invariant `BlakeInv` says that there *is* a meaning under which the
registers of both sides are what their rounds make of the two blocks, and that the
nodes of the hash mean the hash. TLC cannot enumerate meanings; it checks the
conclusion, which the invariant implies. `NoncesAssumption` (nonces are numbers) is
all that is assumed.

`VerdictsByByteOrder` is about
the comparison at the end of the hash: the target is cut into words, the words of
both sides are swapped to numbers, the kernel compares the first apart. A word
is compared as its bytes are (`DigitsDecide`, by induction over the fold of
`alpha_bswap32`), words as their bytes one after the other (`WordOrder`), so that
host and kernel both decide by the byte order of the whole hash.

*AlphaScanKernelProofs.* `RangeInv` says that what was enqueued and what remains
are the range; `ThreadInv` that a thread's index stays congruent to its number
modulo the stride, so that no two threads ever share an entry; `AheadInv` that
nothing ahead of the host or of a thread is hashed yet, from which
`NoneDuplicated` follows, and `BehindInv` that everything behind is, unless a find
or a cancel stopped somebody, which gives `NoneSkipped`. `WinInv` follows a winning
nonce from the thread that hashed it into the result block, where one thread at most
stores nonce and hash, and gives `FindIsReal`. `SearchSafety` puts these together: every step of a call is a step of
`NonceSearch` or a stutter (`SearchStep`). A hash is a `Try` because nothing ahead is
hashed (`HashTries`), the end of the call an answer because the invariant says
what was tried when no thread is left (`AtTheEnd`): a find in the block is a tried
winner, and no find means no winner among those tried, also if the call was
cancelled. The lemmas in front are about remainders: a slice of
at most `SliceMax` entries keeps `idx + stride` below `Word`, and a range no longer
than `NonceSpace` wraps without meeting itself.

The exact report of the work is a sum over concurrent threads. `Undone` is what is
left of each thread's share; `WorkInv` says that hashed nonces, the deficit of the
blocks and `Undone` always add up to what was enqueued, so that a hash moves one
from the last to the first and `BlockSum` moves a block's rest to the deficit, where
the code's wrapping subtraction is exact because no share exceeds a word. From
this, with no thread left, follows `ReportIsExact`.

The module also has the theorems about the targets the kernel is called with
(`AlphaNotify`). `NotifyInv` adds to the properties that the target of the
notify, once captured, stays what the pool said (`CaptureInv`); without it,
nothing would keep a second re-targeting from starting at the result of the first.
`LinesReadAsMeant` goes through every documented layout: `ReadAsMeant` follows the
fold over the tokens (`GatherFour`) and shows that each predicate picks the token
the pool meant, for any digits a hash starts with, which is where layouts could
be taken for each other, and that a line that is not legible is refused rather than
read as another (`MerkleFirstIs`, `MerkleSecondIs`, `CompactIs`). `TargetsFromScratch` rests on `ScaleIs`: multiplication
with carries, saturation, long division limb by limb and the clamp to 1 and to
the maximum are the plain quotient, for any base, number of limbs and SCALE below
the base. `NotifyAssumption` says what keeps the kinds of numbers apart in the
code: times of a header are at least the floor it tests for, difficulties of a
header below it and not 0, block numbers fit the four bytes of the header. `HarderDifficulties` is an action property: it
compares the targets before and after a difficulty.

*WhirlpoolBackendProofs.* The invariant has a part for every leg of a find.
`ThreadInv` says that a thread has hashed its residue class up to its index, for
every stride, poll interval and interleaving; `WinInv` that one thread stores its
nonce and then its hash, and that the result block is complete when it has left;
`OutcomeInv` what the host then reads, provided no call of the batch has failed;
`UploadInv` what is in constant memory after a set-up without a failure, or after
the first one if nonce 0 was verified. That is the control. What gives the
theorems their meaning is data, for every base, every hash length and every job:

- `FindsAreReal` needs that the header the device is given is the one the pool
  computes: the two byte reversals of the previous hash cancel (`SwapTwice`), the
  hex fields survive text, number and little-endian bytes (`FieldBytes`,
  `TextOfBytes`), and the nonce is the last word of the second block (`MessageIs`).
- `FindsAreWorthIt` needs that `hash_leq_target_words` compares numbers although it
  compares words (`MeetsIsOrder`), and that the division of `make_share_target`
  is the quotient by `ceil(difficulty)` of the difficulty-one target (`ShareTarget`).
- `BlocksAreBlocks` needs the same of `hash_leq_le` and `hash_meets_target_le`
  (`LeqIsOrder`), and that the network target is mantissa times power
  (`NetworkTarget`). It has a hypothesis, that the exponent byte of `nbits` is at
  most the length of a hash: above it the code drops bytes of the mantissa. Every
  `nbits` of a target below 2^256 satisfies it.

`SearchSafety` is the refinement of the same `NonceSearch`, for batches in which no call
fails; one in which a call has failed maps to the idle state, whatever is on the
device, and the next batch has to be a `Call` all the same. The finds of a batch are
those the threads hold and the one in the result block once nobody stores (`FindsAre`).
A thread that loses the compare-and-swap lets its find go while another
keeps one (`WinLetsGo`); the one that wins carries its find into the block without
changing it (`StoringKeeps`), which is where a second thread between `found_nonce`
and the hash would show.

The assumption `BackendAssumption` asks that the fields of a job have the digits
their type has, that a batch stays in the nonce space (`BatchInRange` of
`CapStashMinerProofs`) and that launch parameters are positive.

*DataPathsProofs.* The two theorems are about Whirlpool, at full size and for every message.
`GpuHashesLikeVerifier`: whatever lane hashes whatever nonce of whatever header, on
the prepared path or on the plain one, the 32 bytes are those of the CPU. A round of
either side is one function of eight tables and a key (`RoundOf`), so that both
compressions are one function of a block and a state (`Compress`); the ten keys
prepared on the device are those the whole computation goes through (`KeysAre`,
`PreparedIs`), by induction over the rounds. On the CPU the message goes through
`update` and the padding: the blocks it makes of a message that is passed in one call
are the blocks of the padded message (`BlocksSeen`), so that the digest is a chain over
them (`HashIs`), and for 80 bytes there are two, the second of them with a marker and
the length 640 (`PowHash`). The plain path writes this block out (`PlainPath`), the
prepared one puts it together from what was uploaded and the nonce (`Block1Is`,
`LaneHash`), where the bytes of the nonce have to come in the order of `write_le32`. The
invariant `CudaInv` says that constant memory holds what belongs to the header
uploaded last (`Prepared`) and that a launch has one (`Launched`); shared memory needs
none, since a lane hashes behind the barrier, with every share of the tables copied. `CudaAssumption`
asks for headers of 80 bytes, starts that are numbers and a block with a lane.

`CpuHashesAsDefined`: the digests of all three versions are the ones of the definition.
A looked up round is the defined one (`RhoIs`) since entry and turn of a table are the
products with the first row of the matrix, and the sum of eight products in one order
is the one in the other (`XorThree` and the lemmas at it: the exclusive or of bytes,
defined bit by bit, is associative and commutative). The feed-forward of key and block
is `MiyaguchiIs`. The padding of the definition asks for the least number of zeros that fills
a block; the one the code writes has as many (`DefinitionPads`), whether the length fits
into the same block or not. `CpuAssumption` bounds the messages by the counter of
the model (`CountBound`, 2^64 in the code), as `sph_whirlpool` does.

*DataLemmas.* The library's induction theorems take an operator as a parameter,
which the provers cannot instantiate. They can do without: for a *set* of numbers, or of subsets of a
finite set, induction is a first-order fact, derived here from the
well-foundedness of `<` (`SetInduction`). A recursive function `f` is then equal to any function that
satisfies its equation, and a fold is its closed form by induction over the set of
lengths at which it is. All lemmas about powers, quotients, bytes of numbers, sums
and folds in the proofs above come from here.

Only model-checked:

- liveness (`StopsAfterEof`, `CancelReachesKernel`, the fairness part of the
  refinements), which needs ENABLED. Every safety property of a passing run is
  proved;
- that the computed Whirlpool tables are those of the source (`TablesAssumption`,
  `CudaTablesAssumption`): TLC compares sampled entries and the sums of each table,
  not the 6000 literals one by one. The proofs are about the tables as they are
  computed.

## 6. Not modelled

- The CUDA and HIP runtimes beyond ordering and failure of the calls used. The
  HIP backend is a port of `.cu` and follows the same models.
- The pool's URL, opening the socket, JSON text and the regular expressions that
  cut it: a line is its tokens, and the tokens are what the predicates of the
  code can tell of them.
- The operations on 32-bit words inside BLAKE3, which are uninterpreted, and
  SHA-256, which is a parameter: the models say on what, and in which order, they
  are applied.
- `sph_types.h` but for the encoding of lengths: its macros choose among
  compilers and word sizes. Contexts of bit lengths that are no multiple of
  eight, which nothing in the program uses, and the entry points of
  `md_helper.c` for other hash functions.
- Configuration, logging, dashboard, telemetry, device listing, benchmarks: no
  state that the engines depend on. `main.cpp` 15-22 picks one engine, and the
  models are of one engine at a time.
- Exceptions thrown on malformed notifies in the CapStash engine.

## 7. Plan

Done, in this order: the hand-off and the CapStash engine, submissions, the GPU
context, the Alphanumeric engine, the scan kernel, the notify parser, the header
and the Whirlpool backend; both hash functions on both sides, the streaming
layer, the lines of the socket; proofs of the two engines, the submissions, the
GPU context, the scan kernel with its accounting, the Whirlpool backend, the notify
parser and its arithmetic, the lines of the socket, the comparison with the target,
the hash object over the streaming layer, the BLAKE3 of the lanes against the one of
the CPU, Whirlpool on the GPU against the CPU, and there against its definition;
the abstract search and the proofs that both backends implement it.

Next:

1. The Alphanumeric engine composed with the GPU context itself instead of its
   abstraction, for drained batches and resets.
2. Configuration: clamps and combinations of the options the engines rely on; the
   width of the extranonce2 text against the counter.
