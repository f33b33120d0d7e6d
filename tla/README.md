# A TLA+ model of RaBitQCache

RaBitQCache decodes long contexts sparsely: the keys of the KV cache are
quantized to one bit per dimension, a query is scored against the codes, and only
the best (top-k), or the heaviest (top-p), tokens are attended. The repository
holds two implementations of the idea:

* the **efficiency** side, an attention backend in a copy of vLLM
  (`src/RabitQCache-Efficiency/vllm/vllm/v1/attention/backends/rabitq*.py` and
  `csrc/rabitq_int4_binary.cu`), called *the backend* below;
* the **accuracy** side, a patched HuggingFace attention with exchangeable
  selectors (`src/rabitqcache/pyimpl/`), its CUDA sampling kernel (`src/csrc/`)
  and the benchmarks that drive it (`src/benchmark/`), called *the evaluation*.

The backend works on what the vLLM around it decides: which requests make up a
batch, which blocks of the paged cache they own, in which rows of the batch they
stand, and how a batch reaches the GPU workers. The parts of that copy of vLLM's
v1 engine on which the backend's correctness rests are modelled as well.

`PROJECT.json` maps every definition to the lines it models.

## 1. Inventory

| component | state it keeps | operations | correct when |
|---|---|---|---|
| Request bookkeeping (`rabitq.py`) | per layer and request: `total_tokens`, `metadata_write_index`, `metadata_capacity`, `num_pending_decode_tokens`, `prepared`, the metadata tensors | `_update_prefill_stats`, `_process_pending_quantization_async`, `_append_decode_kv`, `_quantize_pending_keys` | each token on the books is quantized or pending; row *i* belongs to position *i*; quantized rows never change |
| Decode path (`rabitq.py`, `rabitq_flashinfer_ops.py`) | `mask_offsets_buffer`, mask buffer | `_run_rabitq_decode`, `_compute_topk_mask`, `_compute_topk_mask_single`, `_run_individual_decode`, wrapper `run` | each request reads the mask bytes of its own keys |
| Selection mask (`rabitq.py`, `rabitq_ops.py`) | one slice of the mask | top-p copy, `update_topk_mask` and its Triton kernel | the slice is exactly the selection, no stale byte |
| Asynchronous quantization (`rabitq.py`) | per layer a `quantize_stream` and the pending data | `forward` in prefill and decode | no kernel reads what is not yet, or no longer, there |
| Decode planning (`build`, `plan_direct`) | fixed page buffers, last plan | re-plan or keep | the plan fits the batch that runs |
| Top-p kernels (`rabitq_int4_binary.cu`, `sampling.cuh`) | search interval | ternary search, bisection | smallest set of heaviest tokens with mass *p*; they end |
| RabitQ selector of the evaluation (`pyimpl/rabitq.py`, hook in `attention.py`) | global `RabitQState`: centroids, codes, `num_quantized_tokens` | `train`, `quantize_initial_keys`, `quantize_new_decode_tokens`, `distances`, reset | tokens are covered once and scored with their own codes |
| Scoring arithmetic (`rabitq.py`, `rabitq_ops.py`, `.cu`) | bits, packed words and bit sums of the stored keys | packing, query preprocessing, packed, bit-serial and direct product | three kernels agree and estimate the inner product |
| vLLM scheduler (`v1/core/sched/scheduler.py`) | queues `running` and `waiting`, `num_computed_tokens` of each request, `finished_req_ids` | `schedule`, `update_from_output`, add, abort, preempt | the queues keep the order of arrival, every request ends, a late sample goes to its own position |
| KV cache manager and block pool (`v1/core/kv_cache_manager.py`, `block_pool.py`) | reference counts, free list, hash index, blocks of each request | `get_computed_blocks`, `allocate_slots`, `free`, `touch`, `get_new_blocks`, `cache_full_blocks`, `reset_prefix_cache` | counts and index agree with who holds what; attention reads its own prefix |
| Engine loop (`v1/engine/core.py`) | `batch_queue` | `step`, `step_with_batch_queue`, utility calls | batches come back in the order in which they were sent |
| Persistent batch, logits processors (`gpu_input_batch.py`, `gpu_model_runner.py`, `v1/sample/logits_processor`) | a row per request, tables by row, update lists | `_update_states`, add, remove, condense, swap, reorder, `update_state` | every column of a row belongs to the request in it |
| Message queue (`shm_broadcast.py`) | ring of chunks and flags in shared memory, sockets for large messages | `enqueue`, `dequeue` | a log: each reader gets every message once and in order |
| Multiprocess executor (`multiproc_executor.py`) | response queues, futures, `is_failed`, IO thread | `collective_rpc`, worker loop, monitor | a call gets its own answers; it ends when a worker dies |
| Other selectors, budget statistics (`pyimpl/`) | histories, streaming windows, budgets | one selector call per layer and step | index arithmetic stays in range |
| Rotation matrices, timing, configuration, rest of vLLM | files, timers, copies of arguments | | |

How they interact: the engine loop lets the scheduler pick a batch; the executor
broadcasts it to the workers through the message queue, with several batches under
way at a time when there is pipelining; the model runner of each worker brings its
rows and block tables up to date and calls
`build()` once and `forward()` once per layer. `forward()` either runs a *prefill*
step (any request with more than one token: dense attention for the whole batch,
statistics, quantization on the layer's own CUDA stream) or a *decode* step (wait
for that stream, append, quantize pending keys once a batch of them waits, score,
write the mask, run the planned kernel with it; on an exception run request by
request). Nothing tells the backend of a preemption or of the end of a request.
In the evaluation one sequence runs at a time, but the state is global and
survives it unless the benchmark calls `reset_rabitq_state()`.

What is hard here: the scheduler counts tokens as computed and blocks as cached
before the worker has computed them, and preempts, aborts and resumes requests
whose batches are under way; blocks are shared, evicted and reused by hash; the
rows of the batch are compacted and swapped in every step, and others follow these
moves from a list; the queue to the workers is a ring without locks, and its
answers carry no number. In the backend, the bookkeeping must agree with a cache that the scheduler
changes in ways it does not report (chunked prefill, mixed batches, prefix hits,
preemption); several index spaces (place in the batch, place in `batch_info`,
position, row) meet in one buffer; two CUDA streams per layer share memory
through a caching allocator; a kernel without barriers clears and sets the same
bytes; cached plans and offsets outlive what they were computed from; and the
searches stop on equality of floats. `hazards` in `PROJECT.json` lists these at
their lines with the properties that watch them.

## 2. Modules

| module | models | composed with |
|---|---|---|
| `RequestState` | one `RabitQRequestState` and the operations on it, as operators | extended by `RabitQBackend` |
| `TokenLedger` | abstract specification: quantized and pending tokens per request | implemented by `RabitQBackend` |
| `RabitQBackend` | one attention layer under the scheduler | |
| `QuantStream` | the streams, the allocator and the order of kernels | |
| `DecodePlan` | `build()` and `plan_direct()` | |
| `TopP` | reference definition of top-p, masses, extremes | extended by `TopPSearch` |
| `TopPSearch` | the two searching kernels and the Python sort | |
| `Scoring` | packing, query codes and the integer products | |
| `SelectionMask` | one request's slice of the mask | assumes `TokensAccounted` of `RabitQBackend` |
| `RabitQSelector` | the evaluation's selector and its hook | |
| `BlockPool` | the block pool, as operators on a record | extended by `Scheduler` |
| `Scheduler` | scheduler, KV cache manager, engine loop, block tables and cache of the worker | |
| `InputBatch` | the rows of the model runner and the logits processors that follow them | |
| `BroadcastLog` | abstract specification of a queue with several readers | implemented by `MessageQueue` |
| `MessageQueue` | the ring in shared memory and the socket beside it | extended by `Executor` |
| `Executor` | `collective_rpc`, workers, monitor, on top of the ring | |
| `X_proofs` for `RabitQBackend`, `RabitQSelector`, `SelectionMask`, `DecodePlan`, `QuantStream`, `TopPSearch` (with `TopP`), `Executor` (with `MessageQueue`) and `Scheduler` (with `BlockPool`) | theorems and the lemmas they rest on (§ 4) | each extends its component |
| `MC*` | values of the constants for TLC: prompts, parameters, symmetry of request ids | |

### RequestState and RabitQBackend

A metadata row is abstracted to the cache position of the key it was computed
from, or `Garbage` for memory nobody wrote. That is all the properties tell
apart; the six tensors are always allocated, grown and written together. The
three sizes of the code (512 tokens per batch, 512 spare rows, ten decode tokens
reserved per prompt token) are constants.

Actions: `Arrive` and `Preempt` are the scheduler's (external; preemption
frees the blocks and recomputes the tokens under the same id), `ForwardPrefill` and
`ForwardDecode` are the two branches of `forward()`, each with the whole chain of
calls it makes. A batch is a sequence, because the order in `req_ids` decides
which offset and which query row a request gets. The result of a decode step is
the ghost `attn`: per request the sequence of mask bytes the kernel reads, each
byte labelled with the request, position and queries it was written for; this is
how a slice at a wrong offset shows. `wrapper` covers the three outcomes of the
batched kernel, including the fallback after an exception. `bypassed` is a ghost
that records that K/V entered or left the cache where the bookkeeping does not
look (a later chunk, a mixed batch, a prefix hit, a preemption, a decode step
before being prepared). It delimits the properties which can only hold on the
path the code was written for.

### QuantStream

The host appends kernels and `wait_stream` items to the queues of the streams,
the GPU runs heads of queues. Blocks of the allocator return to their
stream's pool as soon as the last host reference is gone, also while another
stream still has to read them, as PyTorch does without `record_stream`.
`DefaultReadsAreFresh` is what the decode side needs, `AttentionFirst` is the
comment on the wait in the prefill branch.

### DecodePlan

The pages of each row are what FlashInfer's `plan()` divides, so a plan is
abstracted to them. The scheduler is present as far as it moves the lengths: `Advance`
is a prefix hit or a chunk of several tokens, which is no decode row; `Preempt` sets
`num_computed_tokens` back to zero; and a row of one token (`Step`) is the next sample
or a chunk of a request that is computed again, which `split_decodes_and_prefills`
counts as a decode too. A row may therefore shrink. The ghost `shrunk` says
that a request of the plan was preempted since the plan was made. `BuildRaises` is the
failure when there are more rows than `max_num_seqs` or the index buffer is full; it
is outside every handler, so the engine stops (`up`).

### TopP, TopPSearch

Probabilities are small whole units, thresholds are counted in `Scale` parts of a
unit, so that repeated division of the interval behaves as with floats until the
interval holds no further value. The pass over the row (`Scan`) is the same in
both kernels; they differ where they start and how they narrow: the ternary one
starts from the maximum and stops on equality, the bisection starts from the first
token and stops within `Eps`. A block-wide reduction is part of the pass.
Probabilities of a long row lie closer together than the code's 1e-5, so nothing is
supposed of `Eps`: `SelectsTopP` asks of the bisection that for each token it keeps, the
ones heavier by more than `Eps` do not have the mass without it (`Slack`, zero for the
ternary search).
`StartsFromMax` is what the bisection takes for granted; its commented loop
invariant fails at once on a row whose first token is not the largest, and then
the mask has enough mass but may keep more tokens than the top-p set. The third
variant is the sort of the Python selector (`StartSort`, `Kept`): it keeps tokens
while the cumulative mass is at most *p*, and the first one always, so that it ends
one token short of the top-p set unless the mass is met exactly. Among equal
probabilities any order of the sort is allowed.

### Scoring

Real numbers are integers on a grid, and `Delta`, a fraction with denominator
`max_val`, is carried multiplied by it; so the integer part of the estimate is
computed exactly as in the code. Words and codes have a width (`Word`, `CodeBits`):
packing cuts a sum to a signed word, the kernels read it as unsigned, and the cast
of codes wraps. A behaviour quantizes a key, preprocesses a query and scores it with
the packed kernel, the bit-serial one and the direct product.

### SelectionMask

On the top-p path the two `any()` reductions; on the top-k path the Triton
kernel, whose stores are interleaved freely between warps. A byte only depends on
the order of the stores to it, which is why a whole store of a worker may be one
step. `CpuMask` is the branch of `update_topk_mask` for other devices and serves as
the reference.

### RabitQSelector

One layer's `RabitQState` over several sequences. A code is the key it came from
and the sequence whose centroids were used. Both intervals are constants, because
hook and selector take them from the configuration with different defaults (512 and
128). The properties suppose that they agree, as in every configuration of the
benchmarks; with the two defaults, tokens of the first interval would be scored
with the codes of later ones. The branch of `quantize_new_decode_tokens` commented
"Should not happen" is the normal one for a sequence whose prompt lies within the
first interval: such a sequence never gets codes, and every token stays selected.

### BlockPool and Scheduler

`schedule()` is two loops. Each iteration is an action (`ScheduleRunning`,
`SkipRunning`, `Preempt`, `AdmitWaiting`), `phase` and `idx` are the program counter,
and `Send` ends the call. Between them only the worker runs, as the engine is one
thread; clients add, abort and reset in the phase `input`. `BeginStep`, `Send` and
`UpdateFromOutput` together are `step_with_batch_queue()`, which with `QueueSize` 1
is `step()`. `Execute` is the worker: tables are brought up to date, every slot
a table names is written, then everything up to the new tokens is read.
`EngineFails` ends the engine: the model runner asserts that a sampled token fits into a
row of `max_model_len`, which after a prompt of exactly that length it does not
(`Overruns`). While such a batch is under way `schedule()` may find
`num_new_tokens = -1` for its request, since it tests for zero only. The code then sends
another batch that counts a negative token; as the exception of the batch before it ends the
engine in any case, the model ends it there instead of describing that batch.

A block's hash is the token prefix it stands for (no collisions), and a slot of the
cache holds the prefix its K/V was computed from. Thus `ReadsOwnPrefix` compares
what attention finds with what it should find, through tables of the worker that
lag behind the scheduler's. The samples are any tokens of `Vocab`.

`ServingAssumption` is what the front end and the start-up make sure of: prompts have up to
`max_model_len` tokens, and the memory check, which counts the null block, has passed.
That is not enough for every request to end. `EveryRequestEnds` therefore supposes a
block more than the check asks for, and lets the engine fail, or the others wait, because of
an unfinished request whose prompt fills `max_model_len` (§ 5).

### InputBatch

`UpdateStates` is `_update_states` followed by the reordering and by the
processors' `update_state`: one step per scheduler output, whose parts (requests
finished, new, resumed, and tokens of each) are chosen freely under what a scheduler
can send. A column of a row holds the incarnation of the request it was written for.
The logits processors keep a copy on the device, min-p of the rows in use and the
logit bias as three flat tensors, which `update_state` builds again when an update
touched an entry. Columns come in three groups: arrays that are moved with the row (`data`),
dictionaries by row (`gens`), and the mask of allowed tokens, a tensor of which
rows are views (`mask`). `swapped` is a ghost that remembers whose row was swapped, as
the swap of the mask rows loses one of them (§ 5).

### BroadcastLog, MessageQueue and Executor

In `MessageQueue` a step reads or writes one flag or the contents of one chunk. Only
the scan of the writer over the readers' flags is one step: a flag once set stays
so until the writer clears it. `LogSpec` maps the ring to `BroadcastLog`: messages are sent when
their chunk is marked as written, received when `dequeue` returns them. A reader
may be one message further behind than there are chunks, because a large message
leaves its chunk before it is taken from the socket.

`Executor` drives that ring with two kinds of calls. `Call`, `Broadcast` and `Submit`
are `collective_rpc` of the engine thread; `Submit` also puts the future of an
`execute_model` into the batch queue. `Pop` and `Result` are the rest of
`step_with_batch_queue`: the engine takes the oldest future and gets its output or its exception.
Only then does the error of a batch end the engine; until then the IO thread goes on with
the reads that were submitted, of later batches and of utility calls, and these may
take what a read that timed out has left behind. `GetResponse`,
`Receive` and `TimeOut` are `get_response`, in the IO thread when several batches may
be under way. `Dequeue`, `Run` and `SendAnswer` are the busy loop of a worker; a worker may
fail in a call (`faults`), or die between any two steps.

A response queue has one reader. Its chunks are the bounded FIFO that the ring was
shown to implement; a large answer is a chunk and, in a later step of the worker, a
message in the socket, which the reader takes in a later step too (`receiving`). The
ghosts `skipped` and `lost` count the chunks and the socket messages that nobody waits for any
more, so a large answer that was given up after its chunk had been read is put in the
place of a later one.

Two waits are ended by nothing in the code: `StuckInEnqueue`, in `acquire_write` of
a broadcast, and `StuckInRecv`, in `MessageQueue.recv` of a utility call without
time-out. `CallsEnd` and `EngineStops` say that these are the only ones.

## 3. Runs

| run | expected | shows |
|---|---|---|
| `backend_pair` | pass | books balance, rows follow positions, masked decodes read their own keys, rows are append-only, the ledger is implemented |
| `stream_reuse` | pass | the decode side always finds finished metadata, blocks being reused; quantization follows attention |
| `stream_keys` | violation | the keys may be overwritten before the quantization has read them |
| `plan_steady` | pass | a kept plan fits as long as the rows keep their requests and none of them is preempted |
| `topp_searches` | pass | loop invariant; result of the ternary search exact, of the bisection within its tolerance (enough mass whatever the sink weighs), of the sort short by at most a token; termination |
| `scoring` | pass | packed, bit-serial and direct products agree; the four terms are the product with the dequantized query; the error is at most half a step per rounded dimension |
| `mask_race` | pass | the race leaves nothing stale and nothing extra; top-p loses nothing |
| `mask_union` | violation | top-p selects all quantized tokens or none |
| `selector_reset` | pass | a fresh sequence is covered exactly, with its own codes |
| `serving` | pass | reference counts, free list and hash index agree; attention reads its own prefix although blocks are shared and cached ahead; late samples stay current; the queues keep the order of arrival; every request ends unless a prompt fills `max_model_len` |
| `input_batch` | pass | rows, dictionaries and logits processors follow the requests through removals, moves and swaps; decodes come first |
| `rpc` | pass | the ring implements the log; answers lag by exactly the answers left behind; calls end, and the engine stops when a worker dies, unless it is in one of the two waits that nothing ends |

The violations state sentences of comments, quoted under `findings` with what the code
does instead.

### Bounds and why they are enough

* **Backend.** `BatchSize` 2, one spare row and no decode reserve, so that both
  a batch of pending keys and a reallocation happen within `MaxLen` = 6 tokens;
  with the prompt of three tokens there are chunks of one and two, and one
  preemption falls at every point. Two requests give every mix of prepared,
  unprepared and bypassed. Only a third request has an offset that is a proper sum;
  `OffsetsTile` of `MCRabitQBackend` therefore evaluates the offsets of up to four
  requests separately.
* **Streams.** Four steps with one layer cover prefill, decode with a
  reallocation, the prefill of a second request into the freed block, and its
  decode. Layers share only the default stream, so one layer shows both directions
  of waiting; `stream_keys` needs two, as the next layer takes over the memory of the
  keys, and one step and one block are enough for it.
* **Plan.** Pages of two tokens, prompts up to three and lengths up to five cross page
  boundaries at different steps for the three requests; buffers of two rows and five
  pages are exceeded by three rows, and by two rows of three pages. Prefix hits,
  chunks and preemptions fall at every point.
* **Searches.** All rows of up to four tokens with weights 0..5, thus all patterns
  of ties and zeros, and all masses, also those that lack two units to one. `Scale`
  (6^6) leaves more divisions than a search of such rows needs. `Eps` is one unit, the
  smallest difference of two probabilities, so that the bisection stops on different
  values as well as on equal ones.
* **Scoring.** Heads of four dimensions in two words of two bits: both the bit that
  makes a word negative and the border between words occur. All 16 keys, all queries
  on a grid of five values, negative ones included, `b_q` of one to four with codes of
  four bits, that is, up to the width of a code. Keys do not influence each other,
  so one is stored.
* **Serving.** Three blocks of two tokens against prompts of three, two and five
  tokens that share prefixes, and up to two more tokens each, with a `max_model_len` of
  five: two running requests exceed the cache, so that they preempt each other, evict
  and hit; the first request grows to the limit, the third prompt
  fills it, and is computed in chunks or, after a prefix hit, to its end. The budget of
  three and the threshold of two make chunks and force requests into different
  steps. Two batches under way and aborts at any moment give stale outputs. The order of
  arrival is that of the numbers, hence no symmetry. The third request may come late
  or be aborted, so the first two, or what is left, have to end without it.
* **Input batch.** Three requests in three rows, one of which is used twice: up to
  two holes below a row that moves, and an id that is finished and new at once.
  Token counts of one and two stand on both sides of the threshold.
* **Ring and executor.** Two chunks and three calls: the ring is full and goes round;
  the second message is large, and so are the answers to the first two calls. Two workers, one
  of which answers `execute_model`, two futures in the batch queue, one
  fault and one death at any moment. The answers a fault leaves behind do not fill a
  response queue; if they did, its worker would block in `enqueue` (§ 5).
* **Mask.** Four quantized tokens, a pending one, two query rows and workers of
  two offsets: up to three workers, with all selections and all orders.
* **Selector.** Interval 2 and nine tokens give four batches; the third sequence
  meets a state left by two others.

`CHECK_DEADLOCK FALSE` is set where a behaviour ends at a named bound or when the
kernel has finished; the searches instead have a `Return` action and are
checked for deadlock.

### Fairness

The two searches assume
that the threads of a block run until they return. `Scheduler`
assumes that the busy loop of the engine goes on (`Engine`, one thread) and that the
worker runs a batch it was sent (`Execute`). `Executor` assumes that the engine thread,
the IO thread, the monitor and the workers are scheduled (one weak fairness condition
for each) and that the time-out of `execute_model` passes
(`VLLM_EXECUTE_MODEL_TIMEOUT_SECONDS`, always set); the time-outs of utility calls, which a client
may leave out, faults, deaths and further calls need not happen.
Nothing else assumes fairness: when clients add or abort, and in the backend's
own modules when the scheduler admits or preempts is not the code's choice.

## 4. Theorems

TLC checks the instances above; TLAPS proves the following for all values of the
constants, under the `ASSUME` of the module concerned: `SizeAssumption`,
`WorkloadAssumption`, `IntervalAssumption`, `SelectionAssumption`, `PlanAssumption`,
`StreamAssumption`, `TopPAssumption`, `EpsAssumption`, `QueueAssumption`, `ExecutorAssumption`,
`PoolAssumption` and `ServingAssumption`. They say that the constants are numbers, which of them are not
zero, and what the code makes sure of at start-up and when a request is submitted. No bound on
faults, deaths or the tolerance of the bisection is among them.

`RabitQBackend_proofs`

* `TypeCorrect`, `BooksBalance`, `RowsInPlace`: the invariants `TypeOK`,
  `TokensAccounted`, `RowsFollowPositions`. The inductive invariant is
  `IInv == TypeOK /\ TokensAccounted /\ Untouched /\ RowsFollowPositions`.
  `RowsFollowPositions` alone is not inductive: that the first prefill puts key
  *i* in row *i* needs the cache of the request to be empty at that moment, which is
  `Untouched` (a request not on the books that was never bypassed has nothing
  cached). And the rows of a batch of pending keys land at the right place only
  because `write_index + pending = total_tokens`, which is `TokensAccounted`.
* `QuantizedRowsStay`: the action property `RowsAppendOnly`.
* `BooksImplementLedger`: `Spec => Ledger!Spec`, with `write_index` for the
  quantized and `num_pending_decode_tokens` for the pending tokens; every action is
  mapped to one ledger step for each request, or to a stutter.

* `MaskedDecodesAttendOwnKeys`: `AttendsOwnKeys`, from `AttnInv` on top of `IInv`. It
  adds that `mask_offsets_buffer` starts with zero whichever path wrote it, which the
  single path trusts, and that a request that arrives is not in the batch. The offsets are a recursive sum over
  the batch: they are shown to place the slices side by side, so that slices before row *i* end in
  front of it and later ones start behind it. Then `batch_info` and the batch agree
  as far as the requests are prepared (`FrontInfo`), and no byte of a slice is
  unwritten because of `TokensAccounted`.

The lemmas in front say what each operation does to a single request's record and
rows; the step lemmas lift them to batches.

`RabitQSelector_proofs`

* `ScoresFaithful`, `TailStaysBounded`: `ScoresOwnKeys` and `TailBounded`, from the
  invariant `SInv`. The property speaks of the last output only; its strengthening
  `FreshBooks` says what the next call finds: the codes are those of positions
  `HookInterval .. numQ - 1` in order, with centroids of this sequence.

`SelectionMask_proofs`

* `StaysWithinSelection`, `KeepsOwn`, `TopPComplete`, from `MaskInv`. While the warps
  run, a byte is 1 only if it should be, is stale only while the worker that
  clears it has not, and what a worker both clears and sets stays set, because nobody
  else clears it. That the grid covers the whole slice is arithmetic on rounded-up
  quotients, for every length, warp and program size.

`DecodePlan_proofs`

* `PlanFits`: `PlanFitsItsBatch`, from `PlanInv`. A plan records the pages its rows
  had; lengths grow except by a preemption, so without one each row needs at least as many
  now. When the totals are equal no row can have grown (`SumsEqual`): this is the reason why
  comparing the total is enough while the rows keep their requests. The sum is a recursive function, so the induction over
  rows is made with a least counterexample.

`QuantStream_proofs`

* `StreamTypeCorrect`, `ReadsFresh`, `AttentionBeforeQuantization`, from
  `StreamInv == StreamType /\ ReadsHold /\ MetaHolds /\ QuantizeWaits`. The properties
  speak of the kernel that runs; the invariant speaks of all that is launched. Of each
  read in a queue it says which item, still to run, puts the expected contents there,
  or that they are there already, and that every other write of the block is ordered
  behind the read: within a stream by place, across streams by a `wait_stream`.
  `MetaHolds` is the same for blocks that a request holds and nobody reads yet.

`Executor_proofs`

* `QueueTypeCorrect`, `ChunkCorrect`, `QueueImplementsLog`, from `RingInv`. `Distances`
  says how far each reader may be behind, `MessagesHeld` which messages the chunks between
  it and the writer hold and what the flags tell of them, `WriterAt` and `ReaderAt`
  what is known at each program counter, `Sockets` that a socket holds the large
  messages sent and not yet received. Remainders of the indices are dealt with once,
  in lemmas in front. The refinement maps every step of the ring to one of
  `BroadcastLog` or to a stutter; a step of the executor is a step of the ring or leaves it alone.
* `AnswersLagCorrect`: `AnswersLag`, from `ExecutorInv`. Of each worker it counts the
  answers it was asked for, those taken, those left behind and those still waited for
  (`AllAnswers`); the lag of an answer is the difference at the time of the read. Reads
  under way and futures not taken are part of the count, so that a read after a
  time-out is covered whether it is for a batch or a utility call. Chunks and socket
  messages of large answers are counted apart. The number of faults is not bounded by the size of
  a response queue.

`Scheduler_proofs`

* `TypesHold`, `RefCountsHold`, `CacheIndexHolds`, `ArrivalOrderHolds`: the invariants
  `TypeOK`, `RefCountsAgree`, `CacheIndexAgrees`, `ArrivalOrder`, all from
  `SchedInv`, for any number of requests, blocks and batches under way, and with any
  prompts and samples. Its parts need each other:
  * `InLine`: both lists ascend, with the statuses they stand for, and requests arrive in
    order. It is why popping the last running request and prepending it keeps the order.
  * `InBatch`: a request in the batch being built stands before `req_index` in
    `running`. Hence the victim of a preemption has nothing scheduled in this step, and
    nobody who does not run has.
  * `InQueue`: a request is in a batch at most once, so that `update_from_output`
    frees a stopped one once.
  * `Lengths`: what is computed and scheduled never exceeds the tokens a request has, also
    after a resumption; no request passes `max_model_len`.
  * `FullInv`: a request is at least as long as its prompt, and so is what an entry carries; it
    fills `max_model_len` before its end only if its prompt does. Hence an entry that
    computes such a request to its end overruns, and `update_from_output` never appends a
    token to it. It is what replaces an assumption on the length of prompts.
  * `PoolInv`: counts, free list and index. `Private` adds that only blocks with a
    hash are shared, without which caching a full block of one request would put its hash
    on a block of another.
  * `Held`: exactly the first `num_cached_block` blocks of a request have hashes,
    those of its own tokens (`Own`), and there are tokens to fill them. `CacheIndexAgrees`
    is not inductive without it: whether `cache_full_blocks` meets a block that is hashed
    already depends on that number alone.

  Each operation of the pool (`Touch`, `GetNewBlocks`, `FreeBlocks`, eviction, caching) has
  its lemma, the allocation of slots is composed of them, and there is one step lemma per
  action. The free list is filtered by the recursive function `Keep`, and the stopped requests of
  an output are freed by another one, `FreeStopped`: what both preserve is shown with a least counterexample.
* `ReadsOwnPrefixHolds`: `ReadsOwnPrefix`, from `ReadInv`, which is `SchedInv`, the property and
  `BooksInv`. The property speaks of the batch the worker has just run, while the scheduler
  is several batches ahead and the worker's tables and slots are those of the past. The
  invariant therefore follows the worker into the future: `Coming` says that there are
  tables and cache contents, one for each output in the queue, that start from the
  present ones (`Chain`), each the result of running that output on the one before,
  in which every entry reads its own tokens. After the last of them, and after the batch
  being built, the worker holds what the scheduler's books say now (`Foreseen`):
  * `Described`: a running request has in the worker's table the blocks the scheduler gave
    it, and the slots up to what is computed and scheduled hold its tokens' prefixes;
  * `Hashed`: a block with a hash holds the K/V of that prefix, so that a prefix hit may
    take it over although neither batch has run yet;
  * `Reaching`, `EntriesFit`, `FinishedGone`: running requests have blocks for all their
    tokens, the batch being built is about requests as they are, and ids reported as
    finished are finished, so that what the worker forgets is not needed again.

  A freed block may be written by a later output while an earlier one still reads it: nothing
  goes wrong since the worker runs outputs in order, which is what `Chain` expresses.
* `SamplesStayCurrentHolds`: `SamplesStayCurrent`, for `QueueSize` at most 2, from
  `SampleInv`, on top of `ReadInv`. Of each sampling entry in the queue `AllSampled` says that its
  request, while it runs, has been computed to its last token and is not in the batch
  being built; if it waits after a preemption, the entry is in the oldest output, and
  the call of `schedule()` under way has preempted somebody and admits nobody, or the
  output is taken next. This is where the bound enters: with two outputs under way the
  older one comes back before the request can be resumed, with three it need not (§ 5).
  A `QueueSize` of 1 is `step()`, one of 2 a pipeline of two stages.

`TopPSearch_proofs`

* `LoopInvariantHolds`: `LoopInvariant`, for rows of any length and any probabilities, from
  `SearchInv`. It says of the interval between two passes what the comment says, and
  besides that the lower bound stays zero when the row lacks the mass *p*, so that
  such a search keeps all of it. As one bound has the mass and the other has not, the pass
  finds a probability between them (`PassFinds`).
* `SelectsTopPHolds`: `SelectsTopP`, for every tolerance. At the end of a search the
  probabilities in its interval lie within `Slack` of each other: they are equal in the ternary
  search, at most `Eps` apart in the bisection. Every threshold the kernel may leave then selects
  a set with the mass, in which the tokens heavier than any one of them by more than `Slack` do
  not have it; with `Slack` zero this is the top-p set (`ThresholdChooses`). For the sort, the kept positions are a prefix of the
  order (`KeptPrefix`), and an order of all tokens has each of them (`OrderComplete`).

  A mass is a sum that the library defines by recursion over a set, in an order nobody
  fixes. The first lemmas show with a smallest counterexample among the subsets of the row
  (`SubsetInduction`) that the recursion is well defined, that the order does not matter
  (`SumWithout`) and that sums grow with their sets.

Only model-checked, and why:

* all liveness (`Terminates`, `EveryRequestEnds`, `CallsEnd`,
  `EngineStops`): out of the prover's reach;
* the invariants of `Scoring`: sums over the dimensions and over the bits of a word, with powers
  of two and products of variables in them, which the SMT backend does not decide;
* `SamplesStayCurrent` for a `QueueSize` above 2, where it does not hold (§ 5);
* the invariants of `InputBatch`: a step is a chain of folds over sorted sets, each over a record
  of eight columns; that the order of the rows does not matter would have to be proved
  column by column.

## 5. What the models say without a run

These follow from the modelled code and are left out of the properties by an explicit
condition, or are listed under `hazards`.

*Backend.*

* `total_tokens` is counted in the first prefill only (`rabitq.py` 776 against 334):
  it misses later chunks and mixed batches. The properties carry `bypassed`.
* A request that decodes before it is prepared gets no output row (2014, 1985).
* A plan is kept for other requests that happen to need the same number of pages, and
  for the same ones when a preempted row shrank as much as another grew
  (`rabitq_flashinfer_ops.py` 479). `PlanFitsItsBatch` speaks of steady rows.
* Long rows of probabilities are within the tolerance of the bisection, whose mask then has
  tokens beyond the top-p set. The comment on the end of the loop (`sampling.cuh` 170,
  "f(min_gt_low) == f(max_le_high)") is not what line 217 tests.
* The race of the mask kernel can lose a selected token (`rabitq_ops.py` 34): only
  that it adds none is claimed.
* With `b_q` above the width of a code the codes wrap while their sum does not
  (`rabitq.py` 79), and `EstimateIsProduct` fails; `_validate_b_q` has no upper bound.
* `max_num_pages` (200000) raises in `build()`, outside any handler (`BuildRaises`);
  `topk` is 128 when none is configured (562).
* The batched Triton kernel for scores (`rabitq_ops.py` 487 to 615) has no caller, and
  its number of tiles rounds down.

*Scheduler.*

* `SamplesStayCurrent` holds with at most two batches under way (§ 4). With three it does not: a
  request may be in the batch *k*, be preempted in *k+1* and be resumed in *k+2*
  before the output of *k* is back, and then gets two tokens for a position.
  (`_update_request_with_output`, `scheduler.py` 1021, appends whatever comes back; its
  comment considers requests still being prefilled only.)
* The memory check counts the null block (`kv_cache_utils.py` 698). When memory is
  exactly enough, a request that reaches `max_model_len` preempts itself for ever.
* A prompt of exactly `max_model_len` passes the front end (`processor.py` 491). Computed
  to its end on admission it fails the assertion of the model runner (`EngineFails`); in
  chunks it stays at `num_new_tokens = 0` for its last position (`scheduler.py` 222)
  until it is aborted.
* With the priority policy, which is not modelled, a request that was scheduled in
  this step and is then preempted stays in `num_scheduled_tokens` (`scheduler.py` 256 to 268).

*Batch.*

* The rows of `allowed_token_ids_mask` are swapped as views, so that both end up equal
  (`gpu_input_batch.py` 537 to 541, while 496 calls the same form for the tokens unsafe), and `condense` leaves the old row set, which a request without
  restrictions may later be given (634). `RowsFollowRequests` excludes both.

*Executor.*

* After a utility call that failed, and after any call that timed out, answers that were
  not read stay in their queues and are taken by later calls, for a batch while the engine has
  not come to its future yet. `AnswersLag` says by how much. When this happens again and
  again, a response queue fills up and its worker blocks.
* `acquire_write` of a broadcast has no time-out and no cancel event: `StuckInEnqueue`.
* `recv` of a large answer has no cancel event (`shm_broadcast.py` 514 to 526), and a utility
  call no time-out by default: `StuckInRecv`, when the worker died after the chunk.
* A worker that fails in `execute_model` and is not the output rank does so silently.

## 6. Not modelled

* *Real numbers.* Centring, rotation, norms, softmax and the last division of the
  estimate. Which tokens score best is left open: every selection of the right size
  is possible (`TopPResults`, `TopKResults`).
* *Attention values*, CUDA graphs and tensor parallelism.
* *Rotation files, timing, configuration plumbing*: I/O, measurement, copies.
* `RabitQFlashInferWrapper`, and `reset_layer`, which have no caller.
* `rabitq_old.py`, the single-GPU version of the selector, which nothing imports.
* *The other selectors of the evaluation* are baselines. Most are arithmetic on the
  scores of a step; SnapKV and TidalDecode keep a mask between calls.
* *Budget statistics*: counts on which nothing depends.
* *Of the scheduler*: speculative decoding, LoRA, pooling, encoder inputs, structured
  output, KV transfer, priorities; sliding windows, Mamba and hybrid groups of the cache.
* *Of the batch*: the MinTokens processor, which shares `process_dict_updates`
  with the logit bias, multi-modal inputs, speculative tokens.
* *Of the queue and the executor*: remote readers, the handshake, a time-out of a worker in the
  socket after the chunk was released, start-up and termination of processes, data
  parallelism, the thread that copies outputs under asynchronous scheduling. Bytes of
  shared memory are taken to be seen in program order, as the code does.
* Growth of `request_states`: entries of finished requests stay; the model has them
  as requests that are never scheduled again.
* *The rest of vLLM* (models, other attention backends, quantization, the v0 engine, entry
  points, platforms), by far the most lines of the repository, is third-party code that
  the project neither wrote nor changed, and which the backend meets only through the
  parts above. The modelled share of the repository is small for this reason.

## 7. Plan

Done: bookkeeping and its ledger, decode path, streams, plans, all three top-p
implementations, mask, scoring, selector; scheduler with block pool and worker
tables, persistent batch, message queue and executor; theorems about bookkeeping,
selector, mask, plans, streams, searches and sort, ring and executor, scheduler, block pool
and what attention reads. Every invariant of these parts that a run checks is also
stated by a theorem. What could follow, in this order:

1. `RowsFollowRequests`, `ProcessorsFollowRows` and `DecodesFirst` of the persistent batch, with
   lemmas on `FoldLeft` over sorted sets.
2. `KernelsAgree` and `EstimateIsProduct` of the scoring, from the sums of `TopPSearch_proofs`.
