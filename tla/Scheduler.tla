----------------------------- MODULE Scheduler -----------------------------
(***************************************************************************)
(* The part of vLLM that decides what the backend is given: the scheduler  *)
(* with its KV cache manager (v1/core), the engine loop around it          *)
(* (v1/engine/core.py) and, of the model runner, the block tables and the  *)
(* cache writes (v1/worker).  First come first served, prefix caching on,  *)
(* one KV cache group of full attention (which RabitQAttentionSpec uses).  *)
(*                                                                         *)
(* The engine is one thread.  schedule() is a pair of loops, modelled as   *)
(* the phases "running" and "waiting" with one step per iteration; nothing *)
(* of the engine happens in between, only the worker runs beside it.       *)
(***************************************************************************)
EXTENDS BlockPool

CONSTANTS
  NumRequests,          \* requests 1 .. NumRequests, which arrive in this order
  Prompt,               \* Prompt[r]: the prompt's tokens
  Vocab, Eos,           \* tokens a step may sample; the one that ends a request
  MaxTokens,            \* sampling_params.max_tokens
  MaxModelLen,          \* max_model_len
  MaxScheduledTokens,   \* max_num_scheduled_tokens, the token budget of a step
  MaxRunning,           \* max_num_running_reqs
  LongPrefill,          \* long_prefill_token_threshold, 0 when off
  QueueSize             \* batch_queue_size: 1 for step(), more with pipelining

Requests == 1 .. NumRequests

ASSUME ServingAssumption ==
  /\ NumRequests \in Nat \ {0}
  /\ \A r \in Requests : Prompt[r] \in Seq(Nat) /\ Len(Prompt[r]) \in 1 .. MaxModelLen
  /\ Vocab \subseteq Nat
  /\ {MaxTokens, MaxScheduledTokens, MaxRunning, QueueSize} \subseteq Nat \ {0}
  /\ LongPrefill \in Nat
  \* check_enough_kv_cache_memory: the cache, the null block included, holds at least
  \* one request of max_model_len.
  /\ MaxModelLen \in Nat /\ MaxModelLen <= (NumBlocks + 1) * BlockSize

VARIABLES
  pool,       \* the block pool
  req,        \* status, tokens and num_computed_tokens of each request
  blocks,     \* req_to_blocks
  ncached,    \* num_cached_block, NoEntry for a request without one
  running,    \* the scheduler's list of running requests
  waiting,    \* and its queue of waiting ones
  finished,   \* finished_req_ids not yet sent to the worker
  phase,      \* where the engine loop is
  idx,        \* req_index of the loop over running
  budget,     \* token_budget
  preempted,  \* has this schedule() preempted anyone
  batch,      \* the requests scheduled so far: the output under construction
  queue,      \* batch_queue: outputs sent to the worker, oldest first
  table,      \* worker: block ids of each request it knows
  kv,         \* the cache: the token prefix whose K/V each slot holds
  reads       \* ghost: what the attention of the last batch read

schedVars == <<req, blocks, ncached, running, waiting, finished>>
loopVars == <<phase, idx, budget, preempted, batch>>
workVars == <<table, kv, reads>>
vars == <<pool, schedVars, loopVars, queue, workVars>>

NoEntry == -1
Empty == <<>>              \* content of a slot nobody wrote

Prefix(s, n) == SubSeq(s, 1, n)
CDiv(a, b) == (a + b - 1) \div b
MinOf(a, b) == IF a < b THEN a ELSE b
Unfinished(r) == req[r].status \in {"waiting", "running", "preempted"}

-----------------------------------------------------------------------------
(* KV cache manager *)

\* Mutant: a hit may cover the whole request.
LongestHit_All(r) ==
  LET toks == req[r].tokens
      Hit(k) == \A i \in 1 .. k : Prefix(toks, i * BlockSize) \in DOMAIN pool.cached
      k == CHOOSE n \in 0 .. Len(toks) \div BlockSize :
             /\ Hit(n)
             /\ n = Len(toks) \div BlockSize \/ ~Hit(n + 1)
  IN  [i \in 1 .. k |-> GetCachedBlock(pool, Prefix(toks, i * BlockSize))]

\* find_longest_cache_hit: full blocks from the start, and never the last token,
\* which has to be computed for its logits.
LongestHit(r) ==
  LET toks == req[r].tokens
      Hit(k) == \A i \in 1 .. k : Prefix(toks, i * BlockSize) \in DOMAIN pool.cached
      k == CHOOSE n \in 0 .. (Len(toks) - 1) \div BlockSize :
             /\ Hit(n)
             /\ n = (Len(toks) - 1) \div BlockSize \/ ~Hit(n + 1)
  IN  [i \in 1 .. k |-> GetCachedBlock(pool, Prefix(toks, i * BlockSize))]

\* Blocks the request has after n more tokens on top of the hits.
Required(r, n, hits) ==
  CDiv(MinOf(req[r].computed + Len(hits) * BlockSize + n, MaxModelLen), BlockSize)

\* get_num_blocks_to_allocate against the free list: a hit that nobody holds
\* takes a place of it, too.
Fits(r, n, hits) ==
  Required(r, n, hits) - Len(hits) - Len(blocks[r])
    + Cardinality({b \in ToSet(hits) : pool.ref[b] = 0}) <= Len(pool.free)

\* allocate_slots once it fits: take the hits, get new blocks, cache the blocks
\* that this step will fill.
Allocate(r, n, hits) ==
  LET touched == Touch(pool, hits)
      held == blocks[r] \o hits
      k == Required(r, n, hits) - Len(held)
      new == IF k > 0 THEN NewBlocks(touched, k) ELSE <<>>
      grown == IF k > 0 THEN GetNewBlocks(touched, k) ELSE touched
      now == held \o new
      from == IF ncached[r] = NoEntry THEN Len(hits) ELSE ncached[r]
      upto == MinOf(req[r].computed + Len(hits) * BlockSize + n, Len(req[r].tokens))
                \div BlockSize
      Hash(i) == Prefix(req[r].tokens, i * BlockSize)
  IN  /\ pool' = IF from >= upto THEN grown
                 ELSE CacheFullBlocks(grown, SubSeq(now, from + 1, upto),
                                      [j \in 1 .. upto - from |-> Hash(from + j)])
      /\ blocks' = [blocks EXCEPT ![r] = now]
      /\ ncached' = [ncached EXCEPT ![r] = upto]

\* KVCacheManager.free: the tail of a request is evicted first.
FreeOf(p, r) == FreeBlocks(p, Reverse(blocks[r]))

\* The requests of the set stopped are freed in the order of their entries.
FreeStopped(entries, stopped) ==
  LET after[i \in 0 .. Len(entries)] ==
        IF i = 0 THEN pool
        ELSE IF entries[i].r \in stopped THEN FreeOf(after[i - 1], entries[i].r)
        ELSE after[i - 1]
  IN  after[Len(entries)]

-----------------------------------------------------------------------------
(* The front end, between two steps of the engine *)

AddRequest(r) ==
  /\ phase = "input"
  /\ req[r].status = "absent"
  /\ \A q \in 1 .. r - 1 : req[q].status # "absent"
  /\ req' = [req EXCEPT ![r].status = "waiting"]
  /\ waiting' = Append(waiting, r)
  /\ UNCHANGED <<pool, blocks, ncached, running, finished, loopVars, queue, workVars>>

\* finish_requests for a client that went away, also while a batch with the
\* request is with the worker.
Abort(r) ==
  /\ phase = "input"
  /\ Unfinished(r)
  /\ running' = Keep(running, Requests \ {r})
  /\ waiting' = Keep(waiting, Requests \ {r})
  /\ req' = [req EXCEPT ![r].status = "finished"]
  /\ finished' = finished \cup {r}
  /\ pool' = FreeOf(pool, r)
  /\ blocks' = [blocks EXCEPT ![r] = <<>>]
  /\ ncached' = [ncached EXCEPT ![r] = NoEntry]
  /\ UNCHANGED <<loopVars, queue, workVars>>

ResetCache ==
  /\ phase = "input"
  /\ pool' = ResetPrefixCache(pool)
  /\ UNCHANGED <<schedVars, loopVars, queue, workVars>>

-----------------------------------------------------------------------------
(* schedule() *)

\* An engine step: schedule if there are requests, running or just finished;
\* otherwise only collect what the worker still has.
BeginStep ==
  /\ phase = "input"
  /\ IF running # <<>> \/ waiting # <<>> \/ finished # {}
     THEN /\ phase' = "running"
          /\ idx' = 1
          /\ budget' = MaxScheduledTokens
     ELSE /\ queue # <<>>
          /\ phase' = "update"
          /\ UNCHANGED <<idx, budget>>
  /\ UNCHANGED <<pool, schedVars, preempted, batch, queue, workVars>>

Capped(n) == IF LongPrefill > 0 /\ LongPrefill < n THEN LongPrefill ELSE n

\* num_new_tokens of a running request.
NumNew(r) ==
  MinOf(MinOf(Capped(Len(req[r].tokens) - req[r].computed), budget),
        MaxModelLen - 1 - req[r].computed)

\* What the worker is told of a request: how many tokens from which position,
\* the blocks to append to, or to replace, its table; and, as a ghost, the tokens.
Entry(r, n, start, kind, ids) ==
  [r |-> r, n |-> n, start |-> start, kind |-> kind, ids |-> ids, tokens |-> req[r].tokens]

InRunningLoop == phase = "running" /\ idx <= Len(running) /\ budget > 0

ScheduleRunning ==
  /\ InRunningLoop
  /\ LET r == running[idx]
         n == NumNew(r)
     IN  /\ n > 0
         /\ Fits(r, n, <<>>)
         /\ Allocate(r, n, <<>>)
         /\ batch' = Append(batch, Entry(r, n, req[r].computed, "running",
                                         SubSeq(blocks'[r], Len(blocks[r]) + 1, Len(blocks'[r]))))
         /\ budget' = budget - n
  /\ idx' = idx + 1
  /\ UNCHANGED <<req, running, waiting, finished, phase, preempted, queue, workVars>>

\* All tokens of the request are with the worker, or only the last position that the
\* model has is left, which is never scheduled: the next request may still run.
SkipRunning ==
  /\ InRunningLoop
  /\ NumNew(running[idx]) = 0
  /\ idx' = idx + 1
  /\ UNCHANGED <<pool, schedVars, phase, budget, preempted, batch, queue, workVars>>

\* Mutant: a preempted request queues up again at the end.
PrependRequest_Last(r) == Append(waiting, r)

PrependRequest(r) == <<r>> \o waiting

\* No room: the last of the running requests gives up its blocks and goes to the
\* front of the queue.  If it was the request itself, the loop ends.
Preempt ==
  /\ InRunningLoop
  /\ LET r == running[idx]
         victim == Last(running)
     IN  /\ NumNew(r) > 0
         /\ ~Fits(r, NumNew(r), <<>>)
         /\ running' = Front(running)
         /\ waiting' = PrependRequest(victim)
         /\ req' = [req EXCEPT ![victim].status = "preempted", ![victim].computed = 0]
         /\ pool' = FreeOf(pool, victim)
         /\ blocks' = [blocks EXCEPT ![victim] = <<>>]
         /\ ncached' = [ncached EXCEPT ![victim] = NoEntry]
         /\ phase' = IF victim = r THEN "send" ELSE phase
  /\ preempted' = TRUE
  /\ UNCHANGED <<finished, idx, budget, batch, queue, workVars>>

EndRunning ==
  /\ phase = "running"
  /\ ~InRunningLoop
  /\ ~preempted
  /\ phase' = "waiting"
  /\ UNCHANGED <<pool, schedVars, idx, budget, preempted, batch, queue, workVars>>

CanAdmit ==
  /\ waiting # <<>>
  /\ budget > 0
  /\ Len(running) < MaxRunning

\* Mutant: the budget is not looked at.
NumFirst_NoBudget(r, hits) == Capped(Len(req[r].tokens) - Len(hits) * BlockSize)

\* Tokens a waiting request would be scheduled for, given its cache hits.
NumFirst(r, hits) ==
  MinOf(Capped(Len(req[r].tokens) - Len(hits) * BlockSize), budget)

AdmitWaiting ==
  /\ phase = "waiting"
  /\ CanAdmit
  /\ LET r == Head(waiting)
         hits == LongestHit(r)
         n == NumFirst(r, hits)
         start == Len(hits) * BlockSize
         kind == IF req[r].status = "waiting" THEN "new" ELSE "resumed"
     IN  /\ n > 0        \* asserted: the engine stops here otherwise
         /\ Fits(r, n, hits)
         /\ Allocate(r, n, hits)
         /\ batch' = Append(batch, Entry(r, n, start, kind, blocks'[r]))
         /\ req' = [req EXCEPT ![r].status = "running", ![r].computed = start]
         /\ running' = Append(running, r)
         /\ budget' = budget - n
  /\ waiting' = Tail(waiting)
  /\ UNCHANGED <<finished, phase, idx, preempted, queue, workVars>>

\* The loops are over: a preemption keeps everyone waiting, and so does the first
\* request in the queue that does not fit.
Scheduled ==
  \/ phase = "send"
  \/ phase = "running" /\ ~InRunningLoop /\ preempted
  \/ /\ phase = "waiting"
     /\ CanAdmit => LET r == Head(waiting)
                        hits == LongestHit(r)
                    IN  ~Fits(r, NumFirst(r, hits), hits)

\* Mutant: num_computed_tokens is left as it is until the output comes back.
Advance_Late(r) == 0

\* _update_after_schedule: the tokens just scheduled count as computed at once.
Advance(r) ==
  LET of == {e \in ToSet(batch) : e.r = r}
  IN  IF of = {} THEN 0 ELSE (CHOOSE e \in of : TRUE).n

\* The output goes to the worker.  The engine then returns for input, or turns to
\* the oldest output if the queue is full, it is done, or nothing was scheduled.
Send ==
  LET out == [entries |-> batch, finished |-> finished, done |-> FALSE]
      q == Append(queue, out)
  IN  /\ Scheduled
      /\ req' = [r \in Requests |-> [req[r] EXCEPT !.computed = @ + Advance(r)]]
      /\ finished' = {}
      /\ queue' = q
      /\ phase' = IF batch # <<>> /\ Len(q) < QueueSize /\ ~Head(q).done
                  THEN "input" ELSE "update"
      /\ batch' = <<>>
      /\ preempted' = FALSE
      /\ idx' = 1
      /\ budget' = MaxScheduledTokens
      /\ UNCHANGED <<pool, blocks, ncached, running, waiting, workVars>>

-----------------------------------------------------------------------------
(* The worker runs the batches in the order in which they were sent *)

\* Mutant: the blocks of a resumed request are appended, too.
TableAfter_Append(out) ==
  LET Of(r) == {e \in ToSet(out.entries) : e.r = r}
      After(r, e) == IF e.kind = "new" THEN e.ids ELSE table[r] \o e.ids
  IN  [r \in Requests |-> IF Of(r) # {} THEN After(r, CHOOSE e \in Of(r) : TRUE)
                          ELSE IF r \in out.finished THEN <<>> ELSE table[r]]

\* CachedRequestState.block_ids after _update_states.
TableAfter(out) ==
  LET Of(r) == {e \in ToSet(out.entries) : e.r = r}
      After(r, e) == IF e.kind = "running" THEN table[r] \o e.ids ELSE e.ids
  IN  [r \in Requests |-> IF Of(r) # {} THEN After(r, CHOOSE e \in Of(r) : TRUE)
                          ELSE IF r \in out.finished THEN <<>> ELSE table[r]]

\* compute_slot_mapping: where position i (from 0) of a table's request lives.
Slot(t, i) == <<t[(i \div BlockSize) + 1], (i % BlockSize) + 1>>

\* execute_model: the tables are brought up to date, every layer writes the K/V of
\* all scheduled tokens and then attends to everything up to them.
Execute ==
  \E k \in DOMAIN queue :
    /\ ~queue[k].done
    /\ \A j \in 1 .. k - 1 : queue[j].done
    /\ LET out == queue[k]
           t == TableAfter(out)
           Writes(s) == {x \in ToSet(out.entries) \X (0 .. MaxModelLen - 1) :
                           /\ x[2] \in x[1].start .. x[1].start + x[1].n - 1
                           /\ Slot(t[x[1].r], x[2]) = s}
           Content(s) == IF Writes(s) = {} THEN kv[s]
                         ELSE LET w == CHOOSE x \in Writes(s) : TRUE
                              IN  Prefix(w[1].tokens, w[2] + 1)
       IN  /\ table' = t
           /\ kv' = [s \in DOMAIN kv |-> Content(s)]
           /\ reads' = {[tokens |-> e.tokens,
                         read |-> [i \in 1 .. e.start + e.n |-> kv'[Slot(t[e.r], i - 1)]]] :
                          e \in ToSet(out.entries)}
    /\ queue' = [queue EXCEPT ![k].done = TRUE]
    /\ UNCHANGED <<pool, schedVars, loopVars>>

-----------------------------------------------------------------------------
(* update_from_output *)

\* The model runner returns a token only for a request it has computed to its end.
Samples(e) == e.start + e.n = Len(e.tokens)

\* The model runner asserts that the sampled token fits in a row of max_model_len; after
\* a prompt of exactly that length, which the front end lets through, it does not.
Overruns(e) == Samples(e) /\ Len(e.tokens) >= MaxModelLen

\* check_stop
Stops(r, toks) ==
  \/ Len(toks) >= MaxModelLen
  \/ Len(toks) - Len(Prompt[r]) >= MaxTokens
  \/ Last(toks) = Eos

\* The engine ends with an exception.  The assertion failed in the worker, and the future
\* of the oldest output raises it.  Or such a batch is still under way, and schedule()
\* finds num_new_tokens = -1 for its request: the code does not skip it but sends a batch
\* that counts -1 token, which changes nothing about the first one's exception, so that
\* the model ends here.
EngineFails ==
  /\ \/ /\ phase = "update"
        /\ queue # <<>> /\ Head(queue).done
        /\ \E i \in DOMAIN Head(queue).entries : Overruns(Head(queue).entries[i])
     \/ InRunningLoop /\ NumNew(running[idx]) < 0
  /\ phase' = "failed"
  /\ UNCHANGED <<pool, schedVars, idx, budget, preempted, batch, queue, workVars>>

\* The oldest output is done: append the sampled tokens and free what stops.  A
\* request may have been aborted since, or preempted.
UpdateFromOutput ==
  /\ phase = "update"
  /\ queue # <<>> /\ Head(queue).done
  /\ \A i \in DOMAIN Head(queue).entries : ~Overruns(Head(queue).entries[i])
  /\ \E sampled \in [DOMAIN Head(queue).entries -> Vocab] :
       LET entries == Head(queue).entries
           Live(i) == Unfinished(entries[i].r) /\ Samples(entries[i])
           Tokens(i) == Append(req[entries[i].r].tokens, sampled[i])
           Stopped(i) == Live(i) /\ Stops(entries[i].r, Tokens(i))
           stopped == {entries[i].r : i \in {j \in DOMAIN entries : Stopped(j)}}
           New(r) == {i \in DOMAIN entries : entries[i].r = r /\ Live(i)}
       IN  /\ req' = [r \in Requests |->
                        IF New(r) = {} THEN req[r]
                        ELSE [req[r] EXCEPT !.tokens = Tokens(CHOOSE i \in New(r) : TRUE),
                                            !.status = IF r \in stopped THEN "finished" ELSE @]]
           /\ pool' = FreeStopped(entries, stopped)
           /\ blocks' = [r \in Requests |-> IF r \in stopped THEN <<>> ELSE blocks[r]]
           /\ ncached' = [r \in Requests |-> IF r \in stopped THEN NoEntry ELSE ncached[r]]
           /\ finished' = finished \cup stopped
           /\ running' = Keep(running, Requests \ stopped)
           /\ waiting' = Keep(waiting, Requests \ stopped)
  /\ queue' = Tail(queue)
  /\ phase' = "input"
  /\ reads' = {}
  /\ UNCHANGED <<idx, budget, preempted, batch, table, kv>>

-----------------------------------------------------------------------------
Init ==
  /\ pool = InitPool
  /\ req = [r \in Requests |-> [status |-> "absent", tokens |-> Prompt[r], computed |-> 0]]
  /\ blocks = [r \in Requests |-> <<>>]
  /\ ncached = [r \in Requests |-> NoEntry]
  /\ running = <<>> /\ waiting = <<>> /\ finished = {}
  /\ phase = "input" /\ idx = 1 /\ budget = MaxScheduledTokens
  /\ preempted = FALSE /\ batch = <<>> /\ queue = <<>>
  /\ table = [r \in Requests |-> <<>>]
  /\ kv = [s \in Blocks \X (1 .. BlockSize) |-> Empty]
  /\ reads = {}

Engine ==
  \/ BeginStep \/ ScheduleRunning \/ SkipRunning \/ Preempt \/ EndRunning
  \/ AdmitWaiting \/ Send \/ UpdateFromOutput \/ EngineFails

Next ==
  \/ \E r \in Requests : AddRequest(r) \/ Abort(r)
  \/ ResetCache
  \/ Engine
  \/ Execute

Spec == Init /\ [][Next]_vars /\ WF_vars(Engine) /\ WF_vars(Execute)

-----------------------------------------------------------------------------
Statuses == {"absent", "waiting", "running", "preempted", "finished"}

\* The variables have their types; the blocks a request holds are distinct.
TypeOK ==
  /\ PoolTypeOK(pool)
  /\ \A r \in Requests : /\ req[r].status \in Statuses
                         /\ req[r].computed \in 0 .. MaxModelLen
                         /\ Len(req[r].tokens) <= MaxModelLen
                         /\ blocks[r] \in Seq(Blocks) /\ IsInjective(blocks[r])
                         /\ ncached[r] \in {NoEntry} \cup 0 .. Len(blocks[r])
  /\ running \in Seq(Requests) /\ waiting \in Seq(Requests)
  /\ phase \in {"input", "running", "waiting", "send", "update", "failed"}
  /\ budget \in 0 .. MaxScheduledTokens
  /\ Len(queue) <= QueueSize

Holders(b) == {r \in Requests : b \in ToSet(blocks[r])}

\* A block's reference count is the number of requests that hold it, and the free
\* list holds each block nobody holds exactly once, through every mix of hits,
\* evictions, preemptions, aborts and ends (touch, get_new_blocks, free_blocks).
RefCountsAgree ==
  /\ \A b \in Blocks : pool.ref[b] = Cardinality(Holders(b))
  /\ IsInjective(pool.free)
  /\ ToSet(pool.free) = {b \in Blocks : Holders(b) = {}}

\* The hash index and the blocks agree, and a block that is held and cached has the
\* hash of its holder's prefix: what the assertions in cache_full_blocks and in the
\* setter of block_hash take for granted.
CacheIndexAgrees ==
  /\ \A h \in DOMAIN pool.cached : ToSet(pool.cached[h]) = {b \in Blocks : pool.hash[b] = h}
  /\ \A b \in Blocks : pool.hash[b] # NoHash => pool.hash[b] \in DOMAIN pool.cached
  /\ \A r \in Requests : \A i \in DOMAIN blocks[r] :
       LET h == pool.hash[blocks[r][i]]
       IN  h # NoHash => Len(h) = i * BlockSize /\ IsPrefix(h, req[r].tokens)

\* The attention of each request reads, at each position, K/V computed from its own
\* tokens up to there: blocks are cached before they are computed, shared, evicted
\* and freed under a batch still with the worker, and yet no slot holds something else.
ReadsOwnPrefix ==
  \A x \in reads : \A i \in DOMAIN x.read : x.read[i] = Prefix(x.tokens, i)

\* A token that is still to come back was sampled from all the tokens its request has
\* by now, and only one is on its way: a request preempted, or resumed, while a batch
\* with it is with the worker gets no second token for the same position.
SamplesStayCurrent ==
  \A k \in DOMAIN queue : \A i \in DOMAIN queue[k].entries :
    LET e == queue[k].entries[i]
    IN  Samples(e) /\ Unfinished(e.r)
          => /\ e.tokens = req[e.r].tokens
             /\ \A j \in DOMAIN queue \ {k} : \A x \in ToSet(queue[j].entries) :
                  x.r = e.r => ~Samples(x)

\* First come, first served: the line of running and waiting requests keeps the order of
\* arrival, and preemption (pop from the end, prepend to the queue) does not break it.
\* Within running a younger request may still compute ahead of an older one.
ArrivalOrder ==
  LET line == running \o waiting
  IN  \A i, j \in DOMAIN line : i < j => line[i] < line[j]

\* A prompt that leaves no room for a token: it ends the engine when its last token is
\* computed on admission, and else waits for that position until it is aborted.
FillsModelLen(r) == Len(Prompt[r]) >= MaxModelLen

\* Every request that was added ends, whatever is preempted on the way: the oldest
\* one always gets the blocks it needs in the end.  Only while an unfinished request fills
\* max_model_len with its prompt the others may have to wait, or the engine fails.
\* A block is needed beyond the memory check at start-up, which counts the null block: with
\* exactly that memory a request at its last block preempts itself for ever.
EveryRequestEnds ==
  MaxModelLen <= NumBlocks * BlockSize =>
    \A r \in {q \in Requests : ~FillsModelLen(q)} :
      req[r].status = "waiting"
        ~> \/ req[r].status = "finished"
           \/ phase = "failed"
           \/ \E q \in Requests : FillsModelLen(q) /\ Unfinished(q)
=============================================================================
