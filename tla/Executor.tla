------------------------------ MODULE Executor ------------------------------
(***************************************************************************)
(* Calls of the engine to its workers (v1/executor/multiproc_executor.py): *)
(* collective_rpc broadcasts a call through the message queue, every       *)
(* worker runs the calls in turn, and those that are asked to answer put   *)
(* their result into a response queue of their own.  Answers carry no      *)
(* number: the executor takes whatever comes next.                         *)
(*                                                                         *)
(* Two kinds of calls are told apart.  "model" is execute_model: only the  *)
(* output rank answers and the workers wait for each other inside it.  Its *)
(* error is kept in a future and ends the engine when the engine takes     *)
(* that future from its batch queue (v1/engine/core.py); until then other  *)
(* calls are made and other answers read.  "utility" is a call on behalf   *)
(* of a client: all answer in order of rank, and the engine reports an     *)
(* error and goes on.                                                      *)
(*                                                                         *)
(* A response queue is a message queue with one reader: its chunks are a   *)
(* FIFO of bounded length, and a large answer follows its chunk through a  *)
(* socket, in a step of its own.                                           *)
(***************************************************************************)
EXTENDS MessageQueue, SequencesExt

CONSTANTS
  OutputRank,     \* output_rank
  MaxBatches,     \* max_concurrent_batches, also batch_queue_size
  ResponseChunks, \* max_chunks of a response queue
  LargeAnswers,   \* the calls whose answers are of at least max_chunk_bytes
  MaxCalls,       \* bound: calls
  MaxFaults,      \* bound: exceptions, and time-outs while the worker lives
  MaxDeaths       \* bound: workers that die of themselves

ASSUME ExecutorAssumption ==
  /\ OutputRank \in Readers /\ MaxBatches \in Nat \ {0}
  /\ ResponseChunks \in Nat \ {0} /\ LargeAnswers \subseteq Nat
  /\ {MaxCalls, MaxFaults, MaxDeaths} \subseteq Nat

VARIABLES
  calls,       \* kinds of the calls made
  reads,       \* reads of response queues under way: of the IO thread, or the only one
  receiving,   \* the first of them has this large answer to come from the socket, 0 if none
  blocked,     \* the call that the engine thread waits in, 0 if none
  todo,        \* workers this call is still to ask, or to read
  batch_queue, \* model calls whose futures the engine has not taken yet, oldest first
  raised,      \* model calls whose futures hold an exception
  done,        \* done[w]: calls w has run
  resp,        \* resp[w]: chunks of worker_response_mq, numbers of the calls they answer
  sending,     \* sending[w]: large answer whose chunk is published, 0 if none
  resp_sock,   \* resp_sock[w]: large answers in the socket of worker_response_mq
  failed,      \* failed[w]: the answers among them that are errors
  dead,        \* workers that died
  is_failed,   \* set by the worker monitor
  closed,      \* shut down, and the read that was under way has ended
  up,          \* FALSE once the engine has ended
  faults,      \* faults so far
  skipped,     \* ghost: skipped[w], chunks of w nobody waits for any more
  lost,        \* ghost: lost[w], the same for large answers in the socket
  answers      \* ghost: answers taken, <<call, worker, call of the chunk, call answered,
               \*                         skipped before, lost before>>

waits == <<reads, receiving, blocked, todo, batch_queue, raised>>
ghosts == <<skipped, lost, answers>>
engine == <<calls, waits, is_failed, closed, up, ghosts>>
worker == <<done, resp, sending, resp_sock, failed, dead>>
vars == <<ring, engine, worker, faults>>

Init ==
  /\ InitQueue
  /\ calls = <<>> /\ reads = <<>> /\ receiving = 0 /\ blocked = 0 /\ todo = <<>>
  /\ batch_queue = <<>> /\ raised = {}
  /\ done = [w \in Readers |-> 0]
  /\ resp = [w \in Readers |-> <<>>] /\ failed = [w \in Readers |-> {}]
  /\ sending = [w \in Readers |-> 0] /\ resp_sock = [w \in Readers |-> <<>>]
  /\ dead = {} /\ is_failed = FALSE /\ closed = FALSE /\ up = TRUE /\ faults = 0
  /\ skipped = [w \in Readers |-> 0] /\ lost = [w \in Readers |-> 0] /\ answers = {}

\* Mutant: every worker answers every call.
Addressed_All(n, w) == TRUE

\* unique_reply_rank
Addressed(n, w) == calls[n] = "model" => w = OutputRank

\* An error is reported in a few words.
IsLarge(n, w) == n \in LargeAnswers /\ n \notin failed[w]

\* The read of call n is still to come to its end: its future is not done.
UnderWay(n) == \E i \in DOMAIN reads : reads[i].call = n

-----------------------------------------------------------------------------
(* collective_rpc, step_with_batch_queue *)

Call(kind) ==
  /\ up /\ ~is_failed /\ blocked = 0 /\ Len(calls) < MaxCalls
  /\ Enqueue
  /\ calls' = Append(calls, kind)
  /\ blocked' = Len(calls) + 1
  /\ todo' = IF kind = "model" THEN <<OutputRank>> ELSE [w \in Readers |-> w]
  /\ UNCHANGED <<reads, receiving, batch_queue, raised, is_failed, closed, up, ghosts, worker, faults>>

Broadcast ==
  /\ up /\ WriterStep
  /\ UNCHANGED <<engine, worker, faults>>

\* The enqueue is done: the next answer is asked for.  The future of execute_model goes into
\* the batch queue, and the engine waits for the oldest one when the queue is full or that
\* one is done; with a queue of one, which stands for no queue, it waits for this call.
Submit ==
  /\ up /\ ~is_failed /\ blocked # 0 /\ wpc = "idle" /\ todo # <<>> /\ ~UnderWay(blocked)
  /\ reads' = Append(reads, [call |-> blocked, worker |-> Head(todo)])
  /\ LET queue == Append(batch_queue, blocked)
         goesOn == Len(queue) < MaxBatches /\ (Head(queue) = blocked \/ UnderWay(Head(queue)))
     IN  IF calls[blocked] = "utility" THEN UNCHANGED <<blocked, todo, batch_queue>>
         ELSE /\ blocked' = IF goesOn THEN 0 ELSE Head(queue)
              /\ batch_queue' = IF goesOn THEN queue ELSE Tail(queue)
              /\ todo' = <<>>
  /\ UNCHANGED <<calls, receiving, raised, is_failed, closed, up, ghosts, ring, worker, faults>>

\* Nothing more is scheduled: the engine waits for the oldest batch.
Pop ==
  /\ up /\ blocked = 0 /\ batch_queue # <<>>
  /\ blocked' = Head(batch_queue) /\ batch_queue' = Tail(batch_queue)
  /\ UNCHANGED <<calls, reads, receiving, todo, raised, is_failed, closed, up, ghosts,
                 ring, worker, faults>>

\* future.result(): the output, or the exception that ends the engine.
Result ==
  /\ up /\ blocked # 0 /\ calls[blocked] = "model" /\ todo = <<>> /\ ~UnderWay(blocked)
  /\ blocked' = IF blocked \in raised THEN blocked ELSE 0
  /\ up' = (blocked \notin raised)
  /\ UNCHANGED <<calls, reads, receiving, todo, batch_queue, raised, is_failed, closed, ghosts,
                 ring, worker, faults>>

-----------------------------------------------------------------------------
(* get_response, in the IO thread or, without one, in the engine thread *)

\* Workers that a utility call which fails at w does not come to read
Unread(n, w) == IF calls[n] = "utility" THEN ToSet(todo) \ {w} ELSE {}

\* The first read is over.  An answer that was left out of it stays in its queue.
EndRead(error, left) ==
  LET n == Head(reads).call
      last == error \/ Len(todo) = 1
  IN  /\ reads' = Tail(reads) /\ receiving' = 0
      /\ raised' = IF error /\ calls[n] = "model" THEN raised \cup {n} ELSE raised
      /\ IF calls[n] = "model" THEN UNCHANGED <<blocked, todo>>
         ELSE blocked' = (IF last THEN 0 ELSE blocked) /\ todo' = (IF last THEN <<>> ELSE Tail(todo))
      /\ skipped' = [v \in Readers |-> IF v \in left THEN skipped[v] + 1 ELSE skipped[v]]
      /\ closed' = is_failed

\* What is taken for the answer to the call that reads
Answer(w, chunkOf, m) ==
  LET n == Head(reads).call
      error == m \in failed[w]
  IN  /\ answers' = answers \cup {<<n, w, chunkOf, m, skipped[w], lost[w]>>}
      /\ EndRead(error, IF error THEN Unread(n, w) ELSE {})

\* The head of the response queue, whatever call it answers.
GetResponse ==
  /\ up /\ ~closed /\ reads # <<>> /\ receiving = 0
  /\ LET w == Head(reads).worker
         m == Head(resp[w])
     IN  /\ resp[w] # <<>>
         /\ resp' = [resp EXCEPT ![w] = Tail(@)]
         /\ IF IsLarge(m, w)
            THEN receiving' = m /\ UNCHANGED <<reads, blocked, todo, raised, closed, skipped, answers>>
            ELSE Answer(w, m, m)
  /\ UNCHANGED <<calls, batch_queue, is_failed, up, lost, ring, done, sending, resp_sock, failed,
                 dead, faults>>

\* MessageQueue.recv: no cancel event, and a time-out only if the call has one.
Receive ==
  /\ up /\ receiving # 0
  /\ LET w == Head(reads).worker
     IN  /\ resp_sock[w] # <<>>
         /\ resp_sock' = [resp_sock EXCEPT ![w] = Tail(@)]
         /\ Answer(w, receiving, Head(resp_sock[w]))
  /\ UNCHANGED <<calls, batch_queue, is_failed, up, lost, ring, done, resp, sending, failed, dead,
                 faults>>

\* dequeue looks at the queue, and recv at the socket, before the clock.
TimeOut ==
  LET n == Head(reads).call
      w == Head(reads).worker
  IN  /\ up /\ ~closed /\ reads # <<>>
      /\ IF receiving = 0 THEN resp[w] = <<>> ELSE resp_sock[w] = <<>>
      /\ w \in dead \/ faults < MaxFaults
      /\ faults' = IF w \in dead THEN faults ELSE faults + 1
      /\ EndRead(TRUE, Unread(n, w) \cup (IF receiving = 0 THEN {w} ELSE {}))
      /\ lost' = IF receiving = 0 THEN lost ELSE [lost EXCEPT ![w] = @ + 1]
      /\ UNCHANGED <<calls, batch_queue, is_failed, up, answers, ring, worker>>

\* A client may leave the time-out out, execute_model always has one.
ModelTimeOut == reads # <<>> /\ calls[Head(reads).call] = "model" /\ TimeOut

-----------------------------------------------------------------------------
(* monitor_workers, shutdown *)

\* All workers are terminated, the shutdown_event is set, and no read begins any more.
Monitor ==
  /\ dead # {} /\ ~is_failed
  /\ is_failed' = TRUE
  /\ dead' = Readers
  /\ closed' = (reads = <<>>)
  /\ UNCHANGED <<calls, waits, up, ghosts, ring, done, resp, sending, resp_sock, failed, faults>>

\* Mutant: the shutdown_event does not reach a read.
Stop_NoCancel ==
  /\ up /\ is_failed /\ wpc = "idle"
  /\ ~closed => Head(reads).call # blocked
  /\ up' = FALSE
  /\ UNCHANGED <<calls, waits, is_failed, closed, ghosts, ring, worker, faults>>

\* EXECUTOR_FAILED, or an answer that does not come: the shutdown_event cancels the read that
\* was under way while it waits for a chunk, the others do not begin.
Stop ==
  /\ up /\ is_failed /\ wpc = "idle"
  /\ ~closed /\ Head(reads).call = blocked => receiving = 0 /\ resp[Head(reads).worker] = <<>>
  /\ up' = FALSE
  /\ UNCHANGED <<calls, waits, is_failed, closed, ghosts, ring, worker, faults>>

-----------------------------------------------------------------------------
(* worker_busy_loop *)

Dequeue(w) ==
  /\ up /\ w \notin dead /\ done[w] = Len(got[w]) /\ sending[w] = 0
  /\ ReaderStep(w)
  /\ UNCHANGED <<engine, worker, faults>>

\* The call is run, and answered if it asks this worker to.  The workers of a model exchange
\* data inside execute_model: none gets through before all are in it.
Run(w) ==
  LET n == got[w][Len(got[w])]
      asked == Addressed(n, w)
  IN  /\ up /\ w \notin dead /\ done[w] < Len(got[w])
      /\ calls[n] = "model" => \A v \in Readers : n <= Len(got[v])
      /\ asked => Len(resp[w]) < ResponseChunks
      /\ resp' = IF asked THEN [resp EXCEPT ![w] = Append(@, n)] ELSE resp
      /\ done' = [done EXCEPT ![w] = @ + 1]
      /\ \/ /\ sending' = [sending EXCEPT ![w] = IF asked /\ n \in LargeAnswers THEN n ELSE 0]
            /\ UNCHANGED <<failed, faults>>
         \/ /\ faults < MaxFaults
            /\ faults' = faults + 1
            /\ failed' = [failed EXCEPT ![w] = @ \cup {n}]
            /\ UNCHANGED sending
      /\ UNCHANGED <<resp_sock, dead, engine, ring>>

\* The large answer itself, after its chunk was published.
SendAnswer(w) ==
  /\ up /\ w \notin dead /\ sending[w] # 0
  /\ resp_sock' = [resp_sock EXCEPT ![w] = Append(@, sending[w])]
  /\ sending' = [sending EXCEPT ![w] = 0]
  /\ UNCHANGED <<done, resp, failed, dead, engine, ring, faults>>

Die(w) ==
  /\ up /\ w \notin dead /\ Cardinality(dead) < MaxDeaths
  /\ dead' = dead \cup {w}
  /\ UNCHANGED <<resp, sending, resp_sock, failed, done, engine, ring, faults>>

Next ==
  \/ \E kind \in {"model", "utility"} : Call(kind)
  \/ Broadcast \/ Submit \/ Pop \/ Result
  \/ GetResponse \/ Receive \/ TimeOut \/ Monitor \/ Stop
  \/ \E w \in Readers : Dequeue(w) \/ Run(w) \/ SendAnswer(w) \/ Die(w)

\* The engine thread, the thread that reads, the monitor and the worker processes are
\* scheduled, and the time-out of execute_model passes.
Fairness ==
  /\ WF_vars(Broadcast \/ Submit \/ Pop \/ Result \/ Stop)
  /\ WF_vars(GetResponse \/ Receive \/ ModelTimeOut)
  /\ WF_vars(Monitor)
  /\ \A w \in Readers : WF_vars(Dequeue(w) \/ Run(w) \/ SendAnswer(w))

Spec == Init /\ [][Next]_vars /\ Fairness

-----------------------------------------------------------------------------
\* How many calls up to n were to be answered by w
Place(n, w) == Cardinality({i \in 1 .. n : Addressed(i, w)})

\* The chunk that a call takes from a worker is exactly as many answers late as answers of
\* this worker were left behind, by calls of either kind that timed out and by utility calls
\* that failed: when none was, it is the answer to this call.  And the large answer that
\* follows is the one that chunk announced, unless a read of this worker has timed out
\* between the two.
AnswersLag ==
  \A a \in answers :
    /\ Place(a[3], a[2]) + a[5] = Place(a[1], a[2])
    /\ a[6] = 0 => a[4] = a[3]

\* Waits that nothing ends.  acquire_write has neither a time-out nor a cancel event here, and
\* the ring is full of calls that a dead worker will not read.
StuckInEnqueue == dead # {} /\ wpc = "acquire" /\ ~MayWrite(widx)

\* recv does not look at the shutdown_event, a utility call need not have a time-out, and the
\* worker died between the chunk and the large answer.
StuckInRecv ==
  /\ receiving # 0 /\ calls[Head(reads).call] = "utility"
  /\ Head(reads).worker \in dead /\ resp_sock[Head(reads).worker] = <<>>

\* Every call ends, with answers or an error, although workers fail, are late or die, unless
\* one of the two waits above is met; a batch ends when its future is taken.  The calls are
\* bounded, so that each of them ends if none is left in the end.
CallsEnd ==
  blocked # 0 \/ batch_queue # <<>>
    ~> \/ blocked = 0 /\ batch_queue = <<>>
       \/ ~up \/ StuckInEnqueue \/ StuckInRecv

\* When a worker has died the engine stops, unless it is in one of the two waits above.
EngineStops == dead # {} ~> ~up \/ StuckInEnqueue \/ StuckInRecv
=============================================================================
